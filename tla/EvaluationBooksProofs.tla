------------------------ MODULE EvaluationBooksProofs ------------------------
(***************************************************************************)
(* The books of an evaluation, for every configuration, any market and any *)
(* policy: the proofs that Accounted holds (BooksBalance) and, at the end, *)
(* that EvaluationCompletes does (EvaluationsComplete).                    *)
(*                                                                         *)
(* Accounted compares sums over the closed trades with the last equity, so *)
(* it says nothing of the position that is open, and is not inductive.     *)
(* Books is what the loop keeps besides: BarsInv and ListsInv that its     *)
(* lists are as long as it has made steps; AgentInv that the agent's       *)
(* running account is that of its trades (Book), that the open position    *)
(* has paid for the rollovers since its bar (Holds) and that each closed   *)
(* trade has (AllCharged); PeaksInv that its peak and its drawdowns are    *)
(* those of the curve; BenchmarksInv that each benchmark has traded once.  *)
(*                                                                         *)
(* The sections: sums of integers in any order (SumIsAmount), so that a    *)
(* sum grows with its list (SumGrows); the selection of the closed trades  *)
(* from a list that grows (KeptGrows); rollovers, which the program counts *)
(* day by day and misses none of (CountIsExact), and which add up over     *)
(* adjoining bars (DueAddsUp).  Then each operation of an environment      *)
(* (SwapKeeps, OpenKeeps, CloseKeeps, TargetKeeps, HeldKeeps, SettledKeeps)*)
(* and a step (AgentSteps, BenchmarkSteps); a turn of the runner's loop    *)
(* (TurnKeepsBooks); the columns of the completed row (RowIsBalanced); and *)
(* the invariant through the evaluation.                                   *)
(*                                                                         *)
(* That an evaluation completes needs more than its books.  The columns of *)
(* the metrics, in closed form (CountsOf .. CurvesOf), keep to every       *)
(* constraint of the completed row for any lists that are Scorable         *)
(* (MetricsAllowed).  Ledger is what makes the lists Scorable: the tape of *)
(* events takes an environment from flat to its position, and what was     *)
(* charged is on the tape or on the open position.  The runner compares    *)
(* the three environments' infos, and they agree (RunnerAgrees).           *)
(* CompletesInv carries this, the constraints of both rows and the model   *)
(* through every step.                                                     *)
(***************************************************************************)
EXTENDS EvaluationRunProofs, SequenceTheorems

-----------------------------------------------------------------------------
(* Sums of integers *)

\* The gains and the losses among the values of f.
Gains(f) == [x \in DOMAIN f |-> IF f[x] > 0 THEN f[x] ELSE 0]

Losses(f) == [x \in DOMAIN f |-> IF f[x] < 0 THEN - f[x] ELSE 0]

\* What the values of f on s add up to.
Amount(f, s) == Cardinality(Units(Gains(f), s)) - Cardinality(Units(Losses(f), s))

Sum(f) == SumOver(LAMBDA n : n, f)

\* The amount of one element and of the others.
LEMMA AmountOfOne ==
    ASSUME NEW D, NEW f \in [D -> Int], NEW s \in SUBSET D, IsFiniteSet(s), NEW x \in s
    PROVE  /\ Amount(f, s) = f[x] + Amount(f, s \ {x})
           /\ Amount(f, s \ {x}) \in Int
<1>1. /\ \A y \in s : Gains(f)[y] \in Nat /\ Losses(f)[y] \in Nat
      /\ f[x] = Gains(f)[x] - Losses(f)[x]
  BY DEF Gains, Losses
<1> DEFINE G == Gains(f)
           L == Losses(f)
<1> HIDE DEF G, L
<1>2. /\ Cardinality(Units(G, s)) = G[x] + Cardinality(Units(G, s \ {x}))
      /\ Cardinality(Units(L, s)) = L[x] + Cardinality(Units(L, s \ {x}))
  BY <1>1, UnitsOfOne DEF G, L
<1>3. IsFiniteSet(s \ {x})
  BY FS_RemoveElement
<1>4. IsFiniteSet(Units(G, s \ {x})) /\ IsFiniteSet(Units(L, s \ {x}))
  BY <1>1, <1>3, UnitsAreFinite DEF G, L
<1>5. Cardinality(Units(G, s \ {x})) \in Nat /\ Cardinality(Units(L, s \ {x})) \in Nat
  BY <1>4, FS_CardinalityType
<1>6. G[x] \in Nat /\ L[x] \in Nat /\ f[x] = G[x] - L[x]
  BY <1>1 DEF G, L
<1>7. Amount(f, s) = f[x] + Amount(f, s \ {x}) /\ Amount(f, s \ {x}) \in Int
  BY <1>2, <1>5, <1>6 DEF Amount, G, L
<1> QED
  BY <1>7

\* Nothing adds up to nothing.
LEMMA AmountOfNone == ASSUME NEW f PROVE Amount(f, {}) = 0
BY FS_EmptySet DEF Amount, Units

\* A sum of integers is their amount, in whatever order it is taken.
LEMMA SumIsAmount ==
    ASSUME NEW D, IsFiniteSet(D), NEW f \in [D -> Int]
    PROVE  Sum(f) = Amount(f, D)
<1> DEFINE AnyOf(s) == CHOOSE x \in s : TRUE
           Sums(g) == g = [s \in SUBSET D |-> IF s = {} THEN 0 ELSE f[AnyOf(s)] + g[s \ {AnyOf(s)}]]
           sum == CHOOSE g : Sums(g)
           amount == [s \in SUBSET D |-> Amount(f, s)]
<1>1. Sum(f) = sum[D]
  BY DEF Sum, SumOver, MapThenSumSet, MapThenFoldSet
<1>2. \A s \in SUBSET D : s # {} => amount[s] = f[AnyOf(s)] + amount[s \ {AnyOf(s)}]
  <2> SUFFICES ASSUME NEW s \in SUBSET D, s # {}
               PROVE  amount[s] = f[AnyOf(s)] + amount[s \ {AnyOf(s)}]
    OBVIOUS
  <2>1. IsFiniteSet(s) /\ AnyOf(s) \in s /\ s \ {AnyOf(s)} \in SUBSET D
    BY FS_Subset
  <2>2. Amount(f, s) = f[AnyOf(s)] + Amount(f, s \ {AnyOf(s)})
    <3> HIDE DEF AnyOf
    <3> QED
      BY <2>1, AmountOfOne
  <2> QED
    BY <2>1, <2>2
<1>3. amount[{}] = 0
  BY AmountOfNone
<1>4. Sums(amount)
  BY <1>2, <1>3
<1>5. Sums(sum)
  BY <1>4
<1> DEFINE Bad == {n \in Nat : \E s \in SUBSET D : Cardinality(s) = n /\ sum[s] # amount[s]}
<1>6. Bad = {}
  <2> SUFFICES ASSUME Bad # {} PROVE FALSE
    OBVIOUS
  <2>1. PICK n \in Bad : \A m \in Bad : n <= m
    BY LeastNumber
  <2>2. PICK s \in SUBSET D : Cardinality(s) = n /\ sum[s] # amount[s]
    BY <2>1
  <2>3. s # {}
    BY <1>3, <1>5, <2>2
  <2> DEFINE t == s \ {AnyOf(s)}
  <2>4. sum[s] = f[AnyOf(s)] + sum[t] /\ t \in SUBSET D
    BY <1>5, <2>3
  <2>5. Cardinality(t) \in Nat /\ Cardinality(t) = n - 1
    BY <2>2, <2>3, FS_Subset, FS_RemoveElement, FS_CardinalityType
  <2>6. sum[t] = amount[t]
    <3>1. n \in Nat /\ n - 1 \notin Bad
      <4> HIDE DEF Bad
      <4>1. n \in Nat
        BY DEF Bad
      <4> QED
        BY <2>1, <4>1
    <3> HIDE DEF sum, amount, t
    <3> QED
      BY <2>4, <2>5, <3>1
  <2> QED
    BY <1>2, <2>2, <2>3, <2>4, <2>6
<1> QED
  <2>1. Cardinality(D) \in Nat /\ D \in SUBSET D
    BY FS_CardinalityType
  <2>2. sum[D] = amount[D]
    BY <1>6, <2>1
  <2> QED
    BY <1>1, <2>2

\* A sum over a list grows with it.
LEMMA SumGrows ==
    ASSUME NEW n \in Nat, NEW f \in [1 .. n -> Int], NEW g \in [1 .. n + 1 -> Int],
           \A k \in 1 .. n : g[k] = f[k]
    PROVE  Sum(g) = Sum(f) + g[n + 1] /\ Sum(f) \in Int
<1>1. IsFiniteSet(1 .. n) /\ IsFiniteSet(1 .. n + 1)
  BY FS_Interval
<1>2. Sum(f) = Amount(f, 1 .. n) /\ Sum(g) = Amount(g, 1 .. n + 1)
  BY <1>1, SumIsAmount
<1>3. n + 1 \in 1 .. n + 1 /\ (1 .. n + 1) \ {n + 1} = 1 .. n
  OBVIOUS
<1>4. /\ Amount(g, 1 .. n + 1) = g[n + 1] + Amount(g, 1 .. n)
      /\ Amount(g, 1 .. n) \in Int
  BY <1>1, <1>3, AmountOfOne
<1>5. Amount(g, 1 .. n) = Amount(f, 1 .. n)
  <2>1. \A k \in 1 .. n : Gains(g)[k] = Gains(f)[k] /\ Losses(g)[k] = Losses(f)[k]
    BY DEF Gains, Losses
  <2>2. /\ Units(Gains(g), 1 .. n) = Units(Gains(f), 1 .. n)
        /\ Units(Losses(g), 1 .. n) = Units(Losses(f), 1 .. n)
    BY <2>1 DEF Units
  <2> QED
    BY <2>2 DEF Amount
<1> QED
  BY <1>2, <1>4, <1>5

\* A sum of integers is an integer.
LEMMA SumIsWhole == ASSUME NEW n \in Nat, NEW f \in [1 .. n -> Int] PROVE Sum(f) \in Int
<1> DEFINE g == [k \in 1 .. n + 1 |-> IF k = n + 1 THEN 0 ELSE f[k]]
<1>1. g \in [1 .. n + 1 -> Int] /\ \A k \in 1 .. n : g[k] = f[k]
  OBVIOUS
<1> HIDE DEF g
<1> QED
  BY <1>1, SumGrows

\* Nothing adds up to nothing.
LEMMA NoSum == Sum(<<>>) = 0
<1>1. <<>> \in [{} -> Int] /\ IsFiniteSet({})
  BY FS_EmptySet
<1> QED
  BY <1>1, SumIsAmount, AmountOfNone

\* The nets of a list of trades
Nets(s) == [k \in DOMAIN s |-> s[k].net_return]

\* The two sums of the nets, of the properties and of the metrics.
LEMMA SumOfNets ==
    ASSUME NEW s
    PROVE  /\ NetReturn(s) = Sum(Nets(s))
           /\ Scores!Total(LAMBDA ev : ev.net_return, s) = Sum(Nets(s))
<1>1. NetReturn(s) = Sum(Nets(s))
  BY DEF NetReturn, SumOver, Sum, Nets, MapThenSumSet, MapThenFoldSet
<1>2. Scores!Total(LAMBDA ev : ev.net_return, s) = Sum(Nets(s))
  BY DEF Sum, SumOver, Nets, Scores!Total, MapThenSumSet, MapThenFoldSet,
     Scores!MapThenSumSet, Scores!MapThenFoldSet
<1> QED
  BY <1>1, <1>2

-----------------------------------------------------------------------------
(* Selections from a list *)

\* The elements of K up to k.
UpTo(K, k) == {j \in K : j <= k}

\* Every place of a finite set of numbers is taken, and by one of them only.
LEMMA Places ==
    ASSUME NEW K \in SUBSET Int, IsFiniteSet(K), NEW i \in 1 .. Cardinality(K)
    PROVE  \E k \in K : Cardinality(UpTo(K, k)) = i
<1> DEFINE Taken(L, p) == \E k \in L : Cardinality(UpTo(L, k)) = p
           Bad == {c \in Nat : \E L \in SUBSET K : Cardinality(L) = c
                                  /\ \E p \in 1 .. c : ~ Taken(L, p)}
<1>1. Bad = {}
  <2> SUFFICES ASSUME Bad # {} PROVE FALSE
    OBVIOUS
  <2>1. PICK c \in Bad : \A d \in Bad : c <= d
    BY LeastNumber
  <2>2. c \in Nat
    OBVIOUS
  <2>3. PICK L \in SUBSET K, p \in 1 .. c : Cardinality(L) = c /\ ~ Taken(L, p)
    BY <2>1
  <2>4. IsFiniteSet(L) /\ L # {} /\ L \in SUBSET Int
    <3>1. IsFiniteSet(L) /\ L \in SUBSET Int
      BY FS_Subset
    <3>2. Cardinality(L) # 0
      BY <2>2, <2>3
    <3> QED
      BY <3>1, <3>2, FS_EmptySet
  <2> DEFINE m == Max(L)
             M == L \ {m}
  <2>5. m \in L /\ \A y \in L : y <= m
    BY <2>4, GreatestNumber
  <2> HIDE DEF m
  <2>6. UpTo(L, m) = L
    BY <2>5 DEF UpTo
  <2>7. p # c
    BY <2>3, <2>5, <2>6
  <2>8. M \in SUBSET K /\ Cardinality(M) = c - 1 /\ c - 1 \in Nat
    <3>1. Cardinality(M) = Cardinality(L) - 1 /\ IsFiniteSet(M)
      BY <2>4, <2>5, FS_RemoveElement
    <3> QED
      BY <2>2, <2>3, <3>1, FS_CardinalityType
  <2>9. c - 1 \notin Bad
    <3> HIDE DEF Bad
    <3> QED
      BY <2>1, <2>2
  <2>10. Taken(M, p)
    <3>1. p \in 1 .. c - 1
      BY <2>2, <2>7
    <3> HIDE DEF Taken, M
    <3> QED
      BY <2>8, <2>9, <3>1
  <2>11. \A k \in M : UpTo(M, k) = UpTo(L, k)
    <3> SUFFICES ASSUME NEW k \in M PROVE m \notin UpTo(L, k)
      BY DEF UpTo
    <3>1. k \in Int /\ m \in Int /\ k <= m /\ k # m
      BY <2>4, <2>5
    <3> QED
      BY <3>1 DEF UpTo
  <2> QED
    BY <2>3, <2>10, <2>11
<1>2. K \in SUBSET K /\ Cardinality(K) \in Nat
  BY FS_CardinalityType
<1> HIDE DEF Taken
<1>3. Taken(K, i)
  BY <1>1, <1>2
<1> QED
  BY <1>3 DEF Taken

\* The metrics count as this module does.
LEMMA SameCount == ASSUME NEW S PROVE Scores!Cardinality(S) = Cardinality(S)
BY DEF Scores!Cardinality, Cardinality

\* t begins with the n elements of s.
Begins(s, t, n) == \A k \in 1 .. n : t[k] = s[k]

\* t is the list s, of n elements, and x.
Grows(s, t, n, x) == t = [i \in 1 .. n + 1 |-> IF i = n + 1 THEN x ELSE s[i]]

\* The place of the elements of K does not depend on a later one.
LEMMA KeptGrows ==
    ASSUME NEW n \in Nat, NEW K \in SUBSET (1 .. n), NEW s, NEW t, Begins(s, t, n)
    PROVE  /\ Cardinality(K) \in Nat
           /\ DOMAIN Scores!At(s, K) = 1 .. Cardinality(K)
           /\ \A i \in 1 .. Cardinality(K) : \E k \in K : Scores!At(s, K)[i] = s[k]
           /\ Scores!At(t, K) = Scores!At(s, K)
           /\ Grows(Scores!At(s, K), Scores!At(t, K \cup {n + 1}), Cardinality(K), t[n + 1])
<1> DEFINE c == Cardinality(K)
           L == K \cup {n + 1}
<1>1. IsFiniteSet(K) /\ c \in Nat /\ K \in SUBSET Int
  <2>1. IsFiniteSet(1 .. n) /\ 1 .. n \subseteq Int
    BY FS_Interval
  <2>2. IsFiniteSet(K) /\ K \subseteq Int
    BY <2>1, FS_Subset
  <2> QED
    BY <2>2, FS_CardinalityType
<1>2. Cardinality(L) = c + 1
  BY <1>1, FS_AddElement
<1>3. ASSUME NEW i \in 1 .. c PROVE Scores!Nth(K, i) \in K /\ t[Scores!Nth(K, i)] = s[Scores!Nth(K, i)]
  BY <1>1, <1>3, Places, SameCount DEF Scores!Nth, UpTo, Begins
<1>4. /\ \A k \in K : UpTo(L, k) = UpTo(K, k) /\ IsFiniteSet(UpTo(K, k))
      /\ UpTo(L, n + 1) = L
  <2>1. \A k \in K : k \in Int /\ k <= n
    OBVIOUS
  <2>2. \A k \in K : UpTo(L, k) = UpTo(K, k)
    BY <2>1 DEF UpTo
  <2>3. \A k \in K : UpTo(K, k) \subseteq K
    BY DEF UpTo
  <2>4. \A k \in K : IsFiniteSet(UpTo(K, k))
    BY <1>1, <2>3, FS_Subset
  <2>5. UpTo(L, n + 1) = L
    <3>1. \A j \in L : j <= n + 1
      BY <2>1
    <3> QED
      BY <3>1 DEF UpTo
  <2> QED
    BY <2>2, <2>4, <2>5
<1>5. \A k \in K : Cardinality(UpTo(K, k)) \in Nat /\ Cardinality(UpTo(K, k)) <= c
  <2>1. \A k \in K : UpTo(K, k) \subseteq K
    BY DEF UpTo
  <2> QED
    BY <1>1, <2>1, FS_Subset, FS_CardinalityType
<1>6. ASSUME NEW i \in 1 .. c PROVE Scores!Nth(L, i) = Scores!Nth(K, i)
  <2>1. \A k : k \in L /\ Cardinality(UpTo(L, k)) = i
                 <=> k \in K /\ Cardinality(UpTo(K, k)) = i
    <3>1. c + 1 # i /\ Cardinality(UpTo(L, n + 1)) = c + 1
      <4> HIDE DEF c, L
      <4> QED
        BY <1>1, <1>2, <1>4
    <3>2. \A k \in K : Cardinality(UpTo(L, k)) = Cardinality(UpTo(K, k))
      BY <1>4
    <3> HIDE DEF c
    <3> QED
      BY <3>1, <3>2
  <2> QED
    BY <2>1, SameCount DEF Scores!Nth, UpTo
<1>7. Scores!Nth(L, c + 1) = n + 1
  <2>1. \A k : k \in L /\ Cardinality(UpTo(L, k)) = c + 1 <=> k = n + 1
    <3>1. \A k \in K : Cardinality(UpTo(L, k)) # c + 1
      <4> HIDE DEF c, L
      <4> QED
        BY <1>1, <1>4, <1>5
    <3>2. Cardinality(UpTo(L, n + 1)) = c + 1
      BY <1>2, <1>4
    <3> HIDE DEF c
    <3> QED
      BY <3>1, <3>2
  <2> QED
    BY <2>1, SameCount DEF Scores!Nth, UpTo
<1>8. Scores!At(t, K) = Scores!At(s, K)
  BY <1>3, SameCount DEF Scores!At
<1>9. Scores!At(t, L) = [i \in 1 .. c + 1 |-> IF i = c + 1 THEN t[n + 1] ELSE Scores!At(s, K)[i]]
  <2> DEFINE new == [i \in 1 .. c + 1 |-> IF i = c + 1 THEN t[n + 1] ELSE Scores!At(s, K)[i]]
  <2>1. Scores!At(t, L) = [i \in 1 .. c + 1 |-> t[Scores!Nth(L, i)]]
    BY <1>2, SameCount DEF Scores!At
  <2>2. \A i \in 1 .. c : Scores!At(s, K)[i] = s[Scores!Nth(K, i)]
    BY SameCount DEF Scores!At
  <2>3. \A i \in 1 .. c + 1 : t[Scores!Nth(L, i)] = new[i]
    BY <1>1, <1>3, <1>6, <1>7, <2>2
  <2> QED
    BY <2>1, <2>3
<1>10. DOMAIN Scores!At(s, K) = 1 .. c /\ \A i \in 1 .. c : Scores!At(s, K)[i] = s[Scores!Nth(K, i)]
  BY SameCount DEF Scores!At
<1> HIDE DEF c
<1>11. \A i \in 1 .. c : \E k \in K : Scores!At(s, K)[i] = s[k]
  BY <1>3, <1>10
<1> QED
  BY <1>1, <1>8, <1>9, <1>10, <1>11 DEF c, Grows

-----------------------------------------------------------------------------
(* Rollovers *)

\* The ticks after a, up to b, at which the rollover is due.
DueBetween(a, b, swapTime) == {x \in (a + 1) .. b : SwapMinutes(x) = swapTime}

\* Only finitely many rollovers are due between two ticks.
LEMMA DueIsFinite ==
    ASSUME NEW a \in Int, NEW b \in Int, NEW swapTime
    PROVE  IsFiniteSet(DueBetween(a, b, swapTime))
<1>1. IsFiniteSet((a + 1) .. b)
  <2>1. a + 1 \in Int
    OBVIOUS
  <2> QED
    BY <2>1, FS_Interval
<1>2. DueBetween(a, b, swapTime) \subseteq (a + 1) .. b
  BY DEF DueBetween
<1> QED
  BY <1>1, <1>2, FS_Subset

\* The program counts one rollover on each date, and so misses none.
LEMMA CountIsExact ==
    ASSUME NEW a \in Int, NEW b \in Int, NEW swapTime \in 0 .. DayTicks - 1
    PROVE  CountSwapBoundaries(a, b, swapTime) = Cardinality(DueBetween(a, b, swapTime))
<1> DEFINE tick(day) == day * DayTicks + swapTime - SwapOffset
           D == {day \in SwapDay(a) .. SwapDay(b) : a < tick(day) /\ tick(day) <= b}
           T == DueBetween(a, b, swapTime)
           F == [day \in D |-> tick(day)]
<1>1. DayTicks \in Nat \ {0} /\ SwapOffset \in Int /\ swapTime \in Int
  BY CalendarAssumption
<1>2. ASSUME NEW x \in Int
      PROVE  /\ SwapDay(x) \in Int /\ SwapMinutes(x) \in 0 .. DayTicks - 1
             /\ x + SwapOffset = SwapDay(x) * DayTicks + SwapMinutes(x)
             /\ SwapDay(x) * DayTicks \in Int
  <2>1. x + SwapOffset \in Int
    BY <1>1
  <2>2. /\ SwapDay(x) \in Int /\ SwapMinutes(x) \in 0 .. DayTicks - 1
        /\ x + SwapOffset = SwapDay(x) * DayTicks + SwapMinutes(x)
    BY <1>1, <2>1, Division DEF SwapDay, SwapMinutes
  <2> QED
    BY <1>1, <2>2, Multiples
<1>3. ASSUME NEW x \in Int, NEW y \in Int, x <= y PROVE SwapDay(x) <= SwapDay(y)
  <2>1. SwapDay(y) < SwapDay(x) => SwapDay(y) * DayTicks + DayTicks <= SwapDay(x) * DayTicks
    BY <1>1, <1>2, Multiples
  <2> QED
    BY <1>1, <1>2, <1>3, <2>1
<1>4. SwapDay(a) \in Int /\ SwapDay(b) \in Int
  BY <1>2
<1>5. \A day \in Int : /\ tick(day) \in Int
                       /\ SwapDay(tick(day)) = day /\ SwapMinutes(tick(day)) = swapTime
  <2> TAKE day \in Int
  <2>1. day * DayTicks \in Int
    BY <1>1, Multiples
  <2>2. tick(day) \in Int /\ tick(day) + SwapOffset = day * DayTicks + swapTime
    BY <1>1, <2>1
  <2> HIDE DEF tick
  <2>3. tick(day) + SwapOffset \in Int
    BY <1>1, <2>2
  <2> QED
    BY <1>1, <2>2, <2>3, DivisionIsUnique DEF SwapDay, SwapMinutes
<1> HIDE DEF tick
<1>6. F \in Injection(D, T)
  <2>1. \A day \in D : day \in Int /\ F[day] \in T
    BY <1>4, <1>5 DEF DueBetween
  <2>2. \A d, e \in D : F[d] = F[e] => d = e
    BY <1>4, <1>5
  <2> QED
    BY <2>1, <2>2 DEF Injection, IsInjective
<1>7. F \in Surjection(D, T)
  <2>1. \A x \in T : SwapDay(x) \in D /\ tick(SwapDay(x)) = x
    <3> TAKE x \in T
    <3>1. x \in Int /\ a < x /\ x <= b /\ SwapMinutes(x) = swapTime
      BY DEF DueBetween
    <3>2. SwapDay(a) <= SwapDay(x) /\ SwapDay(x) <= SwapDay(b) /\ SwapDay(x) \in Int
      BY <1>2, <1>3, <3>1
    <3>3. tick(SwapDay(x)) = x
      <4>1. x + SwapOffset = SwapDay(x) * DayTicks + swapTime /\ SwapDay(x) * DayTicks \in Int
        BY <1>2, <3>1
      <4>2. tick(SwapDay(x)) = SwapDay(x) * DayTicks + swapTime - SwapOffset
        BY DEF tick
      <4> DEFINE k == SwapDay(x) * DayTicks
      <4> HIDE DEF k
      <4>3. x + SwapOffset = k + swapTime /\ k \in Int /\ tick(SwapDay(x)) = k + swapTime - SwapOffset
        BY <4>1, <4>2 DEF k
      <4> QED
        BY <1>1, <3>1, <4>3
    <3> QED
      BY <1>4, <3>1, <3>2, <3>3
  <2>2. \A x \in T : \E day \in D : F[day] = x
    BY <2>1
  <2>3. F \in [D -> T]
    BY <1>6 DEF Injection
  <2> QED
    BY <2>2, <2>3 DEF Surjection
<1>8. IsFiniteSet(D)
  <2>1. IsFiniteSet(SwapDay(a) .. SwapDay(b))
    BY <1>4, FS_Interval
  <2> QED
    BY <2>1, FS_Subset
<1> HIDE DEF D, T, F
<1>9. Cardinality(T) = Cardinality(D)
  BY <1>6, <1>7, <1>8, FS_Bijection DEF ExistsBijection, Bijection
<1>10. CountSwapBoundaries(a, b, swapTime) = Cardinality(D)
  BY DEF CountSwapBoundaries, D, tick
<1> QED
  BY <1>9, <1>10 DEF T

\* Rollovers add up over time, and none falls in no time.
LEMMA DueAddsUp ==
    ASSUME NEW a \in Int, NEW b \in Int, NEW c \in Int, a <= b, b <= c, NEW swapTime
    PROVE  /\ Cardinality(DueBetween(a, c, swapTime))
                = Cardinality(DueBetween(a, b, swapTime)) + Cardinality(DueBetween(b, c, swapTime))
           /\ Cardinality(DueBetween(a, b, swapTime)) \in Nat
           /\ Cardinality(DueBetween(a, a, swapTime)) = 0
<1> DEFINE S == DueBetween(a, b, swapTime)
           T == DueBetween(b, c, swapTime)
<1>1. IsFiniteSet(S) /\ IsFiniteSet(T)
  BY DueIsFinite
<1>2. DueBetween(a, c, swapTime) = S \cup T /\ S \cap T = {}
  BY DEF DueBetween
<1>3. DueBetween(a, a, swapTime) = {}
  BY DEF DueBetween
<1> HIDE DEF S, T
<1>4. /\ Cardinality(S \cup T) = Cardinality(S) + Cardinality(T) - Cardinality(S \cap T)
      /\ Cardinality(S) \in Nat /\ Cardinality(T) \in Nat
  BY <1>1, FS_Union, FS_CardinalityType
<1>5. Cardinality({}) = 0
  BY FS_EmptySet
<1>6. Cardinality(S \cup T) = Cardinality(S) + Cardinality(T)
  <2>1. Cardinality(S \cap T) = 0
    BY <1>2, <1>5
  <2> QED
    BY <1>4, <2>1
<1> QED
  BY <1>2, <1>3, <1>4, <1>5, <1>6 DEF S, T

-----------------------------------------------------------------------------
(* The invariant of the books *)

\* What an event charged at once.
EventFee(ev) == IF ev.event = "OPEN" THEN ev.fee ELSE ev.close_fee

\* What a closed trade has cost.
Cost(ev) == ev.entry_fee + ev.close_fee + ev.swap_cost

Fees(s) == [k \in DOMAIN s |-> EventFee(s[k])]

Costs(s) == [k \in DOMAIN s |-> Cost(s[k])]

\* The totals of a list of events.
NetOf(s) == Sum(Nets(Scores!Closes(s)))

CostOf(s) == Sum(Costs(Scores!Closes(s)))

FeeOf(s) == Sum(Fees(s))

\* A list of events with their amounts.
Priced(ev) ==
    \/ ev.event = "OPEN" /\ ev.fee \in Int
    \/ /\ ev.event = "CLOSE"
       /\ {ev.net_return, ev.entry_fee, ev.close_fee, ev.swap_cost} \subseteq Int

Logged(s) == (\E S : s \in Seq(S)) /\ \A k \in DOMAIN s : Priced(s[k])

\* The books of an environment whose steps have charged `spent` for rollovers.
Book(e, spent) ==
    /\ DOMAIN e = AgentFields
    /\ e.position \in Positions
    /\ {e.realized_return, e.entry_fee_paid, e.position_swap_cost,
        e.position_swap_events} \subseteq Int
    /\ Logged(e.trade_events)
    /\ NetOf(e.trade_events) = e.realized_return + e.entry_fee_paid + e.position_swap_cost
    /\ FeeOf(e.trade_events) + spent
         = CostOf(e.trade_events) + e.entry_fee_paid + e.position_swap_cost
    /\ e.position = 0 => e.entry_fee_paid = 0 /\ e.position_swap_cost = 0

\* The rollovers after a, up to b.
Rollovers(a, b) == Cardinality(DueBetween(a, b, Environment.swapTime))

\* The position of e was opened on a bar of f, has been held up to the bar h,
\* by the positions p, and has paid for the rollovers up to the bar i.
Holds(e, f, p, i, h) ==
    e.position # 0 =>
        LET first == e.entry_index
            rate  == SwapRate(Environment, e.position)
        IN  /\ first \in LocalObservation + 1 .. h + 1 /\ first <= i
            /\ e.entry_price \in Nat \ {0}
            /\ f[first].t <= f[i].t
            /\ e.position_swap_cost = rate * Rollovers(f[first].t, f[i].t)
            /\ e.position_swap_events * rate = e.position_swap_cost
            /\ e.hold_bars = h - first + 1
            /\ \A k \in first .. h : p[k - LocalObservation] = e.position

\* The closed trade ev has paid what it owed by the bar m.
Charged(ev, f, p, m) ==
    LET rate == SwapRate(Environment, ev.position_before)
    IN  /\ ev.entry_index \in LocalObservation + 1 .. m
        /\ ev.index \in ev.entry_index .. m
        /\ ev.swap_cost = rate * Rollovers(f[ev.entry_index].t, f[ev.index].t)
        /\ ev.swap_events * rate = ev.swap_cost
        /\ ev.bars_held = Cardinality(
             {k \in ev.entry_index .. ev.index : p[k - LocalObservation] = ev.position_before})

AllCharged(e, f, p, m) ==
    \A k \in DOMAIN Scores!Closes(e.trade_events) :
        Charged(Scores!Closes(e.trade_events)[k], f, p, m)

\* The bars seen so far, on the last of which the environments stand.
Now == LocalObservation + StepsDone

BarsInv ==
    /\ LocalObservation \in Int /\ StepsDone \in Nat /\ row.steps_expected \in Int
    /\ DOMAIN frame = LocalObservation .. Now
    /\ \A i \in DOMAIN frame : frame[i].t \in Int /\ frame[i].close \in Nat \ {0}
    /\ \A e \in {agent, always_long, always_short} :
           DOMAIN e = AgentFields /\ e.current_index = Now

Lists == {"agent_equity", "always_long_equity", "always_short_equity", "positions",
          "step_swap_costs", "drawdowns"}

ListsInv == \A f \in Lists : trace[f] \in Seq(Int) /\ Len(trace[f]) = StepsDone

\* The agent's own books.
AgentInv ==
    /\ Book(agent, Sum(trace.step_swap_costs))
    /\ StepsDone > 0 => trace.agent_equity[StepsDone] = Equity(agent, frame[Now].close)
    /\ Holds(agent, frame, trace.positions, Now, Now)
    /\ AllCharged(agent, frame, trace.positions, Now)

\* The highest of the first k values of s, which starts at 0.
Peak(s, k) == Max({0} \cup {s[i] : i \in 1 .. k})

PeaksInv ==
    /\ agent.equity_peak = Peak(trace.agent_equity, StepsDone)
    /\ \A k \in 1 .. StepsDone :
           trace.drawdowns[k] = Peak(trace.agent_equity, k) - trace.agent_equity[k]

\* A benchmark that has only opened its position.
NoSwaps == Environment.swapLong = 0 /\ Environment.swapShort = 0

Opened(e, position) ==
    /\ e.position = position /\ e.entry_price \in Nat \ {0}
    /\ \E S : e.trade_events \in Seq(S)
    /\ Len(e.trade_events) = 1 /\ e.trade_events[1].event = "OPEN"
    /\ e.realized_return \in Int
    /\ NoSwaps => e.realized_return = - Environment.fee

\* What the benchmarks are compared for.
BenchmarksAgree ==
    /\ Len(Scores!Opens(always_long.trade_events)) = 1
    /\ NoSwaps =>
         trace.always_long_equity[StepsDone] + trace.always_short_equity[StepsDone]
           = - 2 * Environment.fee * Len(always_long.trade_events)

BenchmarksInv ==
    /\ StepsDone = 0 => /\ always_long = ResetState(LocalObservation)
                        /\ always_short = ResetState(LocalObservation)
    /\ StepsDone \in 1 .. row.steps_expected - 1 =>
         /\ Opened(always_long, 1) /\ Opened(always_short, -1)
         /\ always_long.entry_price = always_short.entry_price
    /\ StepsDone > 0 => BenchmarksAgree

Books == BarsInv /\ ListsInv /\ AgentInv /\ PeaksInv /\ BenchmarksInv

\* The books while the runner steps.
BooksInv ==
    /\ phase \in {"pending", "running", "stepping"} => row.policy_mode \in PolicyModes
    /\ IF phase = "stepping" THEN Books ELSE Accounted

-----------------------------------------------------------------------------
(* The totals of a list of events *)

\* The closed trades are a selection of the events.
LEMMA ClosesOf ==
    ASSUME NEW s
    PROVE  Scores!Closes(s) = Scores!At(s, {k \in DOMAIN s : s[k].event = "CLOSE"})
BY DEF Scores!Closes, Scores!Kept

\* The closes of a list that grows by an event.
LEMMA ClosesGrow ==
    ASSUME NEW S, NEW s \in Seq(S), NEW ev
    PROVE  LET old == Scores!Closes(s)
               new == Scores!Closes(Append(s, ev))
           IN  \E c \in Nat :
                 /\ DOMAIN old = 1 .. c
                 /\ \A i \in 1 .. c : \E k \in DOMAIN s : old[i] = s[k] /\ s[k].event = "CLOSE"
                 /\ ev.event # "CLOSE" => new = old
                 /\ ev.event = "CLOSE" => Grows(old, new, c, ev)
<1> DEFINE n == Len(s)
           t == Append(s, ev)
           K == {k \in DOMAIN s : s[k].event = "CLOSE"}
           L == {k \in DOMAIN t : t[k].event = "CLOSE"}
           c == Cardinality(K)
<1>1. /\ n \in Nat /\ DOMAIN s = 1 .. n /\ DOMAIN t = 1 .. n + 1
      /\ t[n + 1] = ev /\ \A k \in 1 .. n : t[k] = s[k]
  <2>1. t \in Seq(S \cup {ev}) /\ Len(t) = n + 1 /\ n \in Nat
        /\ \A k \in 1 .. n + 1 : t[k] = IF k = n + 1 THEN ev ELSE s[k]
    BY ListGrows
  <2> HIDE DEF t
  <2> QED
    BY <2>1
<1> HIDE DEF n, t
<1>2. K \in SUBSET (1 .. n) /\ L = IF ev.event = "CLOSE" THEN K \cup {n + 1} ELSE K
  BY <1>1
<1>3. Scores!Closes(s) = Scores!At(s, K) /\ Scores!Closes(t) = Scores!At(t, L)
  BY ClosesOf
<1> HIDE DEF K, L
<1>4. /\ c \in Nat /\ DOMAIN Scores!At(s, K) = 1 .. c
      /\ \A i \in 1 .. c : \E k \in K : Scores!At(s, K)[i] = s[k]
      /\ Scores!At(t, K) = Scores!At(s, K)
      /\ Grows(Scores!At(s, K), Scores!At(t, K \cup {n + 1}), c, t[n + 1])
  <2>1. n \in Nat /\ K \in SUBSET (1 .. n) /\ Begins(s, t, n)
    BY <1>1, <1>2 DEF Begins
  <2> QED
    BY <2>1, KeptGrows
<1> HIDE DEF c
<1>5. \A i \in 1 .. c : \E k \in DOMAIN s : Scores!At(s, K)[i] = s[k] /\ s[k].event = "CLOSE"
  BY <1>4 DEF K
<1> QED
  BY <1>1, <1>2, <1>3, <1>4, <1>5 DEF t

\* The totals of a list of events that grows.
LEMMA TotalsGrow ==
    ASSUME NEW s, Logged(s), NEW ev, Priced(ev)
    PROVE  /\ Logged(Append(s, ev))
           /\ {NetOf(s), CostOf(s), FeeOf(s)} \subseteq Int
           /\ FeeOf(Append(s, ev)) = FeeOf(s) + EventFee(ev)
           /\ ev.event = "OPEN" =>
                /\ Scores!Closes(Append(s, ev)) = Scores!Closes(s)
                /\ NetOf(Append(s, ev)) = NetOf(s) /\ CostOf(Append(s, ev)) = CostOf(s)
           /\ ev.event = "CLOSE" =>
                /\ NetOf(Append(s, ev)) = NetOf(s) + ev.net_return
                /\ CostOf(Append(s, ev)) = CostOf(s) + Cost(ev)
                /\ \A k \in DOMAIN Scores!Closes(Append(s, ev)) :
                     \/ Scores!Closes(Append(s, ev))[k] = ev
                     \/ \E j \in DOMAIN Scores!Closes(s) :
                          Scores!Closes(Append(s, ev))[k] = Scores!Closes(s)[j]
<1>1. PICK S : s \in Seq(S)
  BY DEF Logged
<1> DEFINE n == Len(s)
           t == Append(s, ev)
           old == Scores!Closes(s)
           new == Scores!Closes(t)
<1>2. /\ t \in Seq(S \cup {ev}) /\ n \in Nat /\ DOMAIN s = 1 .. n /\ DOMAIN t = 1 .. n + 1
      /\ t[n + 1] = ev /\ \A k \in 1 .. n : t[k] = s[k]
  <2>1. t \in Seq(S \cup {ev}) /\ Len(t) = n + 1 /\ n \in Nat
        /\ \A k \in 1 .. n + 1 : t[k] = IF k = n + 1 THEN ev ELSE s[k]
    BY <1>1, ListGrows
  <2> HIDE DEF t
  <2> QED
    BY <1>1, <2>1
<1>3. PICK c \in Nat :
        /\ DOMAIN old = 1 .. c
        /\ \A i \in 1 .. c : \E k \in DOMAIN s : old[i] = s[k] /\ s[k].event = "CLOSE"
        /\ ev.event # "CLOSE" => new = old
        /\ ev.event = "CLOSE" => Grows(old, new, c, ev)
  BY <1>1, ClosesGrow
<1> HIDE DEF n, t, old, new
<1>4. Logged(t)
  BY <1>2 DEF Logged
<1>5. FeeOf(t) = FeeOf(s) + EventFee(ev) /\ FeeOf(s) \in Int
  <2>1. Fees(s) \in [1 .. n -> Int]
    <3>1. \A k \in 1 .. n : EventFee(s[k]) \in Int
      BY <1>2 DEF Logged, Priced, EventFee
    <3> QED
      BY <1>2, <3>1 DEF Fees
  <2>2. Fees(t) \in [1 .. n + 1 -> Int]
    <3>1. \A k \in 1 .. n + 1 : EventFee(t[k]) \in Int
      BY <1>2, <1>4 DEF Logged, Priced, EventFee
    <3> QED
      BY <1>2, <3>1 DEF Fees
  <2>3. /\ \A k \in 1 .. n : Fees(t)[k] = Fees(s)[k]
        /\ Fees(t)[n + 1] = EventFee(ev)
    BY <1>2 DEF Fees
  <2>4. Sum(Fees(t)) = Sum(Fees(s)) + Fees(t)[n + 1] /\ Sum(Fees(s)) \in Int
    BY <1>2, <2>1, <2>2, <2>3, SumGrows
  <2> QED
    BY <2>3, <2>4 DEF FeeOf
<1>6. \A i \in 1 .. c : old[i].net_return \in Int /\ Cost(old[i]) \in Int
  BY <1>3 DEF Logged, Priced, Cost
<1>7. Nets(old) \in [1 .. c -> Int] /\ Costs(old) \in [1 .. c -> Int]
  BY <1>3, <1>6 DEF Nets, Costs
<1>8. NetOf(s) \in Int /\ CostOf(s) \in Int
  BY <1>7, SumIsWhole DEF NetOf, CostOf, old
<1>9. ASSUME ev.event = "OPEN" PROVE new = old /\ NetOf(t) = NetOf(s) /\ CostOf(t) = CostOf(s)
  BY <1>3, <1>9 DEF NetOf, CostOf, new, old
<1>10. ASSUME ev.event = "CLOSE"
       PROVE  /\ NetOf(t) = NetOf(s) + ev.net_return /\ CostOf(t) = CostOf(s) + Cost(ev)
              /\ \A k \in DOMAIN new : new[k] = ev \/ \E j \in DOMAIN old : new[k] = old[j]
  <2>1. /\ DOMAIN new = 1 .. c + 1 /\ new[c + 1] = ev /\ \A i \in 1 .. c : new[i] = old[i]
    BY <1>3, <1>10 DEF Grows
  <2>2. ev.net_return \in Int /\ Cost(ev) \in Int
    BY <1>10 DEF Priced, Cost
  <2>3. /\ Nets(new) \in [1 .. c + 1 -> Int]
        /\ \A i \in 1 .. c : Nets(new)[i] = Nets(old)[i] /\ Nets(new)[c + 1] = ev.net_return
    BY <1>3, <1>6, <2>1, <2>2 DEF Nets
  <2>4. /\ Costs(new) \in [1 .. c + 1 -> Int]
        /\ \A i \in 1 .. c : Costs(new)[i] = Costs(old)[i] /\ Costs(new)[c + 1] = Cost(ev)
    BY <1>3, <1>6, <2>1, <2>2 DEF Costs
  <2>5. Nets(new)[c + 1] = ev.net_return /\ Costs(new)[c + 1] = Cost(ev)
    BY <2>1 DEF Nets, Costs
  <2>6. /\ Sum(Nets(new)) = Sum(Nets(old)) + ev.net_return
        /\ Sum(Costs(new)) = Sum(Costs(old)) + Cost(ev)
    BY <1>7, <2>3, <2>4, <2>5, SumGrows
  <2>7. \A k \in DOMAIN new : new[k] = ev \/ \E j \in DOMAIN old : new[k] = old[j]
    BY <1>3, <2>1
  <2> QED
    BY <2>6, <2>7 DEF NetOf, CostOf, new, old
<1> QED
  BY <1>4, <1>5, <1>8, <1>9, <1>10 DEF t, new, old

\* Nothing adds up to nothing.
LEMMA NoTotals ==
    /\ Logged(<<>>) /\ DOMAIN Scores!Closes(<<>>) = {}
    /\ NetOf(<<>>) = 0 /\ CostOf(<<>>) = 0 /\ FeeOf(<<>>) = 0
<1>1. <<>> \in Seq({}) /\ DOMAIN <<>> = {}
  OBVIOUS
<1>2. DOMAIN Scores!Closes(<<>>) = {}
  <2>1. {k \in DOMAIN <<>> : <<>>[k].event = "CLOSE"} = {}
    BY <1>1
  <2>2. Scores!Closes(<<>>) = Scores!At(<<>>, {})
    BY <2>1, ClosesOf
  <2> QED
    BY <2>2, SameCount, FS_EmptySet DEF Scores!At
<1>3. \A s : DOMAIN s = {} => Nets(s) = <<>> /\ Costs(s) = <<>> /\ Fees(s) = <<>>
  BY DEF Nets, Costs, Fees
<1> QED
  BY <1>1, <1>2, <1>3, NoSum DEF NetOf, CostOf, FeeOf, Logged

-----------------------------------------------------------------------------
(* What the operations of an environment change *)

\* The rollovers are charged, and nothing else changes.
LEMMA SwapFields ==
    ASSUME NEW e, DOMAIN e = AgentFields, NEW c, NEW a, NEW b
    PROVE  LET f     == ApplySwap(e, c, a, b)
               count == SwapEvents(e, c, a, b)
               cost  == SwapRate(c, e.position) * count
           IN  /\ DOMAIN f = AgentFields
               /\ f.realized_return = e.realized_return - cost
               /\ f.position_swap_cost = e.position_swap_cost + cost
               /\ f.position_swap_events = e.position_swap_events + count
               /\ f.position = e.position /\ f.entry_price = e.entry_price
               /\ f.entry_index = e.entry_index /\ f.entry_fee_paid = e.entry_fee_paid
               /\ f.equity_peak = e.equity_peak /\ f.hold_bars = e.hold_bars
               /\ f.trade_events = e.trade_events /\ f.current_index = e.current_index
BY DEF ApplySwap, AgentFields

\* Opening pays the fee and logs one event.
LEMMA OpenFields ==
    ASSUME NEW e, DOMAIN e = AgentFields, NEW c, NEW target, NEW price, NEW index
    PROVE  LET f == OpenPosition(e, c, target, price, index)
           IN  /\ DOMAIN f = AgentFields
               /\ f.realized_return = e.realized_return - c.fee
               /\ f.position = target /\ f.entry_price = price /\ f.entry_index = index
               /\ f.entry_fee_paid = c.fee
               /\ f.position_swap_cost = 0 /\ f.position_swap_events = 0 /\ f.hold_bars = 0
               /\ f.equity_peak = e.equity_peak /\ f.current_index = e.current_index
               /\ \E ev : /\ f.trade_events = Append(e.trade_events, ev)
                          /\ ev.event = "OPEN" /\ ev.fee = c.fee
<1> DEFINE ev == [event |-> "OPEN", index |-> index, price |-> price,
                  position_before |-> e.position, position_after |-> target, fee |-> c.fee]
           f == OpenPosition(e, c, target, price, index)
<1>1. f.trade_events = Append(e.trade_events, ev)
  BY DEF OpenPosition, AgentFields
<1>2. ev.event = "OPEN" /\ ev.fee = c.fee
  OBVIOUS
<1>3. \E x : /\ f.trade_events = Append(e.trade_events, x) /\ x.event = "OPEN" /\ x.fee = c.fee
  <2> HIDE DEF ev, f
  <2> QED
    BY <1>1, <1>2
<1>4. /\ DOMAIN f = AgentFields
      /\ f.realized_return = e.realized_return - c.fee
      /\ f.position = target /\ f.entry_price = price /\ f.entry_index = index
      /\ f.entry_fee_paid = c.fee
      /\ f.position_swap_cost = 0 /\ f.position_swap_events = 0 /\ f.hold_bars = 0
      /\ f.equity_peak = e.equity_peak /\ f.current_index = e.current_index
  BY DEF OpenPosition, AgentFields
<1> QED
  BY <1>3, <1>4

\* The event of a close.
CloseOf(ev, e, c, price, index) ==
    /\ ev.event = "CLOSE" /\ ev.index = index
    /\ ev.position_before = e.position /\ ev.entry_index = e.entry_index
    /\ ev.net_return = ReturnOf(e.position, e.entry_price, price)
                          - e.entry_fee_paid - c.fee - e.position_swap_cost
    /\ ev.entry_fee = e.entry_fee_paid /\ ev.close_fee = c.fee
    /\ ev.swap_cost = e.position_swap_cost
    /\ ev.swap_events = e.position_swap_events /\ ev.bars_held = e.hold_bars

\* Closing realizes the return less the fee and logs one event.
LEMMA CloseFields ==
    ASSUME NEW e, DOMAIN e = AgentFields, NEW c, NEW price, NEW index
    PROVE  LET f     == ClosePosition(e, c, price, index)
               gross == ReturnOf(e.position, e.entry_price, price)
           IN  /\ DOMAIN f = AgentFields
               /\ f.realized_return = e.realized_return + gross - c.fee
               /\ f.position = 0 /\ f.entry_fee_paid = 0
               /\ f.position_swap_cost = 0 /\ f.position_swap_events = 0 /\ f.hold_bars = 0
               /\ f.equity_peak = e.equity_peak /\ f.current_index = e.current_index
               /\ \E ev : /\ f.trade_events = Append(e.trade_events, ev)
                          /\ CloseOf(ev, e, c, price, index)
<1> DEFINE gross == ReturnOf(e.position, e.entry_price, price)
           ev == [event |-> "CLOSE", index |-> index, price |-> price,
                  position_before |-> e.position, position_after |-> 0,
                  entry_index |-> e.entry_index, entry_price |-> e.entry_price,
                  gross_return |-> gross,
                  net_return |-> gross - e.entry_fee_paid - c.fee - e.position_swap_cost,
                  entry_fee |-> e.entry_fee_paid, close_fee |-> c.fee,
                  swap_cost |-> e.position_swap_cost,
                  swap_events |-> e.position_swap_events,
                  bars_held |-> e.hold_bars]
           f == ClosePosition(e, c, price, index)
<1>1. f.trade_events = Append(e.trade_events, ev)
  BY DEF ClosePosition, AgentFields
<1>2. CloseOf(ev, e, c, price, index)
  BY DEF CloseOf
<1>3. \E x : f.trade_events = Append(e.trade_events, x) /\ CloseOf(x, e, c, price, index)
  <2> HIDE DEF ev, f, gross
  <2> QED
    BY <1>1, <1>2
<1>4. /\ DOMAIN f = AgentFields
      /\ f.realized_return = e.realized_return + gross - c.fee
      /\ f.position = 0 /\ f.entry_fee_paid = 0
      /\ f.position_swap_cost = 0 /\ f.position_swap_events = 0 /\ f.hold_bars = 0
      /\ f.equity_peak = e.equity_peak /\ f.current_index = e.current_index
  BY DEF ClosePosition, AgentFields
<1> QED
  BY <1>3, <1>4

\* The end of a step touches neither the books nor the position.
LEMMA HeldFields ==
    ASSUME NEW e, DOMAIN e = AgentFields, NEW k
    PROVE  LET f == [e EXCEPT !.hold_bars = @ + AbsInt(e.position), !.current_index = k,
                              !.steps = @ + 1]
           IN  /\ DOMAIN f = AgentFields
               /\ f.hold_bars = e.hold_bars + AbsInt(e.position) /\ f.current_index = k
               /\ f.realized_return = e.realized_return
               /\ f.position_swap_cost = e.position_swap_cost
               /\ f.position_swap_events = e.position_swap_events
               /\ f.position = e.position /\ f.entry_price = e.entry_price
               /\ f.entry_index = e.entry_index /\ f.entry_fee_paid = e.entry_fee_paid
               /\ f.equity_peak = e.equity_peak /\ f.trade_events = e.trade_events
BY DEF AgentFields

\* The end of a step moves the peak only.
LEMMA EndFields ==
    ASSUME NEW e, DOMAIN e = AgentFields, NEW peak, NEW done
    PROVE  LET f == [e EXCEPT !.equity_peak = peak, !.terminated = done]
           IN  /\ DOMAIN f = AgentFields
               /\ f.equity_peak = peak
               /\ f.realized_return = e.realized_return
               /\ f.position_swap_cost = e.position_swap_cost
               /\ f.position_swap_events = e.position_swap_events
               /\ f.position = e.position /\ f.entry_price = e.entry_price
               /\ f.entry_index = e.entry_index /\ f.entry_fee_paid = e.entry_fee_paid
               /\ f.hold_bars = e.hold_bars /\ f.trade_events = e.trade_events
               /\ f.current_index = e.current_index
BY DEF AgentFields

-----------------------------------------------------------------------------
(* The agent's books through a step *)

\* What the evaluation is charged, and where it starts.
Terms ==
    /\ LocalObservation \in Int /\ Unit \in Nat \ {0}
    /\ Environment.swapTime \in 0 .. DayTicks - 1
    /\ Environment.fee \in Nat /\ Environment.swapLong \in Nat /\ Environment.swapShort \in Nat

\* A return is a whole number of units.
LEMMA ReturnIsWhole ==
    ASSUME Unit \in Nat \ {0}, NEW position \in Positions, NEW entry \in Nat \ {0}, NEW price \in Nat
    PROVE  ReturnOf(position, entry, price) \in Int
<1>1. (price * Unit) \div entry \in Int
  <2>1. price * Unit \in Int
    OBVIOUS
  <2> QED
    BY <2>1, Division
<1> DEFINE q == (price * Unit) \div entry
<1> HIDE DEF q
<1>2. q \in Int
  BY <1>1 DEF q
<1>3. position * (q - Unit) \in Int
  BY <1>2 DEF Positions
<1> QED
  BY <1>3 DEF ReturnOf, q

\* Both sides have a rate.
LEMMA RateIs == Terms => \A position \in Positions : SwapRate(Environment, position) \in Nat
BY DEF Terms, SwapRate

\* What the rollovers between two bars charge.
LEMMA SwapCost ==
    ASSUME Terms, NEW e, e.position \in Positions, NEW a \in Int, NEW b \in Int, a <= b
    PROVE  LET count == SwapEvents(e, Environment, a, b)
               rate  == SwapRate(Environment, e.position)
           IN  /\ count \in Nat /\ rate \in Nat /\ rate * count \in Nat
               /\ e.position = 0 => count = 0 /\ rate * count = 0
               /\ e.position # 0 => rate * count = rate * Rollovers(a, b)
<1> DEFINE count == SwapEvents(e, Environment, a, b)
           rate  == SwapRate(Environment, e.position)
           due   == Rollovers(a, b)
<1>1. rate \in Nat
  BY RateIs
<1>2. due \in Nat /\ CountSwapBoundaries(a, b, Environment.swapTime) = due
  BY CountIsExact, DueIsFinite, FS_CardinalityType DEF Terms, Rollovers
<1>3. count = IF e.position = 0 \/ rate <= 0 THEN 0 ELSE due
  BY <1>2 DEF SwapEvents
<1> HIDE DEF count, rate, due
<1>4. count \in Nat /\ (e.position = 0 => count = 0)
  BY <1>2, <1>3
<1>5. rate * count \in Nat /\ (count = 0 => rate * count = 0)
  BY <1>1, <1>4
<1>6. e.position # 0 => rate * count = rate * due
  BY <1>1, <1>2, <1>3
<1> QED
  BY <1>1, <1>4, <1>5, <1>6 DEF count, rate, due

\* The rollovers before a bar are charged to the position held until then.
LEMMA SwapKeeps ==
    ASSUME Terms, NEW e, NEW spent \in Int, Book(e, spent), NEW i \in Int, NEW f, NEW p,
           \A k \in LocalObservation .. i + 1 : f[k].t \in Int, LocalObservation <= i,
           f[i].t <= f[i + 1].t, Holds(e, f, p, i, i)
    PROVE  LET g == ApplySwap(e, Environment, f[i].t, f[i + 1].t)
               cost == SwapRate(Environment, e.position)
                         * SwapEvents(e, Environment, f[i].t, f[i + 1].t)
           IN  /\ g.position = e.position /\ g.trade_events = e.trade_events
               /\ g.equity_peak = e.equity_peak /\ g.current_index = e.current_index
               /\ cost \in Nat /\ Book(g, spent + cost)
               /\ Holds(g, f, p, i + 1, i)
<1> DEFINE g == ApplySwap(e, Environment, f[i].t, f[i + 1].t)
           count == SwapEvents(e, Environment, f[i].t, f[i + 1].t)
           rate == SwapRate(Environment, e.position)
           cost == rate * count
           due == Rollovers(f[i].t, f[i + 1].t)
<1>1. /\ DOMAIN e = AgentFields /\ e.position \in Positions
      /\ LocalObservation \in Int
      /\ f[i].t \in Int /\ f[i + 1].t \in Int
  BY DEF Book, Terms
<1>2. /\ count \in Nat /\ rate \in Nat /\ cost \in Nat
      /\ e.position = 0 => count = 0 /\ cost = 0
      /\ e.position # 0 => cost = rate * due
  BY <1>1, SwapCost
<1>3. /\ DOMAIN g = AgentFields
      /\ g.realized_return = e.realized_return - cost
      /\ g.position_swap_cost = e.position_swap_cost + cost
      /\ g.position_swap_events = e.position_swap_events + count
      /\ g.position = e.position /\ g.entry_price = e.entry_price
      /\ g.entry_index = e.entry_index /\ g.entry_fee_paid = e.entry_fee_paid
      /\ g.equity_peak = e.equity_peak /\ g.hold_bars = e.hold_bars
      /\ g.trade_events = e.trade_events /\ g.current_index = e.current_index
  BY <1>1, SwapFields
<1> DEFINE psc == e.position_swap_cost
           pse == e.position_swap_events
<1> HIDE DEF g, count, rate, cost, due
<1>4. Book(g, spent + cost)
  <2>1. /\ NetOf(e.trade_events) = e.realized_return + e.entry_fee_paid + psc
        /\ FeeOf(e.trade_events) + spent = CostOf(e.trade_events) + e.entry_fee_paid + psc
        /\ {e.realized_return, e.entry_fee_paid, psc, pse} \subseteq Int
        /\ Logged(e.trade_events)
        /\ e.position = 0 => e.entry_fee_paid = 0 /\ psc = 0
    BY DEF Book
  <2>2. {CostOf(e.trade_events), FeeOf(e.trade_events)} \subseteq Int
    <3>1. Priced([event |-> "OPEN", fee |-> 0])
      BY DEF Priced
    <3> QED
      BY <2>1, <3>1, TotalsGrow
  <2> QED
    BY <1>1, <1>2, <1>3, <2>1, <2>2 DEF Book
<1>5. Holds(g, f, p, i + 1, i)
  <2> SUFFICES ASSUME e.position # 0 PROVE Holds(g, f, p, i + 1, i)
    BY <1>3 DEF Holds
  <2> DEFINE first == e.entry_index
             paid == Rollovers(f[first].t, f[i].t)
  <2>1. /\ first \in LocalObservation + 1 .. i + 1 /\ first <= i
        /\ e.entry_price \in Nat \ {0}
        /\ f[first].t <= f[i].t
        /\ psc = rate * paid
        /\ pse * rate = psc
        /\ e.hold_bars = i - first + 1
        /\ \A k \in first .. i : p[k - LocalObservation] = e.position
    BY DEF Holds, rate
  <2>2. first \in Int /\ f[first].t \in Int
    BY <1>1, <2>1
  <2>3. /\ Rollovers(f[first].t, f[i + 1].t) = paid + due
        /\ paid \in Nat /\ due \in Nat
    BY <1>1, <2>1, <2>2, DueAddsUp DEF Rollovers, due
  <2>4. psc + cost = rate * Rollovers(f[first].t, f[i + 1].t)
    <3> HIDE DEF paid, psc
    <3>1. rate * (paid + due) = rate * paid + rate * due
      BY <1>2, <2>3
    <3> QED
      BY <1>2, <2>1, <2>3, <3>1
  <2>5. (pse + count) * rate = psc + cost
    <3>1. pse \in Int
      BY DEF Book
    <3> HIDE DEF pse, psc
    <3>2. (pse + count) * rate = pse * rate + rate * count
      BY <1>2, <3>1
    <3> QED
      BY <2>1, <3>2 DEF cost
  <2>6. f[first].t <= f[i + 1].t /\ first <= i + 1
    BY <1>1, <2>1, <2>2
  <2>7. SwapRate(Environment, g.position) = rate
    BY <1>3 DEF rate
  <2> HIDE DEF paid
  <2> QED
    BY <1>3, <2>1, <2>4, <2>5, <2>6, <2>7 DEF Holds
<1> QED
  BY <1>2, <1>3, <1>4, <1>5 DEF g, cost, rate, count

\* A position is opened on bar i, before it is held on it.
LEMMA OpenKeeps ==
    ASSUME Terms, NEW e, NEW spent \in Int, Book(e, spent), e.position = 0,
           NEW i \in Int, LocalObservation < i, NEW f, f[i].t \in Int, NEW p,
           AllCharged(e, f, p, i), NEW target \in {-1, 1}, NEW price \in Nat \ {0}
    PROVE  LET g == OpenPosition(e, Environment, target, price, i)
           IN  /\ g.position = target /\ g.equity_peak = e.equity_peak
               /\ g.current_index = e.current_index
               /\ Book(g, spent) /\ AllCharged(g, f, p, i) /\ Holds(g, f, p, i, i - 1)
<1> DEFINE g == OpenPosition(e, Environment, target, price, i)
           fee == Environment.fee
<1>1. DOMAIN e = AgentFields /\ fee \in Int /\ LocalObservation \in Int
  BY DEF Book, Terms
<1>2. /\ DOMAIN g = AgentFields
      /\ g.realized_return = e.realized_return - fee
      /\ g.position = target /\ g.entry_price = price /\ g.entry_index = i
      /\ g.entry_fee_paid = fee
      /\ g.position_swap_cost = 0 /\ g.position_swap_events = 0 /\ g.hold_bars = 0
      /\ g.equity_peak = e.equity_peak /\ g.current_index = e.current_index
  BY <1>1, OpenFields
<1>3. PICK ev : /\ g.trade_events = Append(e.trade_events, ev)
                /\ ev.event = "OPEN" /\ ev.fee = fee
  BY <1>1, OpenFields
<1> HIDE DEF g, fee
<1>4. Priced(ev)
  BY <1>1, <1>3 DEF Priced
<1>5. /\ Logged(e.trade_events) /\ e.realized_return \in Int
      /\ NetOf(e.trade_events) = e.realized_return + 0 + 0
      /\ FeeOf(e.trade_events) + spent = CostOf(e.trade_events) + 0 + 0
  BY DEF Book
<1>6. /\ Logged(g.trade_events)
      /\ {NetOf(e.trade_events), CostOf(e.trade_events), FeeOf(e.trade_events)} \subseteq Int
      /\ FeeOf(g.trade_events) = FeeOf(e.trade_events) + fee
      /\ Scores!Closes(g.trade_events) = Scores!Closes(e.trade_events)
      /\ NetOf(g.trade_events) = NetOf(e.trade_events)
      /\ CostOf(g.trade_events) = CostOf(e.trade_events)
  BY <1>3, <1>4, <1>5, TotalsGrow DEF EventFee
<1>7. Book(g, spent)
  BY <1>1, <1>2, <1>5, <1>6 DEF Book, Positions
<1>8. AllCharged(g, f, p, i)
  BY <1>6 DEF AllCharged
<1>9. Holds(g, f, p, i, i - 1)
  <2>1. Rollovers(f[i].t, f[i].t) = 0 /\ SwapRate(Environment, g.position) \in Nat
    <3>1. \A a \in Int : Rollovers(a, a) = 0
      BY DueAddsUp DEF Rollovers
    <3>2. SwapRate(Environment, g.position) \in Nat
      BY <1>2, RateIs DEF Positions
    <3> QED
      BY <3>1, <3>2
  <2>2. g.entry_index \in LocalObservation + 1 .. (i - 1) + 1 /\ g.entry_index <= i
    BY <1>1, <1>2
  <2>3. g.hold_bars = (i - 1) - i + 1
    BY <1>2
  <2>4. \A k \in i .. i - 1 : p[k - LocalObservation] = g.position
    OBVIOUS
  <2> QED
    BY <1>2, <2>1, <2>2, <2>3, <2>4 DEF Holds
<1> QED
  BY <1>2, <1>7, <1>8, <1>9 DEF g

\* A position is closed on bar i, on which it was held or not.
LEMMA CloseKeeps ==
    ASSUME Terms, NEW e, NEW spent \in Int, Book(e, spent), e.position # 0,
           NEW i \in Int, LocalObservation < i, NEW f, f[i].t \in Int, NEW p,
           AllCharged(e, f, p, i), NEW price \in Nat, NEW h \in {i - 1, i}, Holds(e, f, p, i, h),
           h # i => p[i - LocalObservation] # e.position
    PROVE  LET g == ClosePosition(e, Environment, price, i)
           IN  /\ g.position = 0 /\ g.equity_peak = e.equity_peak
               /\ g.current_index = e.current_index
               /\ Book(g, spent) /\ AllCharged(g, f, p, i)
<1> DEFINE g == ClosePosition(e, Environment, price, i)
           fee == Environment.fee
           gross == ReturnOf(e.position, e.entry_price, price)
           rate == SwapRate(Environment, e.position)
           first == e.entry_index
           psc == e.position_swap_cost
           paid == Rollovers(f[first].t, f[i].t)
<1>1. DOMAIN e = AgentFields /\ fee \in Int /\ LocalObservation \in Int
  BY DEF Book, Terms
<1>2. /\ DOMAIN g = AgentFields
      /\ g.realized_return = e.realized_return + gross - fee
      /\ g.position = 0 /\ g.entry_fee_paid = 0
      /\ g.position_swap_cost = 0 /\ g.position_swap_events = 0
      /\ g.equity_peak = e.equity_peak /\ g.current_index = e.current_index
  BY <1>1, CloseFields
<1>3. PICK ev : /\ g.trade_events = Append(e.trade_events, ev)
                /\ CloseOf(ev, e, Environment, price, i)
  BY <1>1, CloseFields
<1>4. /\ g.trade_events = Append(e.trade_events, ev)
      /\ ev.event = "CLOSE" /\ ev.index = i
      /\ ev.position_before = e.position /\ ev.entry_index = first
      /\ ev.net_return = gross - e.entry_fee_paid - fee - psc
      /\ ev.entry_fee = e.entry_fee_paid /\ ev.close_fee = fee
      /\ ev.swap_cost = psc
      /\ ev.swap_events = e.position_swap_events /\ ev.bars_held = e.hold_bars
  BY <1>3 DEF CloseOf
<1>5. /\ first \in LocalObservation + 1 .. h + 1 /\ first <= i
      /\ e.entry_price \in Nat \ {0}
      /\ psc = rate * paid
      /\ e.position_swap_events * rate = psc
      /\ e.hold_bars = h - first + 1
      /\ \A k \in first .. h : p[k - LocalObservation] = e.position
  BY DEF Holds
<1>6. /\ Logged(e.trade_events) /\ {e.realized_return, e.entry_fee_paid, psc} \subseteq Int
      /\ NetOf(e.trade_events) = e.realized_return + e.entry_fee_paid + psc
      /\ FeeOf(e.trade_events) + spent = CostOf(e.trade_events) + e.entry_fee_paid + psc
      /\ e.position \in Positions
  BY DEF Book
<1>7. gross \in Int
  BY <1>5, <1>6, ReturnIsWhole DEF Terms
<1> HIDE DEF g, fee, gross, rate, first, psc, paid
<1>8. Priced(ev)
  BY <1>1, <1>4, <1>6, <1>7 DEF Priced
<1>9. /\ Logged(g.trade_events)
      /\ {NetOf(e.trade_events), CostOf(e.trade_events), FeeOf(e.trade_events)} \subseteq Int
      /\ FeeOf(g.trade_events) = FeeOf(e.trade_events) + fee
      /\ NetOf(g.trade_events) = NetOf(e.trade_events) + ev.net_return
      /\ CostOf(g.trade_events) = CostOf(e.trade_events) + Cost(ev)
      /\ \A k \in DOMAIN Scores!Closes(g.trade_events) :
           \/ Scores!Closes(g.trade_events)[k] = ev
           \/ \E j \in DOMAIN Scores!Closes(e.trade_events) :
                Scores!Closes(g.trade_events)[k] = Scores!Closes(e.trade_events)[j]
  <2>1. EventFee(ev) = fee
    BY <1>4 DEF EventFee
  <2> DEFINE s == e.trade_events
             t == g.trade_events
  <2>2. Logged(s) /\ t = Append(s, ev)
    BY <1>4, <1>6
  <2> HIDE DEF s, t
  <2>3. /\ Logged(t)
        /\ {NetOf(s), CostOf(s), FeeOf(s)} \subseteq Int
        /\ FeeOf(t) = FeeOf(s) + fee
        /\ NetOf(t) = NetOf(s) + ev.net_return
        /\ CostOf(t) = CostOf(s) + Cost(ev)
    BY <1>4, <1>8, <2>1, <2>2, TotalsGrow
  <2>4. \A k \in DOMAIN Scores!Closes(t) :
           \/ Scores!Closes(t)[k] = ev
           \/ \E j \in DOMAIN Scores!Closes(s) : Scores!Closes(t)[k] = Scores!Closes(s)[j]
    BY <1>4, <1>8, <2>2, TotalsGrow
  <2> QED
    BY <2>3, <2>4 DEF s, t
<1>10. Book(g, spent)
  <2>1. Cost(ev) = e.entry_fee_paid + fee + psc
    BY <1>4 DEF Cost
  <2>2. NetOf(g.trade_events) = g.realized_return
    <3>1. NetOf(g.trade_events) = NetOf(e.trade_events) + (gross - e.entry_fee_paid - fee - psc)
      BY <1>4, <1>9
    <3> QED
      BY <1>1, <1>2, <1>6, <1>7, <3>1
  <2>3. FeeOf(g.trade_events) + spent = CostOf(g.trade_events)
    BY <1>1, <1>6, <1>9, <2>1
  <2>4. /\ g.realized_return \in Int /\ CostOf(g.trade_events) \in Int
    BY <1>1, <1>2, <1>6, <1>7, <1>9, <2>1
  <2> QED
    BY <1>2, <1>9, <2>2, <2>3, <2>4 DEF Book, Positions
<1>11. Charged(ev, f, p, i)
  <2> DEFINE held == {k \in first .. i : p[k - LocalObservation] = e.position}
  <2>1. first \in Int /\ h \in Int /\ (h = i \/ h = i - 1)
    BY <1>1, <1>5
  <2>2. held = first .. h
    <3>1. CASE h = i
      BY <1>5, <2>1, <3>1
    <3>2. CASE h = i - 1
      <4>1. p[i - LocalObservation] # e.position
        BY <3>2
      <4>2. \A k \in first .. i : k = i \/ k \in first .. h
        BY <2>1, <3>2
      <4>3. \A k \in first .. h : k \in first .. i
        BY <2>1, <3>2
      <4> QED
        BY <1>5, <4>1, <4>2, <4>3
    <3> QED
      BY <2>1, <3>1, <3>2
  <2>3. Cardinality(first .. h) = h - first + 1
    <3>1. Cardinality(first .. h) = IF first > h THEN 0 ELSE h - first + 1
      BY <2>1, FS_Interval
    <3> QED
      BY <1>5, <2>1, <3>1
  <2>4. ev.bars_held = Cardinality(held)
    BY <1>4, <1>5, <2>2, <2>3
  <2>5. first \in LocalObservation + 1 .. i /\ i \in first .. i
    BY <1>1, <1>5, <2>1
  <2>6. /\ ev.swap_cost = rate * Rollovers(f[ev.entry_index].t, f[ev.index].t)
        /\ ev.swap_events * rate = ev.swap_cost
        /\ SwapRate(Environment, ev.position_before) = rate
    BY <1>4, <1>5 DEF paid, rate
  <2> QED
    BY <1>4, <2>4, <2>5, <2>6 DEF Charged
<1>12. AllCharged(g, f, p, i)
  BY <1>9, <1>11 DEF AllCharged
<1> QED
  BY <1>2, <1>10, <1>12 DEF g

\* The action's target is taken at the open of bar i, during which p has it.
LEMMA TargetKeeps ==
    ASSUME Terms, NEW e, NEW spent \in Int, Book(e, spent),
           NEW i \in Int, LocalObservation < i, NEW f, f[i].t \in Int, NEW p,
           AllCharged(e, f, p, i), Holds(e, f, p, i, i - 1),
           NEW target \in Positions, p[i - LocalObservation] = target, NEW price \in Nat \ {0}
    PROVE  LET g == ApplyTarget(e, Environment, target, price, i)
           IN  /\ g.position = target /\ g.equity_peak = e.equity_peak
               /\ g.current_index = e.current_index
               /\ Book(g, spent) /\ AllCharged(g, f, p, i) /\ Holds(g, f, p, i, i - 1)
<1> DEFINE closed == IF e.position = 0 THEN e ELSE ClosePosition(e, Environment, price, i)
           g == ApplyTarget(e, Environment, target, price, i)
<1>1. CASE target = e.position
  BY <1>1 DEF ApplyTarget
<1>2. CASE target # e.position
  <2>1. /\ closed.position = 0 /\ closed.equity_peak = e.equity_peak
        /\ closed.current_index = e.current_index
        /\ Book(closed, spent) /\ AllCharged(closed, f, p, i)
    <3>1. CASE e.position = 0
      BY <3>1
    <3>2. CASE e.position # 0
      <4>1. i - 1 \in {i - 1, i} /\ price \in Nat /\ p[i - LocalObservation] # e.position
        BY <1>2
      <4>2. LET c == ClosePosition(e, Environment, price, i)
            IN  /\ c.position = 0 /\ c.equity_peak = e.equity_peak
                /\ c.current_index = e.current_index
                /\ Book(c, spent) /\ AllCharged(c, f, p, i)
        BY <3>2, <4>1, CloseKeeps
      <4> QED
        BY <3>2, <4>2
    <3> QED
      BY <3>1, <3>2
  <2>2. g = IF target = 0 THEN closed ELSE OpenPosition(closed, Environment, target, price, i)
    BY <1>2 DEF ApplyTarget
  <2> HIDE DEF closed, g
  <2>3. CASE target = 0
    BY <2>1, <2>2, <2>3 DEF Holds, g
  <2>4. CASE target # 0
    <3>1. target \in {-1, 1}
      BY <2>4 DEF Positions
    <3>2. LET o == OpenPosition(closed, Environment, target, price, i)
          IN  /\ o.position = target /\ o.equity_peak = closed.equity_peak
              /\ o.current_index = closed.current_index
              /\ Book(o, spent) /\ AllCharged(o, f, p, i) /\ Holds(o, f, p, i, i - 1)
      BY <2>1, <3>1, OpenKeeps
    <3> QED
      BY <2>1, <2>2, <2>4, <3>2 DEF g
  <2> QED
    BY <2>3, <2>4
<1> QED
  BY <1>1, <1>2

\* What a book amounts to is a whole number.
LEMMA EquityIsWhole ==
    ASSUME Terms, NEW e, NEW spent, Book(e, spent), NEW i, NEW h, NEW f, NEW p,
           Holds(e, f, p, i, h), NEW price \in Nat
    PROVE  UnrealizedReturn(e, price) \in Int /\ Equity(e, price) \in Int
<1>1. e.position \in Positions /\ e.realized_return \in Int
  BY DEF Book
<1>2. UnrealizedReturn(e, price) \in Int
  <2>1. CASE e.position = 0
    BY <2>1 DEF UnrealizedReturn
  <2>2. CASE e.position # 0
    BY <1>1, <2>2, ReturnIsWhole DEF UnrealizedReturn, Holds, Terms
  <2> QED
    BY <2>1, <2>2
<1> QED
  BY <1>1, <1>2 DEF Equity

\* The bar just passed counts as held.
LEMMA HeldKeeps ==
    ASSUME Terms, NEW e, NEW spent, Book(e, spent), NEW i \in Int, LocalObservation < i,
           NEW f, NEW p, AllCharged(e, f, p, i), Holds(e, f, p, i, i - 1),
           p[i - LocalObservation] = e.position
    PROVE  LET g == [e EXCEPT !.hold_bars = @ + AbsInt(e.position), !.current_index = i,
                              !.steps = @ + 1]
           IN  /\ g.position = e.position /\ g.equity_peak = e.equity_peak
               /\ g.current_index = i
               /\ Book(g, spent) /\ AllCharged(g, f, p, i) /\ Holds(g, f, p, i, i)
<1> DEFINE g == [e EXCEPT !.hold_bars = @ + AbsInt(e.position), !.current_index = i,
                          !.steps = @ + 1]
<1>1. DOMAIN e = AgentFields /\ e.position \in Positions /\ LocalObservation \in Int
  BY DEF Book, Terms
<1>2. /\ DOMAIN g = AgentFields
      /\ g.hold_bars = e.hold_bars + AbsInt(e.position) /\ g.current_index = i
      /\ g.realized_return = e.realized_return
      /\ g.position_swap_cost = e.position_swap_cost
      /\ g.position_swap_events = e.position_swap_events
      /\ g.position = e.position /\ g.entry_price = e.entry_price
      /\ g.entry_index = e.entry_index /\ g.entry_fee_paid = e.entry_fee_paid
      /\ g.equity_peak = e.equity_peak /\ g.trade_events = e.trade_events
  BY <1>1, HeldFields
<1> HIDE DEF g
<1>3. Book(g, spent) /\ AllCharged(g, f, p, i)
  BY <1>2 DEF Book, AllCharged
<1>4. Holds(g, f, p, i, i)
  <2> SUFFICES ASSUME e.position # 0 PROVE Holds(g, f, p, i, i)
    BY <1>2 DEF Holds
  <2> DEFINE first == e.entry_index
  <2>1. /\ first \in LocalObservation + 1 .. (i - 1) + 1 /\ first <= i
        /\ e.entry_price \in Nat \ {0}
        /\ f[first].t <= f[i].t
        /\ e.position_swap_cost = SwapRate(Environment, e.position) * Rollovers(f[first].t, f[i].t)
        /\ e.position_swap_events * SwapRate(Environment, e.position) = e.position_swap_cost
        /\ e.hold_bars = (i - 1) - first + 1
        /\ \A k \in first .. i - 1 : p[k - LocalObservation] = e.position
    BY DEF Holds
  <2>2. AbsInt(e.position) = 1
    BY <1>1 DEF AbsInt, Positions
  <2>3. g.hold_bars = i - first + 1 /\ first \in LocalObservation + 1 .. i + 1
    BY <1>1, <1>2, <2>1, <2>2
  <2>4. \A k \in first .. i : p[k - LocalObservation] = e.position
    <3> TAKE k \in first .. i
    <3>1. k = i \/ k \in first .. i - 1
      BY <1>1, <2>1
    <3> QED
      BY <2>1, <3>1
  <2> QED
    BY <1>2, <2>1, <2>3, <2>4 DEF Holds
<1> QED
  BY <1>2, <1>3, <1>4 DEF g

\* The end of a step may close the position at the close of the bar.
LEMMA SettledKeeps ==
    ASSUME Terms, NEW e, NEW spent \in Int, Book(e, spent), NEW i \in Int, LocalObservation < i,
           NEW f, f[i].t \in Int, NEW p, AllCharged(e, f, p, i), Holds(e, f, p, i, i),
           NEW bar, bar.close \in Nat, NEW done
    PROVE  LET g == Settled(e, Environment, bar, i, done)
           IN  /\ g.current_index = e.current_index
               /\ g.equity_peak = Max({e.equity_peak, Equity(g, bar.close)})
               /\ Equity(g, bar.close) \in Int
               /\ Book(g, spent) /\ AllCharged(g, f, p, i) /\ Holds(g, f, p, i, i)
<1> DEFINE ends == done /\ Environment.forceClose /\ e.position # 0
           closed == IF ends THEN ClosePosition(e, Environment, bar.close, i) ELSE e
           peak == Max({closed.equity_peak, Equity(closed, bar.close)})
           g == [closed EXCEPT !.equity_peak = peak, !.terminated = done]
<1>1. /\ closed.current_index = e.current_index /\ closed.equity_peak = e.equity_peak
      /\ Book(closed, spent) /\ AllCharged(closed, f, p, i) /\ Holds(closed, f, p, i, i)
  <2>1. CASE ~ ends
    BY <2>1
  <2>2. CASE ends
    <3>1. i \in {i - 1, i} /\ e.position # 0
      BY <2>2
    <3> DEFINE c == ClosePosition(e, Environment, bar.close, i)
    <3>2. /\ c.position = 0 /\ c.equity_peak = e.equity_peak
          /\ c.current_index = e.current_index
          /\ Book(c, spent) /\ AllCharged(c, f, p, i)
      BY <3>1, CloseKeeps
    <3>3. closed = c
      BY <2>2
    <3> HIDE DEF c, closed
    <3>4. Holds(c, f, p, i, i)
      BY <3>2 DEF Holds
    <3> QED
      BY <3>2, <3>3, <3>4
  <2> QED
    BY <2>1, <2>2
<1>2. Settled(e, Environment, bar, i, done) = g
  BY DEF Settled, AgentFields, Book
<1> HIDE DEF closed
<1>3. DOMAIN closed = AgentFields
  BY <1>1 DEF Book
<1>4. /\ DOMAIN g = AgentFields
      /\ g.equity_peak = peak
      /\ g.realized_return = closed.realized_return
      /\ g.position_swap_cost = closed.position_swap_cost
      /\ g.position_swap_events = closed.position_swap_events
      /\ g.position = closed.position /\ g.entry_price = closed.entry_price
      /\ g.entry_index = closed.entry_index /\ g.entry_fee_paid = closed.entry_fee_paid
      /\ g.hold_bars = closed.hold_bars /\ g.trade_events = closed.trade_events
      /\ g.current_index = closed.current_index
  <2> HIDE DEF peak
  <2> QED
    BY <1>3, EndFields
<1> HIDE DEF g
<1>5. Equity(g, bar.close) = Equity(closed, bar.close)
  BY <1>4 DEF Equity, UnrealizedReturn
<1>6. Book(g, spent) /\ AllCharged(g, f, p, i) /\ Holds(g, f, p, i, i)
  BY <1>1, <1>4 DEF Book, AllCharged, Holds
<1>7. Equity(g, bar.close) \in Int
  BY <1>6, EquityIsWhole
<1> QED
  BY <1>1, <1>2, <1>4, <1>5, <1>6, <1>7

\* What has happened is not changed by a later bar and its position.
LEMMA HoldsStay ==
    ASSUME LocalObservation \in Int, NEW n \in Int, NEW e, NEW f, NEW g, NEW p, NEW q,
           LocalObservation <= n,
           \A k \in LocalObservation .. n : g[k] = f[k],
           \A k \in 1 .. n - LocalObservation : q[k] = p[k], Holds(e, f, p, n, n)
    PROVE  Holds(e, g, q, n, n)
<1> SUFFICES ASSUME e.position # 0 PROVE Holds(e, g, q, n, n)
  BY DEF Holds
<1> DEFINE first == e.entry_index
<1>1. first \in LocalObservation + 1 .. n /\ n \in LocalObservation .. n
  BY DEF Holds
<1>2. f[first] = g[first] /\ f[n] = g[n]
  BY <1>1
<1>3. \A k \in first .. n : q[k - LocalObservation] = p[k - LocalObservation]
  <2> TAKE k \in first .. n
  <2>1. k - LocalObservation \in 1 .. n - LocalObservation
    BY <1>1
  <2> QED
    BY <2>1
<1> QED
  BY <1>2, <1>3 DEF Holds

\* What a closed trade paid stays right when a bar is added.
LEMMA ChargesStay ==
    ASSUME LocalObservation \in Int, NEW n \in Int, NEW e, NEW f, NEW g, NEW p, NEW q,
           \A k \in LocalObservation .. n : g[k] = f[k],
           \A k \in 1 .. n - LocalObservation : q[k] = p[k], AllCharged(e, f, p, n)
    PROVE  AllCharged(e, g, q, n + 1)
<1>1. ASSUME NEW ev, Charged(ev, f, p, n) PROVE Charged(ev, g, q, n + 1)
  <2> DEFINE first == ev.entry_index
             last == ev.index
             side == ev.position_before
  <2>1. first \in LocalObservation + 1 .. n /\ last \in first .. n
    BY <1>1 DEF Charged
  <2>2. first \in LocalObservation + 1 .. n + 1 /\ last \in first .. n + 1
    BY <2>1
  <2>3. f[first] = g[first] /\ f[last] = g[last]
    BY <2>1
  <2>4. \A k \in first .. last : q[k - LocalObservation] = p[k - LocalObservation]
    <3> TAKE k \in first .. last
    <3>1. k - LocalObservation \in 1 .. n - LocalObservation
      BY <2>1
    <3> QED
      BY <3>1
  <2>5. {k \in first .. last : q[k - LocalObservation] = side}
          = {k \in first .. last : p[k - LocalObservation] = side}
    BY <2>4
  <2> QED
    BY <1>1, <2>2, <2>3, <2>5 DEF Charged
<1> QED
  BY <1>1 DEF AllCharged

\* A step of the agent, onto bar n + 1 of f, keeps its books.
LEMMA AgentSteps ==
    ASSUME Terms, NEW e, NEW spent \in Int, Book(e, spent), NEW n \in Int, e.current_index = n,
           LocalObservation <= n, NEW f, \A k \in LocalObservation .. n + 1 : f[k].t \in Int,
           f[n].t <= f[n + 1].t, {f[n + 1].open, f[n + 1].close} \subseteq Nat \ {0},
           NEW p, Holds(e, f, p, n, n), AllCharged(e, f, p, n + 1),
           NEW rows, NEW action,
           PositionTargets(Environment.position_side)[action + 1] \in Positions,
           p[(n + 1) - LocalObservation] = PositionTargets(Environment.position_side)[action + 1]
    PROVE  LET a == StepCore(e, Environment, f, rows, action)
               after == a.environment
           IN  /\ a.info.position_during_bar
                    = PositionTargets(Environment.position_side)[action + 1]
               /\ a.info.swap_cost \in Nat
               /\ Book(after, spent + a.info.swap_cost)
               /\ Holds(after, f, p, n + 1, n + 1) /\ AllCharged(after, f, p, n + 1)
               /\ after.current_index = n + 1
               /\ a.info.equity \in Int /\ a.info.equity = Equity(after, f[n + 1].close)
               /\ after.equity_peak = Max({e.equity_peak, a.info.equity})
               /\ a.info.drawdown = Max({0, after.equity_peak - a.info.equity})
<1> DEFINE i == n + 1
           bar == f[i]
           target == PositionTargets(Environment.position_side)[action + 1]
           cost == SwapRate(Environment, e.position)
                     * SwapEvents(e, Environment, f[n].t, bar.t)
           charged == ApplySwap(e, Environment, f[n].t, bar.t)
           traded == ApplyTarget(charged, Environment, target, bar.open, i)
           held == [traded EXCEPT !.hold_bars = @ + AbsInt(traded.position),
                                  !.current_index = i, !.steps = @ + 1]
           final == Settled(held, Environment, bar, i, i >= rows - 1)
           a == StepCore(e, Environment, f, rows, action)
<1>1. /\ i \in Int /\ LocalObservation < i /\ i - 1 = n /\ f[i].t \in Int
      /\ LocalObservation \in Int
  BY DEF Terms
<1>2. /\ a.environment = final
      /\ a.info = StepInfo(e, traded, final, Environment, Equity(e, f[n].close), bar,
                           SwapEvents(e, Environment, f[n].t, bar.t), target)
  BY DEF StepCore
<1>3. /\ a.info.position_during_bar = traded.position
      /\ a.info.swap_cost = cost
      /\ a.info.equity = Equity(final, bar.close)
      /\ a.info.drawdown = Max({0, final.equity_peak - Equity(final, bar.close)})
  <2> HIDE DEF traded, final, a, target
  <2> QED
    BY <1>2 DEF StepInfo, Drawdown
<1> HIDE DEF a
<1>4. /\ charged.position = e.position /\ charged.trade_events = e.trade_events
      /\ charged.equity_peak = e.equity_peak /\ charged.current_index = e.current_index
      /\ cost \in Nat /\ Book(charged, spent + cost)
      /\ Holds(charged, f, p, i, n)
  BY SwapKeeps
<1> HIDE DEF charged, cost
<1>5. spent + cost \in Int /\ AllCharged(charged, f, p, i) /\ Holds(charged, f, p, i, i - 1)
  <2>1. AllCharged(charged, f, p, i)
    BY <1>4 DEF AllCharged
  <2> QED
    BY <1>1, <1>4, <2>1
<1> DEFINE paid == spent + cost
<1> HIDE DEF paid
<1>6. Book(charged, paid) /\ paid \in Int
  BY <1>4, <1>5 DEF paid
<1>7. bar.open \in Nat \ {0} /\ bar.close \in Nat /\ target \in Positions
      /\ p[i - LocalObservation] = target
  <2>1. bar.open \in Nat \ {0} /\ bar.close \in Nat \ {0}
    BY Zenon
  <2>2. target \in Positions
    OBVIOUS
  <2>3. p[i - LocalObservation] = target
    OBVIOUS
  <2> HIDE DEF bar, target
  <2> QED
    BY <2>1, <2>2, <2>3
<1> HIDE DEF i, bar, target
<1>8. /\ traded.position = target /\ traded.equity_peak = charged.equity_peak
      /\ Book(traded, paid) /\ AllCharged(traded, f, p, i)
      /\ Holds(traded, f, p, i, i - 1)
  BY <1>1, <1>5, <1>6, <1>7, TargetKeeps
<1> HIDE DEF traded
<1>9. /\ held.position = traded.position /\ held.equity_peak = traded.equity_peak
      /\ held.current_index = i
      /\ Book(held, paid) /\ AllCharged(held, f, p, i) /\ Holds(held, f, p, i, i)
  BY <1>1, <1>7, <1>8, HeldKeeps
<1> HIDE DEF held
<1>10. /\ final.current_index = held.current_index
      /\ final.equity_peak = Max({held.equity_peak, Equity(final, bar.close)})
      /\ Equity(final, bar.close) \in Int
      /\ Book(final, paid) /\ AllCharged(final, f, p, i) /\ Holds(final, f, p, i, i)
  BY <1>1, <1>6, <1>7, <1>9, SettledKeeps
<1> HIDE DEF final
<1>11. Book(final, spent + a.info.swap_cost)
  BY <1>3, <1>10 DEF paid
<1> QED
  BY <1>2, <1>3, <1>4, <1>8, <1>9, <1>10, <1>11 DEF a, i, bar, target

-----------------------------------------------------------------------------
(* The actions *)

\* A policy selects one of the actions of the side,
LEMMA ActionsSelected ==
    ASSUME NEW mode \in PolicyModes, NEW n \in {2, 3}, NEW d \in Distributions(n), NEW threshold,
           NEW action \in Selected(mode, d, threshold)
    PROVE  action \in 0 .. n - 1
<1>1. ProbabilityUnit \in Nat \ {0}
  BY ProbabilityAssumption
<1>2. d \in [1 .. n -> 0 .. ProbabilityUnit] /\ Len(d) = n
  BY DEF Distributions
<1>3. \A a \in 0 .. n - 1 : Weight(d, a) \in Int
  BY <1>1, <1>2 DEF Weight
<1>4. CASE mode = "deterministic_argmax"
  <2> DEFINE W(a) == Weight(d, a)
             Best(a) == \A b \in 0 .. n - 1 : W(a) > W(b) \/ (W(a) = W(b) /\ a <= b)
  <2>1. action = CHOOSE a \in 0 .. n - 1 : Best(a)
    BY <1>2, <1>4 DEF Selected, Argmax
  <2>2. \E a \in 0 .. n - 1 : Best(a)
    <3> HIDE DEF W
    <3>1. CASE n = 2
      <4>1. W(0) \in Int /\ W(1) \in Int
        BY <1>3, <3>1 DEF W
      <4>2. Best(0) \/ Best(1)
        BY <3>1, <4>1
      <4> QED
        BY <3>1, <4>2
    <3>2. CASE n = 3
      <4>1. W(0) \in Int /\ W(1) \in Int /\ W(2) \in Int
        BY <1>3, <3>2 DEF W
      <4>2. Best(0) \/ Best(1) \/ Best(2)
        BY <3>2, <4>1
      <4> QED
        BY <3>2, <4>2
    <3> QED
      BY <3>1, <3>2
  <2> QED
    BY <2>1, <2>2
<1>5. CASE mode = "stochastic_sample"
  BY <1>2, <1>5 DEF Selected
<1>6. CASE mode = "probability_threshold"
  BY <1>2, <1>6 DEF Selected, ThresholdAction, Direction
<1> QED
  BY <1>4, <1>5, <1>6 DEF PolicyModes

\* each of which has a target.
LEMMA TargetsOfSides ==
    ASSUME NEW side \in Sides
    PROVE  /\ Len(PositionTargets(side)) \in {2, 3}
           /\ \A a \in 0 .. Len(PositionTargets(side)) - 1 :
                  PositionTargets(side)[a + 1] \in Positions
BY DEF Sides, PositionTargets, Positions

\* The benchmarks' targets.
LEMMA SidesOfBenchmarks ==
    PositionTargets("long_only")[2] = 1 /\ PositionTargets("short_only")[2] = -1
BY DEF PositionTargets

-----------------------------------------------------------------------------
(* The benchmarks *)

\* c charges what the evaluated environment charges.
SameTerms(c) ==
    /\ c.fee = Environment.fee /\ c.swapTime = Environment.swapTime
    /\ c.swapLong = Environment.swapLong /\ c.swapShort = Environment.swapShort
    /\ c.forceClose = Environment.forceClose

\* The benchmarks are charged as the agent is.
LEMMA SideTerms ==
    ASSUME request \in Requests, NEW name
    PROVE  LET c == [Environment EXCEPT !.position_side = name]
           IN  c.position_side = name /\ SameTerms(c)
<1>1. {"position_side", "fee", "swapLong", "swapShort", "swapTime", "forceClose"}
        \subseteq DOMAIN Environment
  BY MarketAssumption DEF Environment
<1> QED
  BY <1>1 DEF SameTerms

\* A list of one opening, or of one and a close, has one opening.
LEMMA OneOpening ==
    ASSUME NEW S, NEW s \in Seq(S), s # <<>>, s[1].event = "OPEN",
           \A k \in DOMAIN s : k # 1 => s[k].event = "CLOSE"
    PROVE  Len(Scores!Opens(s)) = 1
<1>1. {k \in DOMAIN s : s[k].event = "OPEN"} = {1}
  <2>1. 1 \in DOMAIN s
    OBVIOUS
  <2> QED
    BY <2>1
<1>2. Scores!Opens(s) = Scores!At(s, {1})
  BY <1>1 DEF Scores!Opens, Scores!Kept
<1>3. Scores!Cardinality({1}) = 1
  BY SameCount, FS_Singleton
<1>4. Scores!At(s, {1}) = [i \in 1 .. 1 |-> s[Scores!Nth({1}, i)]]
  BY <1>3 DEF Scores!At
<1> DEFINE x == s[Scores!Nth({1}, 1)]
<1>5. [i \in 1 .. 1 |-> s[Scores!Nth({1}, i)]] = <<x>>
  <2>1. \A i \in 1 .. 1 : i = 1
    OBVIOUS
  <2>2. [i \in 1 .. 1 |-> s[Scores!Nth({1}, i)]] = [i \in 1 .. 1 |-> x]
    BY <2>1
  <2> HIDE DEF x
  <2>3. [i \in 1 .. 1 |-> x] = <<x>>
    OBVIOUS
  <2> QED
    BY <2>2, <2>3
<1> HIDE DEF x
<1> QED
  BY <1>2, <1>4, <1>5

\* Nothing has been traded yet.
Untraded(e) ==
    DOMAIN e = AgentFields /\ e.position = 0 /\ e.realized_return = 0 /\ e.trade_events = <<>>

\* A benchmark opens its position at the open of the first bar, and keeps it.
LEMMA BenchmarkTrades ==
    ASSUME Terms, NEW c, SameTerms(c), NEW target \in {-1, 1}, NEW e, DOMAIN e = AgentFields,
           Untraded(e) \/ Opened(e, target), NEW a \in Int, NEW b \in Int, a <= b,
           NEW price \in Nat \ {0}, NEW i
    PROVE  LET g == ApplyTarget(ApplySwap(e, c, a, b), c, target, price, i)
           IN  /\ DOMAIN g = AgentFields /\ Opened(g, target)
               /\ g.entry_price = IF e.position = 0 THEN price ELSE e.entry_price
<1> DEFINE charged == ApplySwap(e, c, a, b)
           g == ApplyTarget(charged, c, target, price, i)
           count == SwapEvents(e, c, a, b)
           cost == SwapRate(c, e.position) * count
<1>1. e.position \in Positions /\ e.realized_return \in Int
  BY DEF Untraded, Opened, Positions
<1>2. SwapRate(c, e.position) = SwapRate(Environment, e.position)
      /\ count = SwapEvents(e, Environment, a, b)
  BY DEF SameTerms, SwapRate, SwapEvents
<1>3. /\ cost \in Nat
      /\ e.position = 0 => cost = 0
  BY <1>1, <1>2, SwapCost
<1>4. NoSwaps => cost = 0
  <2>1. NoSwaps => SwapRate(c, e.position) = 0
    BY <1>2 DEF NoSwaps, SwapRate
  <2>2. NoSwaps => count = 0
    BY <2>1 DEF SwapEvents
  <2> QED
    BY <2>1, <2>2
<1>5. /\ DOMAIN charged = AgentFields
      /\ charged.realized_return = e.realized_return - cost
      /\ charged.position = e.position /\ charged.entry_price = e.entry_price
      /\ charged.trade_events = e.trade_events
  BY SwapFields
<1> HIDE DEF charged, cost
<1> DEFINE Done == /\ DOMAIN g = AgentFields /\ Opened(g, target)
                   /\ g.entry_price = IF e.position = 0 THEN price ELSE e.entry_price
<1>6. ASSUME e.position # 0 PROVE Done
  <2>1. Opened(e, target) /\ g = charged
    BY <1>5, <1>6 DEF Untraded, Opened, ApplyTarget
  <2>2. charged.realized_return \in Int
        /\ (NoSwaps => charged.realized_return = - Environment.fee)
    BY <1>1, <1>3, <1>4, <1>5, <2>1 DEF Opened
  <2>3. Opened(charged, target)
    BY <1>5, <2>1, <2>2 DEF Opened
  <2> QED
    BY <1>5, <1>6, <2>1, <2>3
<1>7. ASSUME e.position = 0 PROVE Done
  <2>1. Untraded(e) /\ g = OpenPosition(charged, c, target, price, i)
    BY <1>5, <1>7 DEF Untraded, Opened, ApplyTarget
  <2>2. /\ DOMAIN g = AgentFields
        /\ g.realized_return = charged.realized_return - c.fee
        /\ g.position = target /\ g.entry_price = price
        /\ \E ev : /\ g.trade_events = Append(charged.trade_events, ev)
                   /\ ev.event = "OPEN" /\ ev.fee = c.fee
    BY <1>5, <2>1, OpenFields
  <2> HIDE DEF g, Done
  <2>3. PICK ev : g.trade_events = Append(<<>>, ev) /\ ev.event = "OPEN"
    BY <1>5, <2>1, <2>2 DEF Untraded
  <2>4. /\ g.trade_events \in Seq({ev}) /\ Len(g.trade_events) = 1
        /\ g.trade_events[1].event = "OPEN"
    BY <2>3
  <2>5. g.realized_return = - Environment.fee /\ g.realized_return \in Int
    BY <1>3, <1>5, <1>7, <2>1, <2>2 DEF Untraded, Terms, SameTerms
  <2>6. Opened(g, target)
    <3> HIDE DEF g
    <3> QED
      BY <2>2, <2>4, <2>5 DEF Opened
  <2> QED
    BY <1>7, <2>2, <2>6 DEF Done
<1> QED
  BY <1>6, <1>7 DEF charged

\* What a step leaves of a benchmark: its equity is what its position grosses,
\* less a fee for every event.
LEMMA BenchmarkSteps ==
    ASSUME Terms, NEW c, SameTerms(c), NEW target \in {-1, 1},
           PositionTargets(c.position_side)[2] = target, NEW e, DOMAIN e = AgentFields,
           Untraded(e) \/ Opened(e, target), NEW n \in Int, e.current_index = n,
           NEW f, f[n].t \in Int, f[n + 1].t \in Int, f[n].t <= f[n + 1].t,
           {f[n + 1].open, f[n + 1].close} \subseteq Nat \ {0}, NEW rows
    PROVE  LET a == StepCore(e, c, f, rows, 1)
               after == a.environment
               entry == IF e.position = 0 THEN f[n + 1].open ELSE e.entry_price
               ends == n + 1 >= rows - 1 /\ Environment.forceClose
           IN  /\ a.info.equity \in Int
               /\ ~ ends => Opened(after, target) /\ after.entry_price = entry
               /\ Len(Scores!Opens(after.trade_events)) = 1
               /\ Len(after.trade_events) = IF ends THEN 2 ELSE 1
               /\ NoSwaps =>
                    a.info.equity = ReturnOf(target, entry, f[n + 1].close)
                                      - Environment.fee * Len(after.trade_events)
<1> DEFINE bar == f[n + 1]
           entry == IF e.position = 0 THEN f[n + 1].open ELSE e.entry_price
           traded == ApplyTarget(ApplySwap(e, c, f[n].t, bar.t), c, target, bar.open, n + 1)
           held == [traded EXCEPT !.hold_bars = @ + AbsInt(traded.position),
                                  !.current_index = n + 1, !.steps = @ + 1]
           done == n + 1 >= rows - 1
           ends == done /\ Environment.forceClose
           closed == IF ends THEN ClosePosition(held, c, bar.close, n + 1) ELSE held
           peak == Max({closed.equity_peak, Equity(closed, bar.close)})
           final == [closed EXCEPT !.equity_peak = peak, !.terminated = done]
           a == StepCore(e, c, f, rows, 1)
           gross == ReturnOf(target, entry, bar.close)
           fee == Environment.fee
           settled == Settled(held, c, bar, n + 1, done)
<1>1. a.environment = settled /\ a.info.equity = Equity(settled, bar.close)
  <2>1. /\ a.environment = settled
        /\ a.info = StepInfo(e, traded, settled, c, Equity(e, f[n].close), bar,
                             SwapEvents(e, c, f[n].t, bar.t),
                             PositionTargets(c.position_side)[1 + 1])
    <3>1. PositionTargets(c.position_side)[1 + 1] = target
      OBVIOUS
    <3> QED
      BY <3>1, Zenon DEF StepCore
  <2> HIDE DEF traded, settled, a
  <2> QED
    BY <2>1 DEF StepInfo
<1> HIDE DEF settled, a
<1>2. /\ DOMAIN traded = AgentFields /\ Opened(traded, target)
      /\ traded.entry_price = entry
  <2>1. bar.open \in Nat \ {0}
    OBVIOUS
  <2> HIDE DEF bar
  <2>2. bar.t \in Int /\ f[n].t <= bar.t
    BY DEF bar
  <2> QED
    BY <2>1, <2>2, BenchmarkTrades DEF bar
<1>3. entry \in Nat \ {0} /\ bar.close \in Nat /\ fee \in Nat
  <2>1. entry \in Nat \ {0}
    BY <1>2 DEF Opened
  <2> QED
    BY <2>1 DEF Terms
<1>4. gross \in Int
  <2> HIDE DEF entry, bar
  <2>1. Unit \in Nat \ {0} /\ target \in Positions
    BY DEF Terms, Positions
  <2> QED
    BY <1>3, <2>1, ReturnIsWhole
<1> HIDE DEF traded
<1>5. /\ DOMAIN held = AgentFields
      /\ held.realized_return = traded.realized_return
      /\ held.position = traded.position /\ held.entry_price = traded.entry_price
      /\ held.trade_events = traded.trade_events
  BY <1>2, HeldFields
<1> HIDE DEF held
<1>6. Opened(held, target) /\ held.entry_price = entry
  BY <1>2, <1>5 DEF Opened
<1>7. a.environment = final /\ a.info.equity = Equity(final, bar.close)
  <2>1. held.position # 0 /\ c.forceClose = Environment.forceClose
    BY <1>6 DEF Opened, SameTerms
  <2>2. settled = final
    BY <2>1 DEF Settled, settled
  <2> HIDE DEF final
  <2> QED
    BY <1>1, <2>2
<1>8. Opened(held, target) => Equity(held, bar.close) = held.realized_return + gross
  BY <1>6 DEF Opened, Equity, UnrealizedReturn
<1> HIDE DEF a, gross, fee, bar, entry
<1>9. /\ final.trade_events = closed.trade_events
      /\ final.realized_return = closed.realized_return
      /\ final.position = closed.position /\ final.entry_price = closed.entry_price
      /\ Equity(final, bar.close) = Equity(closed, bar.close)
  <2>1. DOMAIN closed = AgentFields
    BY <1>5, CloseFields
  <2> HIDE DEF closed, peak, done
  <2>2. /\ final.trade_events = closed.trade_events
        /\ final.realized_return = closed.realized_return
        /\ final.position = closed.position /\ final.entry_price = closed.entry_price
    BY <2>1, EndFields
  <2> HIDE DEF final
  <2> QED
    BY <2>2 DEF Equity, UnrealizedReturn
<1> HIDE DEF final
<1>10. PICK S : held.trade_events \in Seq(S) /\ Len(held.trade_events) = 1
               /\ held.trade_events[1].event = "OPEN" /\ held.trade_events # <<>>
  BY <1>6 DEF Opened
<1>11. CASE ~ ends
  <2>1. closed = held
    BY <1>11
  <2> HIDE DEF closed, ends, done
  <2>2. /\ final.trade_events = held.trade_events
        /\ final.realized_return = held.realized_return
        /\ final.position = held.position /\ final.entry_price = held.entry_price
        /\ Equity(final, bar.close) = Equity(held, bar.close)
    BY <1>9, <2>1
  <2>3. Opened(final, target) /\ final.entry_price = entry
    BY <1>6, <2>2 DEF Opened
  <2>4. Len(Scores!Opens(final.trade_events)) = 1 /\ Len(final.trade_events) = 1
    <3>1. \A k \in DOMAIN held.trade_events : k = 1
      BY <1>10
    <3> QED
      BY <1>10, <2>2, <3>1, OneOpening
  <2>5. Equity(final, bar.close) = held.realized_return + gross /\ held.realized_return \in Int
        /\ (NoSwaps => held.realized_return = - fee)
    BY <1>6, <1>8, <2>2 DEF Opened, fee
  <2>6. a.info.equity \in Int
        /\ (NoSwaps => a.info.equity = gross - fee * 1)
    BY <1>3, <1>4, <1>7, <2>5
  <2> QED
    BY <1>7, <1>11, <2>3, <2>4, <2>6 DEF ends, done, a, gross, fee, bar, entry
<1>12. CASE ends
  <2> DEFINE c0 == ClosePosition(held, c, bar.close, n + 1)
  <2>1. closed = c0
    BY <1>12
  <2>2. /\ DOMAIN c0 = AgentFields
        /\ c0.realized_return = held.realized_return + gross - fee
        /\ c0.position = 0
        /\ \E ev : c0.trade_events = Append(held.trade_events, ev) /\ ev.event = "CLOSE"
    <3>1. c.fee = fee /\ ReturnOf(held.position, held.entry_price, bar.close) = gross
      BY <1>6 DEF SameTerms, Opened, gross, fee
    <3>2. /\ DOMAIN c0 = AgentFields
          /\ c0.realized_return
               = held.realized_return + ReturnOf(held.position, held.entry_price, bar.close)
                   - c.fee
          /\ c0.position = 0
      BY <1>5, CloseFields
    <3>3. PICK ev : c0.trade_events = Append(held.trade_events, ev)
                    /\ CloseOf(ev, held, c, bar.close, n + 1)
      BY <1>5, CloseFields
    <3>4. ev.event = "CLOSE"
      BY <3>3 DEF CloseOf
    <3> HIDE DEF c0
    <3> QED
      BY <3>1, <3>2, <3>3, <3>4 DEF c0
  <2> HIDE DEF closed, ends, done, c0
  <2>3. PICK ev : c0.trade_events = Append(held.trade_events, ev) /\ ev.event = "CLOSE"
    BY <2>2
  <2>4. /\ c0.trade_events \in Seq(S \cup {ev}) /\ Len(c0.trade_events) = 2
        /\ c0.trade_events[1].event = "OPEN" /\ c0.trade_events[2].event = "CLOSE"
    <3>1. 1 \in 1 .. Len(held.trade_events) + 1 /\ 2 \in 1 .. Len(held.trade_events) + 1
      BY <1>10
    <3> QED
      BY <1>10, <2>3, <3>1, ListGrows
  <2>5. Len(Scores!Opens(c0.trade_events)) = 1
    <3>1. c0.trade_events # <<>> /\ \A k \in DOMAIN c0.trade_events : k = 1 \/ k = 2
      BY <2>4
    <3> QED
      BY <2>4, <3>1, OneOpening
  <2>6. /\ final.trade_events = c0.trade_events
        /\ Equity(final, bar.close) = Equity(c0, bar.close)
    BY <1>9, <2>1
  <2>7. Equity(c0, bar.close) = held.realized_return + gross - fee + 0
    BY <2>2 DEF Equity, UnrealizedReturn
  <2>8. held.realized_return \in Int /\ (NoSwaps => held.realized_return = - fee)
    BY <1>6 DEF Opened, fee
  <2>9. a.info.equity \in Int
        /\ (NoSwaps => a.info.equity = gross - fee * 2)
    BY <1>3, <1>4, <1>7, <2>6, <2>7, <2>8
  <2> QED
    BY <1>7, <1>12, <2>4, <2>5, <2>6, <2>9 DEF ends, done, a, gross, fee, bar, entry
<1> QED
  BY <1>11, <1>12

-----------------------------------------------------------------------------
(* Peaks *)

\* An element that no other exceeds is the greatest.
LEMMA MaxIs ==
    ASSUME NEW S \in SUBSET Int, NEW m \in S, \A y \in S : y <= m
    PROVE  Max(S) = m
<1>1. \A x \in S : (\A y \in S : y <= x) => x = m
  <2> TAKE x \in S
  <2> SUFFICES ASSUME \A y \in S : y <= x PROVE x = m
    OBVIOUS
  <2>1. x \in Int /\ m \in Int /\ x <= m /\ m <= x
    OBVIOUS
  <2> QED
    BY <2>1
<1> QED
  BY <1>1 DEF Max

\* The peak of a curve that starts at 0.
LEMMA PeakIs ==
    ASSUME NEW n \in Nat, NEW s, \A i \in 1 .. n : s[i] \in Int
    PROVE  /\ Peak(s, n) \in Int /\ 0 <= Peak(s, n)
           /\ Peak(s, n) \in {0} \cup {s[i] : i \in 1 .. n}
           /\ \A i \in 1 .. n : s[i] <= Peak(s, n)
<1> DEFINE S == {s[i] : i \in 1 .. n}
           f == [i \in 1 .. n |-> s[i]]
<1>1. IsFiniteSet(S)
  <2>1. f \in Surjection(1 .. n, S)
    BY DEF Surjection
  <2>2. IsFiniteSet(1 .. n)
    BY FS_Interval
  <2> QED
    BY <2>1, <2>2, FS_Surjection
<1>2. IsFiniteSet({0} \cup S) /\ {0} \cup S \in SUBSET Int
  <2>1. S \in SUBSET Int
    OBVIOUS
  <2> HIDE DEF S
  <2>2. IsFiniteSet({0})
    BY FS_Singleton
  <2>3. IsFiniteSet({0} \cup S)
    BY <1>1, <2>2, FS_Union, Zenon
  <2> QED
    BY <2>1, <2>3
<1>3. Max({0} \cup S) \in {0} \cup S /\ \A y \in {0} \cup S : y <= Max({0} \cup S)
  BY <1>2, GreatestNumber
<1>4. Peak(s, n) = Max({0} \cup S)
  BY DEF Peak
<1>5. \A i \in 1 .. n : s[i] \in S
  OBVIOUS
<1> DEFINE m == Peak(s, n)
           T == {0} \cup S
<1> HIDE DEF m, S, T
<1>6. m \in T /\ (\A y \in T : y <= m) /\ T \in SUBSET Int /\ 0 \in T /\ \A i \in 1 .. n : s[i] \in T
  BY <1>2, <1>3, <1>4, <1>5 DEF m, T
<1>7. m \in Int /\ 0 <= m /\ \A i \in 1 .. n : s[i] <= m
  BY <1>6
<1> QED
  BY <1>6, <1>7 DEF m, S, T

\* The peak of a curve that grows.
LEMMA PeakGrows ==
    ASSUME NEW n \in Nat, NEW s, NEW t, \A i \in 1 .. n : s[i] \in Int /\ t[i] = s[i],
           t[n + 1] \in Int
    PROVE  /\ Peak(t, n + 1) = Max({Peak(s, n), t[n + 1]})
           /\ \A k \in 1 .. n : Peak(t, k) = Peak(s, k)
<1>1. \A k \in 1 .. n : Peak(t, k) = Peak(s, k)
  <2> TAKE k \in 1 .. n
  <2>1. \A i \in 1 .. k : t[i] = s[i]
    OBVIOUS
  <2>2. {t[i] : i \in 1 .. k} = {s[i] : i \in 1 .. k}
    BY <2>1
  <2> QED
    BY <2>2 DEF Peak
<1> DEFINE p == Peak(s, n)
           x == t[n + 1]
           q == Peak(t, n + 1)
<1>2. /\ p \in Int /\ 0 <= p
      /\ p \in {0} \cup {s[i] : i \in 1 .. n}
      /\ \A i \in 1 .. n : s[i] <= p
  BY PeakIs
<1>3. n + 1 \in Nat /\ \A i \in 1 .. n + 1 : t[i] \in Int
  <2>1. \A i \in 1 .. n + 1 : i \in 1 .. n \/ i = n + 1
    OBVIOUS
  <2> QED
    BY <2>1
<1>4. /\ q \in Int /\ 0 <= q
      /\ q \in {0} \cup {t[i] : i \in 1 .. n + 1}
      /\ \A i \in 1 .. n + 1 : t[i] <= q
  BY <1>3, PeakIs
<1> HIDE DEF p, q
<1>5. x \in Int /\ x <= q /\ p <= q
  <2>1. \A i \in 1 .. n : i \in 1 .. n + 1 /\ s[i] = t[i]
    OBVIOUS
  <2>2. n + 1 \in 1 .. n + 1
    OBVIOUS
  <2>3. p <= q
    <3>1. CASE p = 0
      BY <1>4, <3>1
    <3>2. CASE p \in {s[i] : i \in 1 .. n}
      BY <1>4, <2>1, <3>2
    <3> QED
      BY <1>2, <3>1, <3>2
  <2> QED
    BY <1>4, <2>2, <2>3
<1>6. q \in {p, x} \/ q <= p
  <2>1. CASE q = 0
    BY <1>2, <2>1
  <2>2. CASE q \in {t[i] : i \in 1 .. n + 1}
    <3>1. PICK i \in 1 .. n + 1 : q = t[i]
      BY <2>2
    <3>2. i = n + 1 \/ (i \in 1 .. n /\ q = s[i])
      BY <3>1
    <3> QED
      BY <1>2, <3>1, <3>2
  <2> QED
    BY <1>4, <2>1, <2>2
<1> HIDE DEF x
<1>7. q \in {p, x} /\ {p, x} \in SUBSET Int /\ \A y \in {p, x} : y <= q
  BY <1>2, <1>4, <1>5, <1>6
<1>8. Max({p, x}) = q
  BY <1>7, MaxIs
<1> QED
  BY <1>1, <1>8 DEF p, q, x

-----------------------------------------------------------------------------
(* A turn of the runner's loop *)

\* The three environments on the market of the next bar.
Agent(market, action) == StepCore(agent, Environment, market, LocalRows, action)

Long(market) ==
    StepCore(always_long, [Environment EXCEPT !.position_side = "long_only"], market, LocalRows, 1)

Short(market) ==
    StepCore(always_short, [Environment EXCEPT !.position_side = "short_only"], market, LocalRows, 1)

\* A bar the market may show next.
IsNext(bar) ==
    /\ bar.t \in Int /\ frame[Now].t <= bar.t
    /\ {bar.open, bar.close} \subseteq Nat \ {0}

\* What the loop records of a turn it accepts.
Turn(market, action) ==
    /\ frame' = market
    /\ agent' = Agent(market, action).environment
    /\ always_long' = Long(market).environment
    /\ always_short' = Short(market).environment
    /\ trace' = Recorded(Agent(market, action), Long(market), Short(market))
    /\ UNCHANGED <<phase, request, row>>

\* A list of integers that grows by its end.
LEMMA NumbersGrow ==
    ASSUME NEW s \in Seq(Int), NEW x \in Int
    PROVE  /\ Append(s, x) \in Seq(Int) /\ Len(Append(s, x)) = Len(s) + 1
           /\ Append(s, x)[Len(s) + 1] = x
           /\ \A k \in 1 .. Len(s) : Append(s, x)[k] = s[k]
OBVIOUS

\* What an evaluation starts from.
LEMMA Parameters ==
    ASSUME DiskInv, DataInv, RunInv, RowInv, TrainingInv, ScoringInv, Scoring
    PROVE  /\ request \in Requests /\ Terms
           /\ Environment.position_side \in Sides
           /\ row.lookback_rows = Lookback /\ Lookback \in Nat \ {0}
           /\ row.steps_expected \in Nat \ {0}
           /\ row.steps_expected = EvaluationRange.end - EvaluationRange.start
           /\ \A f \in RowColumns : row[f] = PendingRow[f]
<1>1. /\ request \in Requests /\ Prepared /\ Rows \in Int
      /\ run.window_metadata = Split.window_metadata /\ run.split_index = Split.split_index
  BY ScoringRun DEF Scoring, Uncommitted
<1>2. Lookback \in Nat \ {0}
  BY <1>1, Settings DEF Prepared
<1>3. /\ \A f \in RowColumns : row[f] = PendingRow[f]
      /\ ScopeAccepted /\ RangeAccepted
      /\ reader.frame = start.data
  BY DEF ScoringInv, RowInv, DataAgrees, Scoring
<1>4. /\ row.lookback_rows = Lookback
      /\ row.steps_expected = EvaluationRange.end - EvaluationRange.start
  BY <1>3, RowIs DEF RowColumns
<1>5. EvaluationRange.start \in Int /\ EvaluationRange.end \in Int
  BY <1>1, <1>3, ScoredRange
<1>6. row.steps_expected \in Nat \ {0}
  BY <1>3, <1>4, <1>5 DEF RangeAccepted
<1>7. Config!EnvironmentValid(Environment)
  BY <1>1 DEF Prepared, Config!ConfigValid, Environment
<1>8. /\ {Environment.fee, Environment.swapLong, Environment.swapShort} \subseteq Int
      /\ Environment.swapTime \in 0 .. DayTicks - 1 /\ Unit \in Nat \ {0}
  BY <1>1, MarketAssumption DEF Environment
<1>9. Terms /\ Environment.position_side \in Sides
  BY <1>2, <1>4, <1>7, <1>8 DEF Terms, LocalObservation, Config!EnvironmentValid, Sides
<1> QED
  BY <1>1, <1>2, <1>3, <1>4, <1>6, <1>9

\* A step is taken on a bar the market may show, with an action of the side.
LEMMA StepTakes ==
    ASSUME request \in Requests, Terms, Environment.position_side \in Sides, BarsInv,
           row.policy_mode \in PolicyModes, Step
    PROVE  \E bar, action :
             /\ IsNext(bar)
             /\ PositionTargets(Environment.position_side)[action + 1] \in Positions
             /\ StepOn(bar, action)
<1> DEFINE n == Len(PositionTargets(Environment.position_side))
           Bar(open, close, gap) ==
               [t |-> frame[agent.current_index].t + gap, open |-> open, close |-> close]
<1>1. \E d \in Distributions(n) :
      \E action \in Selected(row.policy_mode, d, row.probability_threshold) :
      \E open, close \in request.prices, gap \in request.gaps :
          StepOn(Bar(open, close, gap), action)
  BY DEF Step
<1>2. PICK d \in Distributions(n) :
          \E action \in Selected(row.policy_mode, d, row.probability_threshold) :
          \E open, close \in request.prices, gap \in request.gaps :
              StepOn(Bar(open, close, gap), action)
  BY <1>1, Zenon
<1>3. PICK action \in Selected(row.policy_mode, d, row.probability_threshold) :
          \E open, close \in request.prices, gap \in request.gaps :
              StepOn(Bar(open, close, gap), action)
  BY <1>2, Zenon
<1>4. PICK open, close, gap :
          /\ open \in request.prices /\ close \in request.prices /\ gap \in request.gaps
          /\ StepOn(Bar(open, close, gap), action)
  BY <1>3, Zenon
<1> DEFINE bar == Bar(open, close, gap)
<1>5. n \in {2, 3} /\ PositionTargets(Environment.position_side)[action + 1] \in Positions
  <2>1. n \in {2, 3}
    BY TargetsOfSides
  <2> HIDE DEF n
  <2>2. action \in 0 .. n - 1
    BY <1>3, <2>1, ActionsSelected
  <2> QED
    BY <2>1, <2>2, TargetsOfSides DEF n
<1>6. IsNext(bar)
  <2>1. agent.current_index = Now /\ Now \in DOMAIN frame
    BY DEF BarsInv, Now
  <2>2. frame[Now].t \in Int
    BY <2>1 DEF BarsInv
  <2>3. request.prices \subseteq Nat \ {0} /\ request.gaps \subseteq Nat \ {0}
    BY MarketAssumption
  <2>4. bar.t = frame[Now].t + gap /\ bar.open = open /\ bar.close = close
    BY <2>1
  <2> HIDE DEF bar
  <2> QED
    BY <1>4, <2>2, <2>3, <2>4 DEF IsNext
<1>7. StepOn(bar, action)
  BY <1>4
<1> HIDE DEF bar
<1> QED
  BY <1>5, <1>6, <1>7

\* It fails, or is a turn, the one that the runner accepts.
LEMMA StepIsTurn ==
    ASSUME NEW bar, NEW action, StepOn(bar, action)
    PROVE  LET market == WithBar(bar)
           IN  /\ Fail \/ Turn(market, action)
               /\ RunnerAccepts(Agent(market, action), Long(market), Short(market))
                      => Turn(market, action)
BY DEF StepOn, Turn, Agent, Long, Short, startVars

\* The market with the next bar.
LEMMA MarketGrows ==
    ASSUME BarsInv, NEW bar, IsNext(bar)
    PROVE  LET market == WithBar(bar)
           IN  /\ Now \in Int /\ LocalObservation <= Now
               /\ DOMAIN market = LocalObservation .. Now + 1
               /\ \A k \in LocalObservation .. Now : market[k] = frame[k]
               /\ \A k \in LocalObservation .. Now + 1 :
                      market[k].t \in Int /\ market[k].close \in Nat \ {0}
               /\ market[Now].t <= market[Now + 1].t
               /\ {market[Now + 1].open, market[Now + 1].close} \subseteq Nat \ {0}
<1> DEFINE market == WithBar(bar)
           n == Now
           first == LocalObservation
<1>1. n \in Int /\ first \in Int /\ first <= n /\ agent.current_index = n
  BY DEF BarsInv, Now
<1>2. DOMAIN frame = first .. n /\ \A i \in first .. n : frame[i].t \in Int /\ frame[i].close \in Nat \ {0}
  BY DEF BarsInv
<1>3. market = [i \in DOMAIN frame \cup {n + 1} |-> IF i \in DOMAIN frame THEN frame[i] ELSE bar]
  BY <1>1 DEF WithBar
<1>4. bar.t \in Int /\ frame[n].t <= bar.t /\ {bar.open, bar.close} \subseteq Nat \ {0}
  BY DEF IsNext
<1> HIDE DEF market, n, first
<1>5. DOMAIN frame \cup {n + 1} = first .. n + 1
  BY <1>1, <1>2
<1>6. /\ DOMAIN market = first .. n + 1
      /\ \A k \in first .. n : market[k] = frame[k]
      /\ market[n + 1] = bar
  <2>1. \A k \in first .. n + 1 : market[k] = IF k \in first .. n THEN frame[k] ELSE bar
    BY <1>2, <1>3, <1>5
  <2>2. \A k \in first .. n : k \in first .. n + 1
    BY <1>1
  <2>3. n + 1 \in first .. n + 1 /\ n + 1 \notin first .. n
    BY <1>1
  <2> QED
    BY <1>3, <1>5, <2>1, <2>2, <2>3
<1>7. \A k \in first .. n + 1 : k \in first .. n \/ k = n + 1
  BY <1>1
<1>8. n \in first .. n
  BY <1>1
<1> QED
  BY <1>1, <1>2, <1>4, <1>6, <1>7, <1>8 DEF market, n, first

\* A turn counts one step, and changes neither what is charged nor the start.
LEMMA TurnCounts ==
    ASSUME BarsInv, ListsInv, NEW market, NEW action, Turn(market, action)
    PROVE  /\ Environment' = Environment /\ LocalObservation' = LocalObservation
           /\ row' = row
           /\ StepsDone \in Nat /\ StepsDone' = StepsDone + 1 /\ Now' = Now + 1
<1>1. Environment' = Environment /\ LocalObservation' = LocalObservation /\ row' = row
  BY DEF Turn, Environment, LocalObservation
<1>2. trace'.agent_equity = Append(trace.agent_equity, Agent(market, action).info.equity)
  BY DEF Turn, Recorded
<1>3. trace.agent_equity \in Seq(Int)
  BY DEF ListsInv, Lists
<1>4. StepsDone \in Nat /\ StepsDone' = StepsDone + 1
  BY <1>2, <1>3, ListGrows DEF StepsDone
<1>5. Now' = Now + 1
  BY <1>1, <1>4 DEF Now, BarsInv
<1> QED
  BY <1>1, <1>4, <1>5

\* The environments stand on the new bar.
LEMMA TurnKeepsBars ==
    ASSUME BarsInv, ListsInv, NEW bar, NEW action, IsNext(bar), Turn(WithBar(bar), action)
    PROVE  BarsInv'
<1> DEFINE market == WithBar(bar)
<1>1. /\ LocalObservation' = LocalObservation /\ row' = row
      /\ StepsDone \in Nat /\ StepsDone' = StepsDone + 1 /\ Now' = Now + 1
  BY TurnCounts
<1>2. /\ DOMAIN market = LocalObservation .. Now + 1
      /\ \A k \in LocalObservation .. Now + 1 :
             market[k].t \in Int /\ market[k].close \in Nat \ {0}
  BY MarketGrows
<1>3. \A e \in {agent, always_long, always_short} :
          DOMAIN e = AgentFields /\ e.current_index = Now
  BY DEF BarsInv
<1>4. \A e \in {agent', always_long', always_short'} :
          DOMAIN e = AgentFields /\ e.current_index = Now + 1
  BY <1>3, StepMoves DEF Turn, Agent, Long, Short
<1>5. frame' = market
  BY DEF Turn
<1> HIDE DEF market
<1> QED
  BY <1>1, <1>2, <1>4, <1>5 DEF BarsInv

\* The list f has grown by x.
Grown(f, x) ==
    /\ trace'[f] \in Seq(Int) /\ Len(trace'[f]) = StepsDone + 1
    /\ trace'[f][StepsDone + 1] = x
    /\ \A k \in 1 .. StepsDone : trace'[f][k] = trace[f][k]

\* Every list of the loop grows by what the turn recorded.
LEMMA ListsGrow ==
    ASSUME BarsInv, ListsInv, NEW market, NEW action, Turn(market, action),
           LET info == Agent(market, action).info
           IN  {info.equity, info.position_during_bar, info.swap_cost, info.drawdown,
                Long(market).info.equity, Short(market).info.equity} \subseteq Int
    PROVE  /\ ListsInv'
           /\ Grown("agent_equity", Agent(market, action).info.equity)
           /\ Grown("always_long_equity", Long(market).info.equity)
           /\ Grown("always_short_equity", Short(market).info.equity)
           /\ Grown("positions", Agent(market, action).info.position_during_bar)
           /\ Grown("step_swap_costs", Agent(market, action).info.swap_cost)
           /\ Grown("drawdowns", Agent(market, action).info.drawdown)
<1>1. ASSUME NEW f \in Lists, NEW x \in Int, trace'[f] = Append(trace[f], x) PROVE Grown(f, x)
  <2>1. trace[f] \in Seq(Int) /\ Len(trace[f]) = StepsDone
    BY DEF ListsInv
  <2> QED
    BY <1>1, <2>1, NumbersGrow DEF Grown
<1>2. /\ trace'.agent_equity = Append(trace.agent_equity, Agent(market, action).info.equity)
      /\ trace'.always_long_equity = Append(trace.always_long_equity, Long(market).info.equity)
      /\ trace'.always_short_equity = Append(trace.always_short_equity, Short(market).info.equity)
      /\ trace'.positions = Append(trace.positions, Agent(market, action).info.position_during_bar)
      /\ trace'.step_swap_costs
           = Append(trace.step_swap_costs, Agent(market, action).info.swap_cost)
      /\ trace'.drawdowns = Append(trace.drawdowns, Agent(market, action).info.drawdown)
  BY DEF Turn, Recorded
<1>3. /\ Grown("agent_equity", Agent(market, action).info.equity)
      /\ Grown("always_long_equity", Long(market).info.equity)
      /\ Grown("always_short_equity", Short(market).info.equity)
      /\ Grown("positions", Agent(market, action).info.position_during_bar)
      /\ Grown("step_swap_costs", Agent(market, action).info.swap_cost)
      /\ Grown("drawdowns", Agent(market, action).info.drawdown)
  BY <1>1, <1>2 DEF Lists
<1>4. StepsDone' = StepsDone + 1
  BY TurnCounts
<1>5. \A f \in Lists : trace'[f] \in Seq(Int) /\ Len(trace'[f]) = StepsDone + 1
  BY <1>3 DEF Grown, Lists
<1>6. ListsInv'
  BY <1>4, <1>5 DEF ListsInv
<1> QED
  BY <1>3, <1>6

\* The agent's books after a turn.
LEMMA AgentTurns ==
    ASSUME Terms, BarsInv, ListsInv, AgentInv, NEW bar, IsNext(bar), NEW action, NEW target \in Positions,
           PositionTargets(Environment.position_side)[action + 1] = target
    PROVE  LET market == WithBar(bar)
               a == Agent(market, action)
               after == a.environment
               p == Append(trace.positions, target)
           IN  /\ a.info.position_during_bar = target
               /\ a.info.swap_cost \in Nat
               /\ Sum(trace.step_swap_costs) \in Int
               /\ Book(after, Sum(trace.step_swap_costs) + a.info.swap_cost)
               /\ Holds(after, market, p, Now + 1, Now + 1) /\ AllCharged(after, market, p, Now + 1)
               /\ a.info.equity \in Int /\ a.info.equity = Equity(after, market[Now + 1].close)
               /\ after.equity_peak = Max({agent.equity_peak, a.info.equity})
               /\ a.info.drawdown = Max({0, after.equity_peak - a.info.equity})
<1> DEFINE market == WithBar(bar)
           p == Append(trace.positions, target)
           spent == Sum(trace.step_swap_costs)
           n == Now
<1>1. /\ n \in Int /\ LocalObservation <= n
      /\ \A k \in LocalObservation .. n : market[k] = frame[k]
      /\ \A k \in LocalObservation .. n + 1 :
             market[k].t \in Int /\ market[k].close \in Nat \ {0}
      /\ market[n].t <= market[n + 1].t
      /\ {market[n + 1].open, market[n + 1].close} \subseteq Nat \ {0}
  BY MarketGrows
<1>2. /\ StepsDone \in Nat /\ n = LocalObservation + StepsDone /\ LocalObservation \in Int
      /\ agent.current_index = n
  BY DEF BarsInv, Now
<1>3. /\ trace.positions \in Seq(Int) /\ Len(trace.positions) = StepsDone
      /\ trace.step_swap_costs \in Seq(Int) /\ Len(trace.step_swap_costs) = StepsDone
  BY DEF ListsInv, Lists
<1>4. spent \in Int
  <2>1. trace.step_swap_costs \in [1 .. StepsDone -> Int]
    BY <1>2, <1>3
  <2> QED
    BY <1>2, <2>1, SumIsWhole
<1>5. p[StepsDone + 1] = target /\ \A k \in 1 .. StepsDone : p[k] = trace.positions[k]
  <2>1. target \in Int
    BY DEF Positions
  <2> QED
    BY <1>3, <2>1, NumbersGrow
<1>6. /\ Book(agent, spent)
      /\ Holds(agent, frame, trace.positions, n, n)
      /\ AllCharged(agent, frame, trace.positions, n)
  BY DEF AgentInv
<1> HIDE DEF market, p, spent, n
<1>7. n - LocalObservation = StepsDone /\ (n + 1) - LocalObservation = StepsDone + 1
  BY <1>2
<1>8. Holds(agent, market, p, n, n)
  BY <1>1, <1>2, <1>5, <1>6, <1>7, HoldsStay
<1>9. AllCharged(agent, market, p, n + 1)
  BY <1>1, <1>2, <1>5, <1>6, <1>7, ChargesStay
<1>10. p[(n + 1) - LocalObservation] = PositionTargets(Environment.position_side)[action + 1]
  BY <1>5, <1>7
<1>11. LET a == StepCore(agent, Environment, market, LocalRows, action)
           after == a.environment
       IN  /\ a.info.position_during_bar
                = PositionTargets(Environment.position_side)[action + 1]
           /\ a.info.swap_cost \in Nat
           /\ Book(after, spent + a.info.swap_cost)
           /\ Holds(after, market, p, n + 1, n + 1) /\ AllCharged(after, market, p, n + 1)
           /\ a.info.equity \in Int /\ a.info.equity = Equity(after, market[n + 1].close)
           /\ after.equity_peak = Max({agent.equity_peak, a.info.equity})
           /\ a.info.drawdown = Max({0, after.equity_peak - a.info.equity})
  BY <1>1, <1>2, <1>4, <1>6, <1>8, <1>9, <1>10, AgentSteps
<1> QED
  BY <1>4, <1>11 DEF market, p, spent, n, Agent

\* The benchmarks after a turn: one trade each, at one price, for one fee.
LEMMA BenchmarksTurn ==
    ASSUME request \in Requests, Terms, BarsInv, BenchmarksInv, NEW bar, IsNext(bar),
           row.lookback_rows \in Int, row.steps_expected \in Int,
           StepsDone < row.steps_expected
    PROVE  LET market == WithBar(bar)
               l == Long(market)
               s == Short(market)
           IN  /\ l.info.equity \in Int /\ s.info.equity \in Int
               /\ StepsDone + 1 < row.steps_expected =>
                    /\ Opened(l.environment, 1) /\ Opened(s.environment, -1)
                    /\ l.environment.entry_price = s.environment.entry_price
               /\ Len(Scores!Opens(l.environment.trade_events)) = 1
               /\ Len(s.environment.trade_events) = Len(l.environment.trade_events)
               /\ NoSwaps => l.info.equity + s.info.equity
                               = - 2 * Environment.fee * Len(l.environment.trade_events)
<1> DEFINE market == WithBar(bar)
           n == Now
           rows == LocalRows
           cl == [Environment EXCEPT !.position_side = "long_only"]
           cs == [Environment EXCEPT !.position_side = "short_only"]
           ends == n + 1 >= rows - 1 /\ Environment.forceClose
           entryL == IF always_long.position = 0 THEN market[n + 1].open ELSE always_long.entry_price
           entryS == IF always_short.position = 0 THEN market[n + 1].open ELSE always_short.entry_price
           l == StepCore(always_long, cl, market, rows, 1)
           s == StepCore(always_short, cs, market, rows, 1)
           close == market[n + 1].close
           fee == Environment.fee
<1>1. /\ n \in Int /\ LocalObservation <= n
      /\ \A k \in LocalObservation .. n + 1 : market[k].t \in Int
      /\ market[n].t <= market[n + 1].t
      /\ {market[n + 1].open, market[n + 1].close} \subseteq Nat \ {0}
  BY MarketGrows
<1>2. /\ LocalObservation \in Int /\ StepsDone \in Nat /\ n = LocalObservation + StepsDone
      /\ DOMAIN always_long = AgentFields /\ always_long.current_index = n
      /\ DOMAIN always_short = AgentFields /\ always_short.current_index = n
  BY DEF BarsInv, Now
<1>3. /\ cl.position_side = "long_only" /\ SameTerms(cl)
      /\ cs.position_side = "short_only" /\ SameTerms(cs)
  BY SideTerms
<1>4. /\ Untraded(always_long) \/ Opened(always_long, 1)
      /\ Untraded(always_short) \/ Opened(always_short, -1)
      /\ entryL = entryS
  <2>1. CASE StepsDone = 0
    <3>1. /\ always_long = ResetState(LocalObservation)
          /\ always_short = ResetState(LocalObservation)
      BY <2>1 DEF BenchmarksInv
    <3>2. Untraded(always_long) /\ Untraded(always_short)
      BY <1>2, <3>1 DEF Untraded, ResetState
    <3> QED
      BY <3>2 DEF Untraded
  <2>2. CASE StepsDone # 0
    <3>1. StepsDone \in 1 .. row.steps_expected - 1
      BY <1>2, <2>2
    <3>2. /\ Opened(always_long, 1) /\ Opened(always_short, -1)
          /\ always_long.entry_price = always_short.entry_price
      BY <3>1 DEF BenchmarksInv
    <3> HIDE DEF market
    <3> QED
      BY <3>2 DEF Opened
  <2> QED
    BY <2>1, <2>2
<1>5. n \in LocalObservation .. n + 1 /\ n + 1 \in LocalObservation .. n + 1
  BY <1>1, <1>2
<1> HIDE DEF market, n, rows, cl, cs
<1>6. /\ l.info.equity \in Int
      /\ ~ ends => Opened(l.environment, 1) /\ l.environment.entry_price = entryL
      /\ Len(Scores!Opens(l.environment.trade_events)) = 1
      /\ Len(l.environment.trade_events) = IF ends THEN 2 ELSE 1
      /\ NoSwaps => l.info.equity = ReturnOf(1, entryL, close)
                                      - fee * Len(l.environment.trade_events)
  <2>1. 1 \in {-1, 1} /\ PositionTargets(cl.position_side)[2] = 1
    BY <1>3, SidesOfBenchmarks
  <2> QED
    BY <1>1, <1>2, <1>3, <1>4, <1>5, <2>1, BenchmarkSteps
<1>7. /\ s.info.equity \in Int
      /\ ~ ends => Opened(s.environment, -1) /\ s.environment.entry_price = entryS
      /\ Len(Scores!Opens(s.environment.trade_events)) = 1
      /\ Len(s.environment.trade_events) = IF ends THEN 2 ELSE 1
      /\ NoSwaps => s.info.equity = ReturnOf(-1, entryS, close)
                                      - fee * Len(s.environment.trade_events)
  <2>1. -1 \in {-1, 1} /\ PositionTargets(cs.position_side)[2] = -1
    BY <1>3, SidesOfBenchmarks
  <2> QED
    BY <1>1, <1>2, <1>3, <1>4, <1>5, <2>1, BenchmarkSteps
<1>8. StepsDone + 1 < row.steps_expected => ~ ends
  <2>1. rows - 1 = LocalObservation + row.steps_expected
    <3>1. row.lookback_rows - 1 \in Int /\ rows = row.lookback_rows + row.steps_expected
      BY <1>2 DEF rows, LocalRows, LocalObservation
    <3> DEFINE back == row.lookback_rows
    <3>2. LocalObservation = back - 1 /\ rows = back + row.steps_expected
      BY <3>1 DEF LocalObservation
    <3>3. back \in Int
      OBVIOUS
    <3> HIDE DEF back
    <3> QED
      BY <3>2, <3>3
  <2> QED
    BY <1>2, <2>1
<1>9. NoSwaps => l.info.equity + s.info.equity = - 2 * fee * Len(l.environment.trade_events)
  <2> SUFFICES ASSUME NoSwaps
               PROVE  l.info.equity + s.info.equity = - 2 * fee * Len(l.environment.trade_events)
    OBVIOUS
  <2> DEFINE gross == ReturnOf(1, entryL, close)
             len == Len(l.environment.trade_events)
  <2>1. gross \in Int /\ ReturnOf(-1, entryS, close) = - gross
    <3>1. entryL \in Nat \ {0} /\ close \in Nat
      <4>1. close \in Nat /\ market[n + 1].open \in Nat \ {0}
        BY <1>1
      <4> QED
        BY <1>4, <4>1 DEF Untraded, Opened
    <3> DEFINE q == (close * Unit) \div entryL
               entry == entryL
    <3>2. Unit \in Nat \ {0}
      BY DEF Terms
    <3>3. q \in Int
      <4> HIDE DEF entryL, close
      <4>1. close * Unit \in Int
        BY <3>1, <3>2
      <4> QED
        BY <3>1, <4>1, Division
    <3>4. ReturnOf(1, entryL, close) = 1 * (q - Unit) /\ ReturnOf(-1, entryL, close) = (-1) * (q - Unit)
      BY DEF ReturnOf
    <3>5. ReturnOf(-1, entryS, close) = ReturnOf(-1, entryL, close)
      BY <1>4
    <3> HIDE DEF q, entryL, entryS, close
    <3> QED
      BY <3>2, <3>3, <3>4, <3>5
  <2>2. len = (IF ends THEN 2 ELSE 1) /\ Len(s.environment.trade_events) = len /\ fee \in Int
    BY <1>6, <1>7 DEF Terms
  <2>3. l.info.equity = gross - fee * len /\ s.info.equity = (- gross) - fee * len
    BY <1>6, <1>7, <2>1, <2>2
  <2> HIDE DEF gross, len, l, s, ends, fee
  <2>4. len = 1 \/ len = 2
    BY <2>2
  <2> QED
    BY <2>1, <2>2, <2>3, <2>4 DEF len
<1> HIDE DEF l, s, ends, entryL, entryS, fee, close
<1>10. StepsDone + 1 < row.steps_expected =>
         /\ Opened(l.environment, 1) /\ Opened(s.environment, -1)
         /\ l.environment.entry_price = s.environment.entry_price
  BY <1>4, <1>6, <1>7, <1>8
<1>11. Long(market) = l /\ Short(market) = s
  BY DEF Long, Short, l, s, cl, cs, rows
<1> QED
  BY <1>6, <1>7, <1>9, <1>10, <1>11 DEF market, fee

\* The peak of the curve s of n values, and the fall below it, once x follows.
Follows(n, s, t, x) ==
    /\ Max({Peak(s, n), x}) = Peak(t, n + 1)
    /\ Max({0, Peak(t, n + 1) - x}) = Peak(t, n + 1) - x
    /\ Peak(t, n + 1) - x \in Int
    /\ \A k \in 1 .. n : Peak(t, k) = Peak(s, k)

\* The peak and the drawdowns after a turn.
LEMMA PeaksTurn ==
    ASSUME NEW n \in Nat, NEW s, NEW t, \A k \in 1 .. n : s[k] \in Int /\ t[k] = s[k],
           NEW x \in Int, t[n + 1] = x
    PROVE  Follows(n, s, t, x)
<1>1. /\ Peak(t, n + 1) = Max({Peak(s, n), x})
      /\ \A k \in 1 .. n : Peak(t, k) = Peak(s, k)
  BY PeakGrows
<1> DEFINE p == Peak(t, n + 1)
<1>2. p \in Int /\ x <= p
  <2>1. n + 1 \in Nat /\ n + 1 \in 1 .. n + 1
    OBVIOUS
  <2>2. \A i \in 1 .. n + 1 : t[i] \in Int
    <3>1. \A i \in 1 .. n + 1 : i \in 1 .. n \/ i = n + 1
      OBVIOUS
    <3> QED
      BY <3>1
  <2> QED
    BY <2>1, <2>2, PeakIs
<1> HIDE DEF p
<1>3. Max({0, p - x}) = p - x
  <2>1. {0, p - x} \in SUBSET Int /\ p - x \in {0, p - x} /\ \A y \in {0, p - x} : y <= p - x
    BY <1>2
  <2> QED
    BY <2>1, MaxIs
<1>4. p - x \in Int
  BY <1>2
<1> QED
  BY <1>1, <1>3, <1>4, Zenon DEF p, Follows

\* A turn keeps the books.
LEMMA TurnKeepsBooks ==
    ASSUME request \in Requests, Terms, Books, NEW bar, IsNext(bar), NEW action,
           PositionTargets(Environment.position_side)[action + 1] \in Positions,
           row.lookback_rows \in Int, row.steps_expected \in Int,
           StepsDone < row.steps_expected, Turn(WithBar(bar), action)
    PROVE  Books'
<1> DEFINE market == WithBar(bar)
           target == PositionTargets(Environment.position_side)[action + 1]
           a == Agent(market, action)
           l == Long(market)
           s == Short(market)
           n == StepsDone
           p == Append(trace.positions, target)
<1>1. BarsInv /\ ListsInv /\ AgentInv /\ PeaksInv /\ BenchmarksInv
  BY DEF Books
<1>2. /\ Environment' = Environment /\ LocalObservation' = LocalObservation /\ row' = row
      /\ n \in Nat /\ StepsDone' = n + 1 /\ Now' = Now + 1
  BY <1>1, TurnCounts
<1>3. /\ frame' = market
      /\ agent' = a.environment /\ always_long' = l.environment
      /\ always_short' = s.environment
      /\ trace' = Recorded(a, l, s)
      /\ UNCHANGED <<request, row>>
  BY DEF Turn
<1>4. BarsInv'
  BY <1>1, TurnKeepsBars
<1>5. /\ a.info.position_during_bar = target /\ target \in Int
      /\ a.info.swap_cost \in Nat
      /\ Sum(trace.step_swap_costs) \in Int
      /\ Book(a.environment, Sum(trace.step_swap_costs) + a.info.swap_cost)
      /\ Holds(a.environment, market, p, Now + 1, Now + 1)
      /\ AllCharged(a.environment, market, p, Now + 1)
      /\ a.info.equity \in Int
      /\ a.info.equity = Equity(a.environment, market[Now + 1].close)
      /\ a.environment.equity_peak = Max({agent.equity_peak, a.info.equity})
      /\ a.info.drawdown = Max({0, a.environment.equity_peak - a.info.equity})
  <2>1. target \in Positions /\ target \in Int
    BY DEF Positions
  <2> HIDE DEF target
  <2>2. PositionTargets(Environment.position_side)[action + 1] = target
    BY DEF target
  <2> QED
    BY <1>1, <2>1, <2>2, AgentTurns
<1>6. /\ l.info.equity \in Int /\ s.info.equity \in Int
      /\ n + 1 < row.steps_expected =>
           /\ Opened(l.environment, 1) /\ Opened(s.environment, -1)
           /\ l.environment.entry_price = s.environment.entry_price
      /\ Len(Scores!Opens(l.environment.trade_events)) = 1
      /\ NoSwaps => l.info.equity + s.info.equity
                      = - 2 * Environment.fee * Len(l.environment.trade_events)
  BY <1>1, BenchmarksTurn
<1> HIDE DEF market, a, l, s, target, n, p
<1>7. /\ trace.agent_equity \in Seq(Int) /\ Len(trace.agent_equity) = n
      /\ trace.step_swap_costs \in Seq(Int) /\ Len(trace.step_swap_costs) = n
      /\ \A k \in 1 .. n : trace.agent_equity[k] \in Int
  <2>1. /\ trace.agent_equity \in Seq(Int) /\ Len(trace.agent_equity) = n
        /\ trace.step_swap_costs \in Seq(Int) /\ Len(trace.step_swap_costs) = n
    BY <1>1 DEF ListsInv, Lists, n
  <2> QED
    BY <2>1
<1>8. a.info.drawdown \in Int
  <2> DEFINE eq == a.info.equity
             t == Append(trace.agent_equity, eq)
             after == a.environment.equity_peak
  <2>1. /\ t[n + 1] = eq
        /\ \A k \in 1 .. n : trace.agent_equity[k] \in Int /\ t[k] = trace.agent_equity[k]
    BY <1>5, <1>7, NumbersGrow
  <2>2. agent.equity_peak = Peak(trace.agent_equity, n)
    BY <1>1 DEF PeaksInv, n
  <2>3. after = Max({Peak(trace.agent_equity, n), eq}) /\ eq \in Int
    BY <1>5, <2>2
  <2> HIDE DEF t, eq, after
  <2>4. /\ Max({Peak(trace.agent_equity, n), eq}) = Peak(t, n + 1)
        /\ Max({0, Peak(t, n + 1) - eq}) = Peak(t, n + 1) - eq
        /\ Peak(t, n + 1) - eq \in Int
    <3>1. Follows(n, trace.agent_equity, t, eq)
      BY <1>2, <2>1, <2>3, PeaksTurn
    <3> QED
      BY <3>1, Zenon DEF Follows
  <2>5. a.info.drawdown = Max({0, after - eq}) /\ after = Peak(t, n + 1)
    BY <1>5, <2>3, <2>4, Zenon DEF after, eq
  <2> QED
    BY <2>4, <2>5, Zenon
<1>9. /\ ListsInv'
       /\ Grown("agent_equity", a.info.equity)
       /\ Grown("always_long_equity", l.info.equity)
       /\ Grown("always_short_equity", s.info.equity)
       /\ Grown("positions", target)
       /\ Grown("step_swap_costs", a.info.swap_cost)
       /\ Grown("drawdowns", a.info.drawdown)
  <2>1. Turn(market, action)
    BY DEF market
  <2>2. {a.info.equity, a.info.position_during_bar, a.info.swap_cost, a.info.drawdown,
         l.info.equity, s.info.equity} \subseteq Int
    BY <1>5, <1>6, <1>8
  <2> QED
    BY <1>1, <1>5, <2>1, <2>2, ListsGrow DEF a, l, s
<1>10. AgentInv'
  <2>1. trace'.positions = p
    BY <1>3, <1>5 DEF Recorded, p
  <2>2. Sum(trace'.step_swap_costs) = Sum(trace.step_swap_costs) + a.info.swap_cost
    <3> DEFINE f == trace.step_swap_costs
               g == trace'.step_swap_costs
    <3>1. f \in [1 .. n -> Int]
      BY <1>2, <1>7
    <3>2. /\ g \in Seq(Int) /\ Len(g) = n + 1 /\ g[n + 1] = a.info.swap_cost
          /\ \A k \in 1 .. n : g[k] = f[k]
      BY <1>9 DEF Grown, n
    <3> HIDE DEF f, g
    <3>3. g \in [1 .. n + 1 -> Int]
      BY <3>2
    <3>4. Sum(g) = Sum(f) + g[n + 1]
      BY <1>2, <3>1, <3>2, <3>3, SumGrows
    <3> QED
      BY <3>2, <3>4 DEF f, g
  <2>3. Book(agent', Sum(trace'.step_swap_costs))
    BY <1>3, <1>5, <2>2
  <2>4. Holds(agent', frame', trace'.positions, Now', Now')
        /\ AllCharged(agent', frame', trace'.positions, Now')
    BY <1>2, <1>3, <1>5, <2>1
  <2>5. trace'.agent_equity[StepsDone'] = Equity(agent', frame'[Now'].close)
    BY <1>2, <1>3, <1>5, <1>9 DEF Grown, n
  <2> QED
    BY <1>2, <2>3, <2>4, <2>5 DEF AgentInv, Holds, AllCharged, Charged, Rollovers
<1>11. PeaksInv'
  <2> DEFINE f == trace.agent_equity
             g == trace'.agent_equity
             eq == a.info.equity
             after == a.environment.equity_peak
  <2>1. g[n + 1] = eq /\ \A k \in 1 .. n : f[k] \in Int /\ g[k] = f[k]
    BY <1>7, <1>9 DEF Grown, n
  <2>2. /\ agent.equity_peak = Peak(f, n)
        /\ \A k \in 1 .. n : trace.drawdowns[k] = Peak(f, k) - f[k]
    BY <1>1 DEF PeaksInv, n
  <2>3. /\ trace'.drawdowns[n + 1] = a.info.drawdown
        /\ \A k \in 1 .. n : trace'.drawdowns[k] = trace.drawdowns[k]
    BY <1>9 DEF Grown, n
  <2>4. eq \in Int
    BY <1>5
  <2>5. after = Max({Peak(f, n), eq})
    BY <1>5, <2>2
  <2> HIDE DEF f, g, eq, after
  <2>6. /\ Max({Peak(f, n), eq}) = Peak(g, n + 1)
        /\ Max({0, Peak(g, n + 1) - eq}) = Peak(g, n + 1) - eq
        /\ \A k \in 1 .. n : Peak(g, k) = Peak(f, k)
    <3>1. Follows(n, f, g, eq)
      BY <1>2, <2>1, <2>4, PeaksTurn
    <3> QED
      BY <3>1, Zenon DEF Follows
  <2>7. a.info.drawdown = Max({0, after - eq}) /\ after = Peak(g, n + 1)
        /\ agent'.equity_peak = after
    BY <1>3, <1>5, <2>6, <2>5, Zenon DEF after, eq
  <2>8. agent'.equity_peak = Peak(g, n + 1) /\ a.info.drawdown = Peak(g, n + 1) - eq
    BY <2>6, <2>7, Zenon
  <2>9. \A k \in 1 .. n + 1 : trace'.drawdowns[k] = Peak(g, k) - g[k]
    <3>1. \A k \in 1 .. n + 1 : k \in 1 .. n \/ k = n + 1
      BY <1>2
    <3> QED
      BY <2>1, <2>2, <2>3, <2>6, <2>8, <3>1
  <2> QED
    BY <1>2, <2>8, <2>9 DEF PeaksInv, g
<1>12. BenchmarksInv'
  <2>1. n + 1 > 0 /\ n + 1 # 0
    BY <1>2
  <2>2. n + 1 \in 1 .. row.steps_expected - 1 => n + 1 < row.steps_expected
    BY <1>2
  <2>3. /\ trace'.always_long_equity[n + 1] = l.info.equity
        /\ trace'.always_short_equity[n + 1] = s.info.equity
    BY <1>9 DEF Grown, n
  <2>4. BenchmarksAgree'
    BY <1>2, <1>3, <1>6, <2>3 DEF BenchmarksAgree, NoSwaps
  <2>5. n + 1 \in 1 .. row.steps_expected - 1 =>
          /\ Opened(always_long', 1) /\ Opened(always_short', -1)
          /\ always_long'.entry_price = always_short'.entry_price
    BY <1>3, <1>6, <2>2
  <2> QED
    BY <1>2, <2>1, <2>4, <2>5 DEF BenchmarksInv, Opened, NoSwaps
<1> QED
  BY <1>4, <1>9, <1>10, <1>11, <1>12 DEF Books

-----------------------------------------------------------------------------
(* The books say what Accounted says *)

\* The environment and the first observation are those of the request and the row.
LEMMA TermsStay ==
    ASSUME request' = request, row'.lookback_rows = row.lookback_rows
    PROVE  Environment' = Environment /\ LocalObservation' = LocalObservation
BY DEF Environment, LocalObservation

\* The closed trade ev has paid for its rollovers on the bars of f.
Owes(ev, f, p) ==
    LET rate == SwapRate(Environment, ev.position_before)
    IN  /\ ev.swap_cost = rate * Rollovers(f[ev.entry_index].t, f[ev.index].t)
        /\ ev.swap_events * rate = ev.swap_cost
        /\ ev.bars_held = Cardinality(
             {k \in ev.entry_index .. ev.index : p[k - LocalObservation] = ev.position_before})

\* What the completed row says of the whole evaluation.
RowBalances ==
    LET m == row.metrics
    IN  /\ m.agent_return = m.net_profit_return + m.open_position_return_at_end
             - (m.total_cost_return - TradeCost(ClosedTrades))
        /\ m.agent_max_drawdown = - Max({trace.drawdowns[k] : k \in 1 .. StepsDone})

\* What is not written stays accounted, as long as a completed row balances.
LEMMA AccountedStays ==
    ASSUME UNCHANGED <<request, frame, environments, trace>>,
           row'.lookback_rows = row.lookback_rows, phase' = "completed" => RowBalances', Accounted
    PROVE  Accounted'
<1>1. /\ Environment' = Environment /\ LocalObservation' = LocalObservation
      /\ UNCHANGED <<frame, agent, always_long, always_short, trace>>
  BY TermsStay DEF environments
<1>2. StepsDone' = StepsDone /\ TradeEvents' = TradeEvents /\ ClosedTrades' = ClosedTrades
  BY <1>1 DEF StepsDone, TradeEvents, ClosedTrades
<1>3. Reconciles'
  BY <1>1, <1>2 DEF Accounted, Reconciles, RowBalances
<1>4. ChargedExactly'
  <2>1. \A k \in DOMAIN ClosedTrades : Owes(ClosedTrades[k], frame, trace.positions)
    BY DEF Accounted, ChargedExactly, Owes, Rollovers, DueBetween
  <2>2. \A k \in DOMAIN ClosedTrades' : Owes(ClosedTrades'[k], frame', trace'.positions)
    BY <1>1, <1>2, <2>1
  <2>3. \A ev \in {ClosedTrades'[k] : k \in DOMAIN ClosedTrades'} : Owes(ev, frame', trace'.positions)
    BY <2>2
  <2> QED
    BY <1>1, <2>3 DEF ChargedExactly, Owes, Rollovers, DueBetween
<1> QED
  BY <1>3, <1>4 DEF Accounted

\* Nothing is owed before the first step.
LEMMA NothingOwed ==
    ASSUME trace = EmptyTrace, phase # "completed"
    PROVE  Accounted
<1>1. StepsDone = 0
  BY DEF StepsDone, EmptyTrace
<1>2. TradeEvents = <<>> /\ DOMAIN ClosedTrades = {}
  BY <1>1, NoTotals DEF TradeEvents, ClosedTrades
<1>3. Reconciles
  <2>1. ~ (StepsDone > 0) /\ phase # "completed"
    BY <1>1
  <2> QED
    BY <2>1, Zenon DEF Reconciles
<1>4. ChargedExactly
  BY <1>2 DEF ChargedExactly
<1> QED
  BY <1>3, <1>4 DEF Accounted

\* Every closed trade has been charged exactly.
LEMMA BooksCharge ==
    ASSUME Terms, BarsInv, AgentInv
    PROVE  ChargedExactly
<1>1. CASE StepsDone = 0
  <2>1. DOMAIN ClosedTrades = {}
    BY <1>1, NoTotals DEF TradeEvents, ClosedTrades
  <2> QED
    BY <2>1 DEF ChargedExactly
<1>2. CASE StepsDone # 0
  <2>1. ClosedTrades = Scores!Closes(agent.trade_events)
    BY <1>2 DEF TradeEvents, ClosedTrades
  <2>2. \A k \in DOMAIN ClosedTrades : Charged(ClosedTrades[k], frame, trace.positions, Now)
    BY <2>1 DEF AgentInv, AllCharged
  <2> QED
    BY <2>2 DEF ChargedExactly, Charged, Rollovers, DueBetween
<1> QED
  BY <1>1, <1>2

\* The amount of the open position, as the equity counts it.
OpenAmount ==
    IF agent.position = 0 THEN 0
    ELSE UnrealizedReturn(agent, frame[agent.current_index].close)
         - agent.entry_fee_paid - agent.position_swap_cost

\* The equity is made of the closed trades and the open position.
LEMMA EquityBalances ==
    ASSUME Terms, BarsInv, AgentInv, StepsDone > 0
    PROVE  /\ trace.agent_equity[StepsDone] = NetOf(agent.trade_events) + OpenAmount
           /\ OpenAmount = UnrealizedReturn(agent, frame[agent.current_index].close)
                             - (agent.entry_fee_paid + agent.position_swap_cost)
           /\ {NetOf(agent.trade_events), OpenAmount, agent.entry_fee_paid,
               agent.position_swap_cost,
               UnrealizedReturn(agent, frame[agent.current_index].close)} \subseteq Int
<1>1. agent.current_index = Now /\ frame[Now].close \in Nat \ {0}
  <2>1. agent.current_index = Now /\ Now \in DOMAIN frame
    BY DEF BarsInv, Now
  <2> QED
    BY <2>1 DEF BarsInv
<1>2. /\ trace.agent_equity[StepsDone]
           = agent.realized_return + UnrealizedReturn(agent, frame[Now].close)
      /\ NetOf(agent.trade_events)
           = agent.realized_return + agent.entry_fee_paid + agent.position_swap_cost
      /\ {agent.realized_return, agent.entry_fee_paid, agent.position_swap_cost} \subseteq Int
      /\ agent.position \in Positions
      /\ agent.position = 0 => agent.entry_fee_paid = 0 /\ agent.position_swap_cost = 0
  BY DEF AgentInv, Book, Equity
<1>3. UnrealizedReturn(agent, frame[Now].close) \in Int
  <2>1. agent.position # 0 => agent.entry_price \in Nat \ {0}
    BY DEF AgentInv, Holds
  <2> QED
    BY <1>1, <1>2, <2>1, ReturnIsWhole DEF Terms, UnrealizedReturn
<1>4. agent.position = 0 => UnrealizedReturn(agent, frame[Now].close) = 0
  BY DEF UnrealizedReturn
<1> DEFINE unrealized == UnrealizedReturn(agent, frame[Now].close)
           paid == agent.entry_fee_paid + agent.position_swap_cost
<1>5. OpenAmount = IF agent.position = 0 THEN 0
                   ELSE unrealized - agent.entry_fee_paid - agent.position_swap_cost
  BY <1>1 DEF OpenAmount
<1>6. /\ unrealized \in Int /\ paid \in Int
      /\ agent.position = 0 => unrealized = 0 /\ paid = 0
      /\ unrealized - agent.entry_fee_paid - agent.position_swap_cost = unrealized - paid
  BY <1>2, <1>3, <1>4
<1>7. OpenAmount = unrealized - paid /\ OpenAmount \in Int
  <2> HIDE DEF unrealized, paid
  <2> QED
    BY <1>5, <1>6
<1>8. /\ trace.agent_equity[StepsDone] = agent.realized_return + unrealized
      /\ NetOf(agent.trade_events) = agent.realized_return + paid
  BY <1>2
<1>9. /\ trace.agent_equity[StepsDone] = NetOf(agent.trade_events) + OpenAmount
      /\ NetOf(agent.trade_events) \in Int
  <2> HIDE DEF unrealized, paid
  <2> QED
    BY <1>2, <1>6, <1>7, <1>8
<1> QED
  BY <1>1, <1>2, <1>3, <1>7, <1>9

\* The books balance while the runner steps.
LEMMA BooksAreAccounted ==
    ASSUME Terms, Books, phase # "completed"
    PROVE  Accounted
<1>1. ChargedExactly
  BY BooksCharge DEF Books
<1>2. ASSUME StepsDone > 0
      PROVE  trace.agent_equity[StepsDone]
               = NetReturn(ClosedTrades) + OpenAmount
  <2>1. ClosedTrades = Scores!Closes(agent.trade_events)
    BY <1>2 DEF TradeEvents, ClosedTrades, Books, BarsInv
  <2>2. NetReturn(ClosedTrades) = NetOf(agent.trade_events)
    BY <2>1, SumOfNets DEF NetOf
  <2> QED
    BY <1>2, <2>2, EquityBalances DEF Books
<1>3. StepsDone > 0 => BenchmarksAgree
  BY DEF Books, BenchmarksInv
<1>4. Reconciles
  BY <1>2, <1>3 DEF Reconciles, OpenAmount, BenchmarksAgree, NoSwaps
<1> QED
  BY <1>1, <1>4 DEF Accounted

-----------------------------------------------------------------------------
(* The completed row *)

\* The columns of the metrics that Accounted is about.
LEMMA MetricsAre ==
    ASSUME NEW a
    PROVE  LET m == Scores!Metrics(a)
           IN  /\ m.agent_return = Scores!Last(a.agent_equity)
               /\ m.agent_max_drawdown = Scores!MaxDrawdown(a.agent_equity)
               /\ m.open_position_return_at_end = a.open_position_return_at_end
               /\ m.total_cost_return
                    = Scores!Total(LAMBDA ev : IF ev.event = "OPEN" THEN ev.fee ELSE ev.close_fee,
                                   a.trade_events)
                      + Scores!Total(Scores!Itself, a.step_swap_costs)
               /\ m.net_profit_return
                    = Scores!Total(LAMBDA ev : ev.net_return, Scores!Closes(a.trade_events))
<1>1. /\ "net_profit_return" \in DOMAIN Scores!TradeMetrics(a)
      /\ Scores!TradeMetrics(a).net_profit_return
           = Scores!Total(LAMBDA ev : ev.net_return, Scores!Closes(a.trade_events))
  BY DEF Scores!TradeMetrics
<1>2. \A x \in {"agent_return", "agent_max_drawdown", "total_cost_return",
                "open_position_return_at_end"} : x \notin DOMAIN Scores!TradeMetrics(a)
  BY DEF Scores!TradeMetrics
<1>3. /\ \A x \in {"agent_return", "agent_max_drawdown", "open_position_return_at_end"} :
             x \notin DOMAIN Scores!CostMetrics(a)
      /\ "total_cost_return" \in DOMAIN Scores!CostMetrics(a)
      /\ Scores!CostMetrics(a).total_cost_return
           = Scores!Total(LAMBDA ev : IF ev.event = "OPEN" THEN ev.fee ELSE ev.close_fee,
                          a.trade_events)
             + Scores!Total(Scores!Itself, a.step_swap_costs)
  BY DEF Scores!CostMetrics
<1>4. \A x \in {"agent_return", "agent_max_drawdown", "open_position_return_at_end"} :
          x \notin DOMAIN Scores!StreakMetrics(a)
  BY DEF Scores!StreakMetrics
<1>5. /\ {"agent_return", "agent_max_drawdown"} \subseteq DOMAIN Scores!CurveMetrics(a)
      /\ "open_position_return_at_end" \notin DOMAIN Scores!CurveMetrics(a)
      /\ Scores!CurveMetrics(a).agent_return = Scores!Last(a.agent_equity)
      /\ Scores!CurveMetrics(a).agent_max_drawdown = Scores!MaxDrawdown(a.agent_equity)
  BY DEF Scores!CurveMetrics
<1> QED
  BY <1>1, <1>2, <1>3, <1>4, <1>5 DEF Scores!Metrics, Scores!Joined

\* The sums of the metrics are those of the books.
LEMMA SumsOfMetrics ==
    ASSUME NEW s
    PROVE  /\ Scores!Total(LAMBDA ev : IF ev.event = "OPEN" THEN ev.fee ELSE ev.close_fee, s)
                = FeeOf(s)
           /\ Scores!Total(Scores!Itself, s) = Sum([k \in DOMAIN s |-> s[k]])
           /\ TradeCost(s) = Sum(Costs(s))
<1>1. Scores!Total(LAMBDA ev : IF ev.event = "OPEN" THEN ev.fee ELSE ev.close_fee, s) = FeeOf(s)
  BY DEF FeeOf, Fees, EventFee, Sum, SumOver, Scores!Total, MapThenSumSet, MapThenFoldSet,
     Scores!MapThenSumSet, Scores!MapThenFoldSet
<1>2. Scores!Total(Scores!Itself, s) = Sum([k \in DOMAIN s |-> s[k]])
  BY DEF Sum, SumOver, Scores!Itself, Scores!Total, MapThenSumSet, MapThenFoldSet,
     Scores!MapThenSumSet, Scores!MapThenFoldSet
<1>3. TradeCost(s) = Sum(Costs(s))
  BY DEF TradeCost, Costs, Cost, Sum, SumOver, MapThenSumSet, MapThenFoldSet
<1> QED
  BY <1>1, <1>2, <1>3

\* The metrics compare as this module does.
LEMMA SameExtremes == ASSUME NEW S PROVE Scores!Max(S) = Max(S) /\ Scores!Min(S) = Min(S)
BY DEF Scores!Max, Max, Scores!Min, Min

\* An element that exceeds no other is the least.
LEMMA MinIs ==
    ASSUME NEW S \in SUBSET Int, NEW m \in S, \A y \in S : m <= y
    PROVE  Min(S) = m
<1>1. \A x \in S : (\A y \in S : x <= y) => x = m
  <2> TAKE x \in S
  <2> SUFFICES ASSUME \A y \in S : x <= y PROVE x = m
    OBVIOUS
  <2>1. x \in Int /\ m \in Int /\ x <= m /\ m <= x
    OBVIOUS
  <2> QED
    BY <2>1
<1> QED
  BY <1>1 DEF Min

\* What a curve has fallen below its peak at the step k.
Fall(s, k) == Peak(s, k) - s[k]

\* The deepest of the falls at the steps of a curve is the drawdown of the metrics.
LEMMA DrawdownIs ==
    ASSUME NEW s \in Seq(Int), s # <<>>
    PROVE  Scores!MaxDrawdown(s) = - Max({Fall(s, k) : k \in 1 .. Len(s)})
<1> DEFINE n == Len(s)
           curve == <<0>> \o s
           falls == {Fall(s, k) : k \in 1 .. n}
           deepest == Max(falls)
           steps == {curve[j] - Max({curve[i] : i \in 1 .. j}) : j \in DOMAIN curve}
<1>1. n \in Nat \ {0} /\ \A k \in 1 .. n : s[k] \in Int
  OBVIOUS
<1>2. /\ DOMAIN curve = 1 .. n + 1 /\ curve[1] = 0
      /\ \A k \in 1 .. n : curve[k + 1] = s[k]
  OBVIOUS
<1>3. \A k \in 1 .. n : Fall(s, k) \in Nat /\ Peak(s, k) \in Int
  <2> TAKE k \in 1 .. n
  <2>1. k \in Nat /\ \A i \in 1 .. k : s[i] \in Int
    BY <1>1
  <2>2. Peak(s, k) \in Int /\ s[k] <= Peak(s, k) /\ s[k] \in Int
    <3>1. k \in 1 .. k
      OBVIOUS
    <3> QED
      BY <2>1, <3>1, PeakIs
  <2> QED
    BY <2>2 DEF Fall
<1>4. deepest \in falls /\ \A y \in falls : y <= deepest
  <2>1. IsFiniteSet(falls)
    <3> DEFINE f == [k \in 1 .. n |-> Fall(s, k)]
    <3>1. f \in Surjection(1 .. n, falls)
      BY DEF Surjection
    <3>2. IsFiniteSet(1 .. n)
      BY <1>1, FS_Interval
    <3> QED
      BY <3>1, <3>2, FS_Surjection
  <2>2. falls \in SUBSET Int /\ falls # {}
    <3>1. 1 \in 1 .. n
      BY <1>1
    <3> QED
      BY <1>3, <3>1
  <2> HIDE DEF falls
  <2> QED
    BY <2>1, <2>2, GreatestNumber
<1>5. PICK d \in 1 .. n : deepest = Fall(s, d)
  BY <1>4
<1> HIDE DEF curve, deepest, n
<1>6. ASSUME NEW j \in 1 .. n + 1
      PROVE  Max({curve[i] : i \in 1 .. j}) = Peak(s, j - 1)
  <2> DEFINE seen == {curve[i] : i \in 1 .. j}
             S == {s[i] : i \in 1 .. j - 1}
  <2>1. \A i \in 1 .. j : curve[i] \in {0} \cup S
    <3> TAKE i \in 1 .. j
    <3>1. CASE i = 1
      BY <1>2, <3>1
    <3>2. CASE i # 1
      <4>1. i - 1 \in 1 .. j - 1 /\ i - 1 \in 1 .. n /\ (i - 1) + 1 = i
        BY <1>1, <3>2
      <4>2. curve[i] = s[i - 1]
        BY <1>2, <4>1
      <4> QED
        BY <4>1, <4>2
    <3> QED
      BY <3>1, <3>2
  <2>2. \A i \in 1 .. j - 1 : s[i] \in seen
    <3> TAKE i \in 1 .. j - 1
    <3>1. i + 1 \in 1 .. j /\ i \in 1 .. n
      BY <1>1
    <3>2. curve[i + 1] = s[i]
      BY <1>2, <3>1
    <3> QED
      BY <3>1, <3>2
  <2>3. 0 \in seen
    <3>1. 1 \in 1 .. j
      BY <1>1
    <3> QED
      BY <1>2, <3>1
  <2>4. seen \subseteq {0} \cup S
    BY <2>1
  <2>5. {0} \cup S \subseteq seen
    <3>1. S \subseteq seen
      BY <2>2
    <3> HIDE DEF S, seen
    <3> QED
      BY <2>3, <3>1
  <2>6. seen = {0} \cup S
    <3> HIDE DEF S, seen
    <3> QED
      BY <2>4, <2>5
  <2> QED
    BY <2>6, Zenon DEF Peak
<1>7. \A j \in 1 .. n + 1 :
          curve[j] - Max({curve[i] : i \in 1 .. j}) = IF j = 1 THEN 0 ELSE - Fall(s, j - 1)
  <2> TAKE j \in 1 .. n + 1
  <2>1. CASE j = 1
    <3>1. Peak(s, 0) = 0
      <4>1. {0} \cup {s[i] : i \in 1 .. 0} = {0}
        OBVIOUS
      <4>2. {0} \in SUBSET Int /\ 0 \in {0} /\ \A y \in {0} : y <= 0
        OBVIOUS
      <4>3. Max({0}) = 0
        BY <4>2, MaxIs
      <4> QED
        BY <4>1, <4>3, Zenon DEF Peak
    <3>2. j - 1 = 0
      BY <2>1
    <3>3. curve[j] - Peak(s, j - 1) = 0
      BY <1>2, <2>1, <3>1, <3>2
    <3> QED
      BY <1>6, <2>1, <3>3, Zenon
  <2>2. CASE j # 1
    <3>1. j - 1 \in 1 .. n /\ (j - 1) + 1 = j
      BY <1>1, <2>2
    <3>2. curve[j] = s[j - 1] /\ s[j - 1] \in Int /\ Peak(s, j - 1) \in Int
      BY <1>1, <1>2, <1>3, <3>1
    <3>3. curve[j] - Peak(s, j - 1) = - Fall(s, j - 1)
      BY <3>2 DEF Fall
    <3> QED
      BY <1>6, <2>2, <3>3, Zenon
  <2> QED
    BY <2>1, <2>2
<1>8. Min(steps) = - deepest
  <2>1. \A j \in 1 .. n + 1 : j # 1 => j - 1 \in 1 .. n
    BY <1>1
  <2>2. \A k \in 1 .. n : Fall(s, k) \in Nat /\ Fall(s, k) <= deepest
    BY <1>3, <1>4
  <2>3. deepest \in Nat
    BY <1>5, <2>2
  <2>4. \A y \in steps : y \in Int /\ - deepest <= y
    <3> TAKE y \in steps
    <3>1. PICK j \in 1 .. n + 1 : y = IF j = 1 THEN 0 ELSE - Fall(s, j - 1)
      BY <1>2, <1>7
    <3> QED
      BY <2>1, <2>2, <2>3, <3>1
  <2>5. - deepest \in steps
    <3>1. d + 1 \in 1 .. n + 1 /\ d + 1 # 1 /\ (d + 1) - 1 = d
      BY <1>1
    <3>2. curve[d + 1] - Max({curve[i] : i \in 1 .. d + 1}) = - Fall(s, d)
      BY <1>7, <3>1
    <3> QED
      BY <1>2, <1>5, <3>1, <3>2
  <2> HIDE DEF steps
  <2>6. steps \in SUBSET Int
    BY <2>4
  <2> QED
    BY <2>4, <2>5, <2>6, MinIs
<1>9. Scores!MaxDrawdown(s) = Min(steps)
  BY SameExtremes DEF Scores!MaxDrawdown, curve
<1> QED
  BY <1>8, <1>9 DEF deepest, n

\* The completed row balances when the books do.
LEMMA RowIsBalanced ==
    ASSUME Terms, Books, StepsDone > 0, "metrics" \in DOMAIN row,
           UNCHANGED <<request, frame, environments, trace>>, row' = CompletedRow
    PROVE  RowBalances'
<1> DEFINE m == Scores!Metrics(Collected)
           s == trace.agent_equity
           events == agent.trade_events
           unrealized == UnrealizedReturn(agent, frame[agent.current_index].close)
<1>1. row'.metrics = m
  BY DEF CompletedRow
<1>2. /\ Collected.agent_equity = s /\ Collected.trade_events = events
      /\ Collected.step_swap_costs = trace.step_swap_costs
      /\ Collected.open_position_return_at_end = unrealized
  BY DEF Collected
<1>3. /\ s \in Seq(Int) /\ Len(s) = StepsDone /\ s # <<>>
      /\ trace.step_swap_costs \in Seq(Int)
  BY DEF Books, ListsInv, Lists
<1>4. /\ m.agent_return = s[StepsDone]
      /\ m.agent_max_drawdown = - Max({Fall(s, k) : k \in 1 .. StepsDone})
      /\ m.open_position_return_at_end = unrealized
      /\ m.net_profit_return = NetOf(events)
  <2>1. Scores!Last(s) = s[StepsDone]
    BY <1>3 DEF Scores!Last
  <2>2. Scores!MaxDrawdown(s) = - Max({Fall(s, k) : k \in 1 .. StepsDone})
    BY <1>3, DrawdownIs
  <2>3. Scores!Total(LAMBDA ev : ev.net_return, Scores!Closes(events)) = NetOf(events)
    BY SumOfNets DEF NetOf
  <2> HIDE DEF s, events, unrealized
  <2> QED
    BY <1>2, <2>1, <2>2, <2>3, MetricsAre
<1>5. m.total_cost_return = FeeOf(events) + Sum(trace.step_swap_costs)
  <2>1. Scores!Total(Scores!Itself, trace.step_swap_costs) = Sum(trace.step_swap_costs)
    <3>1. [k \in DOMAIN trace.step_swap_costs |-> trace.step_swap_costs[k]] = trace.step_swap_costs
      BY <1>3
    <3> QED
      BY <3>1, SumsOfMetrics
  <2>2. m.total_cost_return
          = Scores!Total(LAMBDA ev : IF ev.event = "OPEN" THEN ev.fee ELSE ev.close_fee, events)
            + Scores!Total(Scores!Itself, trace.step_swap_costs)
    BY <1>2, MetricsAre
  <2>3. Scores!Total(LAMBDA ev : IF ev.event = "OPEN" THEN ev.fee ELSE ev.close_fee, events)
          = FeeOf(events)
    BY SumsOfMetrics
  <2> HIDE DEF m, events
  <2> QED
    BY <2>1, <2>2, <2>3
<1>6. ClosedTrades = Scores!Closes(events) /\ TradeCost(ClosedTrades) = CostOf(events)
  <2>1. ClosedTrades = Scores!Closes(events)
    BY DEF TradeEvents, ClosedTrades
  <2> QED
    BY <2>1, SumsOfMetrics DEF CostOf
<1>7. /\ s[StepsDone] = NetOf(events) + OpenAmount
      /\ OpenAmount = unrealized - (agent.entry_fee_paid + agent.position_swap_cost)
      /\ {NetOf(events), OpenAmount, agent.entry_fee_paid, agent.position_swap_cost,
          unrealized} \subseteq Int
  BY EquityBalances DEF Books
<1>8. /\ FeeOf(events) + Sum(trace.step_swap_costs)
           = CostOf(events) + agent.entry_fee_paid + agent.position_swap_cost
      /\ CostOf(events) \in Int
  <2>1. Book(agent, Sum(trace.step_swap_costs)) /\ Logged(events)
    BY DEF Books, AgentInv, Book
  <2>2. Priced([event |-> "OPEN", fee |-> 0])
    BY DEF Priced
  <2>3. CostOf(events) \in Int
    BY <2>1, <2>2, TotalsGrow
  <2> QED
    BY <2>1, <2>3 DEF Book
<1> DEFINE M == row'.metrics
<1> HIDE DEF m, unrealized
<1>9. M.agent_return = M.net_profit_return + M.open_position_return_at_end
        - (M.total_cost_return - TradeCost(ClosedTrades))
  <2> DEFINE net == NetOf(events)
             cost == CostOf(events)
             fee == agent.entry_fee_paid
             psc == agent.position_swap_cost
  <2>1. m.agent_return = net + (unrealized - (fee + psc))
    BY <1>4, <1>7
  <2>2. m.total_cost_return = cost + fee + psc
    BY <1>5, <1>8
  <2>3. {net, cost, fee, psc, unrealized} \subseteq Int
    BY <1>7, <1>8
  <2>4. m.net_profit_return = net /\ m.open_position_return_at_end = unrealized
    BY <1>4
  <2> HIDE DEF net, cost, fee, psc
  <2>5. m.agent_return = m.net_profit_return + m.open_position_return_at_end
          - (m.total_cost_return - cost)
    BY <2>1, <2>2, <2>3, <2>4
  <2> QED
    BY <1>1, <1>6, <2>5 DEF cost
<1>10. M.agent_max_drawdown = - Max({trace.drawdowns[k] : k \in 1 .. StepsDone})
  <2>1. \A k \in 1 .. StepsDone : trace.drawdowns[k] = Fall(s, k)
    BY DEF Books, PeaksInv, Fall
  <2>2. {trace.drawdowns[k] : k \in 1 .. StepsDone} = {Fall(s, k) : k \in 1 .. StepsDone}
    BY <2>1
  <2> QED
    BY <1>1, <1>4, <2>2
<1>11. /\ StepsDone' = StepsDone /\ ClosedTrades' = ClosedTrades /\ trace' = trace
  BY DEF StepsDone, TradeEvents, ClosedTrades, environments
<1> QED
  BY <1>9, <1>10, <1>11 DEF RowBalances

-----------------------------------------------------------------------------
(* The invariant of the books through an evaluation *)

\* A new environment has done nothing.
LEMMA NewEnvironment ==
    ASSUME NEW i
    PROVE  LET e == ResetState(i)
           IN  /\ DOMAIN e = AgentFields /\ e.current_index = i
               /\ e.position = 0 /\ e.realized_return = 0 /\ e.entry_fee_paid = 0
               /\ e.position_swap_cost = 0 /\ e.position_swap_events = 0
               /\ e.equity_peak = 0 /\ e.trade_events = <<>>
BY DEF ResetState, AgentFields

\* The books of a new evaluation are empty.
LEMMA BooksBegin ==
    ASSUME request \in Requests, Terms, row.steps_expected \in Nat \ {0},
           trace = EmptyTrace, Prepare
    PROVE  Books'
<1> DEFINE first == LocalObservation
           new == ResetState(first)
<1>1. /\ Environment' = Environment /\ LocalObservation' = first /\ first \in Int
      /\ row' = row
  BY TermsStay DEF Prepare, inputs, Terms
<1>2. /\ frame' = [i \in {first} |-> [t |-> request.first, open |-> 1, close |-> 1]]
      /\ agent' = new /\ always_long' = new /\ always_short' = new /\ trace' = EmptyTrace
  BY DEF Prepare
<1>3. /\ \A f \in Lists : trace'[f] = <<>>
      /\ StepsDone' = 0 /\ Now' = first
  <2>1. \A f \in Lists : trace'[f] = <<>>
    BY <1>2 DEF EmptyTrace, Lists
  <2>2. StepsDone' = 0
    BY <2>1 DEF StepsDone, Lists
  <2>3. Now' = first
    BY <1>1, <2>2 DEF Now
  <2> QED
    BY <2>1, <2>2, <2>3
<1>4. /\ DOMAIN new = AgentFields /\ new.current_index = first
      /\ new.position = 0 /\ new.realized_return = 0 /\ new.entry_fee_paid = 0
      /\ new.position_swap_cost = 0 /\ new.position_swap_events = 0
      /\ new.equity_peak = 0 /\ new.trade_events = <<>>
  BY NewEnvironment
<1> HIDE DEF new, first
<1>5. BarsInv'
  <2>1. DOMAIN frame' = first .. first
    BY <1>1, <1>2
  <2>2. request.first \in Int
    BY MarketAssumption
  <2>3. \A i \in DOMAIN frame' : frame'[i].t \in Int /\ frame'[i].close \in Nat \ {0}
    BY <1>2, <2>2
  <2> QED
    BY <1>1, <1>2, <1>3, <1>4, <2>1, <2>3 DEF BarsInv
<1>6. ListsInv'
  <2>1. <<>> \in Seq(Int) /\ Len(<<>>) = 0
    OBVIOUS
  <2>2. \A f \in Lists : trace'[f] \in Seq(Int) /\ Len(trace'[f]) = 0
    BY <1>3, <2>1
  <2> QED
    BY <1>3, <2>2 DEF ListsInv
<1>7. AgentInv'
  <2>1. Book(new, 0)
    BY <1>4, NoTotals DEF Book, Positions
  <2>2. Sum(trace'.step_swap_costs) = 0
    BY <1>3, NoSum DEF Lists
  <2>3. Book(agent', Sum(trace'.step_swap_costs))
    BY <1>2, <2>1, <2>2
  <2>4. Book(agent, Sum(trace.step_swap_costs))'
    BY <2>3
  <2>5. Holds(agent, frame, trace.positions, Now, Now)'
    BY <1>2, <1>4 DEF Holds
  <2>6. AllCharged(agent, frame, trace.positions, Now)'
    <3>1. DOMAIN Scores!Closes(agent'.trade_events) = {}
      BY <1>2, <1>4, NoTotals
    <3> QED
      BY <3>1 DEF AllCharged
  <2> QED
    BY <1>3, <2>4, <2>5, <2>6 DEF AgentInv
<1>8. PeaksInv'
  <2>1. Peak(trace'.agent_equity, 0) = 0
    <3>1. \A i \in 1 .. 0 : trace'.agent_equity[i] \in Int
      OBVIOUS
    <3>2. Peak(trace'.agent_equity, 0) \in {0} \cup {trace'.agent_equity[i] : i \in 1 .. 0}
      BY <3>1, PeakIs
    <3> QED
      BY <3>2
  <2> QED
    BY <1>2, <1>3, <1>4, <2>1 DEF PeaksInv
<1>9. BenchmarksInv'
  BY <1>1, <1>2, <1>3 DEF BenchmarksInv, new
<1> QED
  BY <1>5, <1>6, <1>7, <1>8, <1>9 DEF Books

\* Nothing is owed while nothing is recorded.
LEMMA NothingOwedNext ==
    ASSUME trace' = EmptyTrace, phase' # "completed"
    PROVE  Accounted'
<1>1. StepsDone' = 0
  BY DEF StepsDone, EmptyTrace
<1>2. TradeEvents' = <<>>
  BY <1>1 DEF TradeEvents
<1>3. DOMAIN ClosedTrades' = {}
  BY <1>2, NoTotals DEF ClosedTrades
<1>4. Reconciles'
  <2>1. ~ (StepsDone' > 0) /\ phase' # "completed"
    BY <1>1
  <2> QED
    BY <2>1, Zenon DEF Reconciles
<1>5. ChargedExactly'
  BY <1>3 DEF ChargedExactly
<1> QED
  BY <1>4, <1>5 DEF Accounted

\* What no step of the evaluation touches stays as it is.
LEMMA BooksStay ==
    ASSUME UNCHANGED <<phase, request, row, frame, environments, trace>>, BooksInv
    PROVE  BooksInv'
<1>1. /\ Environment' = Environment /\ LocalObservation' = LocalObservation
      /\ UNCHANGED <<phase, request, row, frame, agent, always_long, always_short, trace>>
  BY TermsStay DEF environments
<1>2. StepsDone' = StepsDone /\ Now' = Now
  BY <1>1 DEF StepsDone, Now
<1>3. CASE phase = "stepping"
  <2>1. BarsInv' <=> BarsInv
    BY <1>1, <1>2 DEF BarsInv
  <2>2. ListsInv' <=> ListsInv
    BY <1>1, <1>2 DEF ListsInv
  <2>3. AgentInv' <=> AgentInv
    BY <1>1, <1>2 DEF AgentInv, Holds, AllCharged, Charged, Rollovers
  <2>4. PeaksInv' <=> PeaksInv
    BY <1>1, <1>2 DEF PeaksInv
  <2>5. BenchmarksInv' <=> BenchmarksInv
    BY <1>1, <1>2 DEF BenchmarksInv, BenchmarksAgree, NoSwaps, Opened
  <2> QED
    BY <1>1, <1>3, <2>1, <2>2, <2>3, <2>4, <2>5 DEF BooksInv, Books
<1>4. CASE phase # "stepping"
  <2>1. Accounted
    BY <1>4 DEF BooksInv
  <2>2. phase' = "completed" => RowBalances'
    <3>1. ClosedTrades' = ClosedTrades
      BY <1>1, <1>2 DEF TradeEvents, ClosedTrades
    <3>2. phase = "completed" => RowBalances
      BY <2>1 DEF Accounted, Reconciles, RowBalances
    <3> QED
      BY <1>1, <1>2, <3>1, <3>2 DEF RowBalances
  <2>3. Accounted'
    BY <1>1, <2>1, <2>2, AccountedStays
  <2> QED
    BY <1>1, <1>4, <2>3 DEF BooksInv
<1> QED
  BY <1>3, <1>4

\* What an evaluation writes of its row, but for the completed one.
LEMMA RowFields ==
    ASSUME DOMAIN row = DOMAIN PendingRow
    PROVE  /\ Failed.lookback_rows = row.lookback_rows
           /\ CompletedRow.lookback_rows = row.lookback_rows
           /\ "metrics" \in DOMAIN row
           /\ LET r == [row EXCEPT !.status = "running", !.started = TRUE]
              IN  r.lookback_rows = row.lookback_rows /\ r.policy_mode = row.policy_mode
<1>1. {"metrics", "lookback_rows", "policy_mode", "status", "started"} \subseteq DOMAIN row
  BY DEF PendingRow
<1> QED
  BY <1>1 DEF Failed, CompletedRow

\* An evaluation keeps its books.
LEMMA EvaluationKeepsBooks ==
    ASSUME SInv, BooksInv, Evaluate
    PROVE  BooksInv'
<1>1. DiskInv /\ DataInv /\ RunInv /\ RowInv /\ TrainingInv /\ ScoringInv /\ TraceInv
  BY DEF SInv, TInv, IInv, ScoringInv
<1>2. ASSUME Scoring
      PROVE  /\ request \in Requests /\ Terms
             /\ Environment.position_side \in Sides
             /\ row.lookback_rows \in Int /\ row.steps_expected \in Nat \ {0}
             /\ Failed.lookback_rows = row.lookback_rows
             /\ CompletedRow.lookback_rows = row.lookback_rows
             /\ "metrics" \in DOMAIN row
             /\ LET r == [row EXCEPT !.status = "running", !.started = TRUE]
                IN  r.lookback_rows = row.lookback_rows /\ r.policy_mode = row.policy_mode
  <2>1. DOMAIN row = DOMAIN PendingRow
    BY <1>1, <1>2 DEF ScoringInv
  <2> QED
    BY <1>1, <1>2, <2>1, Parameters, RowFields
<1>3. ASSUME phase \in {"pending", "running", "stepping"} PROVE Accounted /\ Scoring
  <2>1. Scoring
    BY <1>3 DEF Scoring
  <2> QED
    BY <1>2, <1>3, <2>1, BooksAreAccounted DEF BooksInv
<1>4. ASSUME Fail, phase \in {"pending", "running", "stepping"} PROVE BooksInv'
  <2>1. /\ phase' = "failed" /\ row' = Failed
        /\ UNCHANGED <<request, frame, environments, trace>>
    BY <1>4 DEF Fail, inputs
  <2>2. Accounted'
    BY <1>2, <1>3, <1>4, <2>1, AccountedStays
  <2> QED
    BY <2>1, <2>2 DEF BooksInv
<1>5. CASE Unreadable \/ Refuse
  <2>1. /\ phase = "requested" /\ phase' \in {"unreadable", "refused"}
        /\ UNCHANGED <<request, row, frame, environments, trace>>
    BY <1>5 DEF Unreadable, Refuse, Answered, inputs, evaluationVars
  <2>2. Accounted
    BY <2>1 DEF BooksInv
  <2>3. Accounted'
    BY <2>1, <2>2, AccountedStays
  <2> QED
    BY <2>1, <2>3 DEF BooksInv
<1>6. CASE CreatePending
  <2>1. /\ phase = "requested" /\ phase' = "pending" /\ row' = PendingRow /\ trace' = trace
        /\ RowAllowed(PendingRow)
    BY <1>6 DEF CreatePending, Answered, RequestAccepted
  <2>2. row'.policy_mode \in PolicyModes
    BY <2>1 DEF RowAllowed, PolicyFields, PolicyModes
  <2>3. trace' = EmptyTrace
    BY <1>1, <2>1 DEF TraceInv
  <2>4. Accounted'
    BY <2>1, <2>3, NothingOwedNext
  <2> QED
    BY <2>1, <2>2, <2>4 DEF BooksInv
<1>7. CASE MarkRunning
  <2>1. /\ phase = "pending" /\ phase' = "running"
        /\ row' = [row EXCEPT !.status = "running", !.started = TRUE]
        /\ UNCHANGED <<request, frame, environments, trace>>
    BY <1>7 DEF MarkRunning, inputs
  <2>2. Accounted'
    BY <1>2, <1>3, <2>1, AccountedStays
  <2>3. row'.policy_mode \in PolicyModes
    BY <1>2, <1>3, <2>1 DEF BooksInv
  <2> QED
    BY <2>1, <2>2, <2>3 DEF BooksInv
<1>8. CASE Prepare
  <2>1. phase = "running" /\ phase' = "stepping" /\ row' = row
    BY <1>8 DEF Prepare
  <2>2. trace = EmptyTrace
    BY <1>1, <2>1 DEF TraceInv
  <2>3. Books'
    BY <1>2, <1>3, <1>8, <2>1, <2>2, BooksBegin
  <2> QED
    BY <2>1, <2>3 DEF BooksInv
<1>9. CASE PrepareFails
  BY <1>4, <1>9 DEF PrepareFails
<1>10. CASE Step
  <2>1. /\ phase = "stepping" /\ StepsDone < row.steps_expected
        /\ Books /\ row.policy_mode \in PolicyModes
    BY <1>10 DEF Step, BooksInv
  <2>2. PICK bar, action :
             /\ IsNext(bar)
             /\ PositionTargets(Environment.position_side)[action + 1] \in Positions
             /\ StepOn(bar, action)
    BY <1>2, <1>3, <1>10, <2>1, StepTakes DEF Books
  <2>3. ASSUME Turn(WithBar(bar), action) PROVE BooksInv'
    <3>1. Books'
      BY <1>2, <1>3, <2>1, <2>2, <2>3, TurnKeepsBooks
    <3>2. phase' = phase /\ row' = row
      BY <2>3 DEF Turn
    <3> QED
      BY <2>1, <3>1, <3>2 DEF BooksInv
  <2> QED
    BY <1>4, <2>1, <2>2, <2>3, StepIsTurn
<1>11. CASE Finish
  <2>1. phase = "stepping" /\ StepsDone = row.steps_expected
    BY <1>11 DEF Finish
  <2>2. CASE Fail
    BY <1>4, <2>1, <2>2
  <2>3. CASE /\ phase' = "completed" /\ row' = CompletedRow
             /\ UNCHANGED <<inputs, frame, environments, trace>>
    <3>1. UNCHANGED <<request, frame, environments, trace>>
      BY <2>3 DEF inputs
    <3>2. Books /\ StepsDone > 0
      BY <1>2, <1>3, <2>1 DEF BooksInv
    <3>3. RowBalances'
      BY <1>2, <1>3, <2>1, <2>3, <3>1, <3>2, RowIsBalanced
    <3>4. Accounted'
      BY <1>2, <1>3, <2>1, <2>3, <3>1, <3>3, AccountedStays
    <3> QED
      BY <2>3, <3>4 DEF BooksInv
  <2> QED
    BY <1>11, <2>2, <2>3 DEF Finish
<1> QED
  BY <1>5, <1>6, <1>7, <1>8, <1>9, <1>10, <1>11 DEF Evaluate

\* The other steps leave the evaluation alone.
LEMMA BooksKept == SInv /\ BooksInv /\ [Next]_vars => BooksInv'
<1> SUFFICES ASSUME SInv, BooksInv, [Next]_vars PROVE BooksInv'
  OBVIOUS
<1>1. CASE Evaluate
  BY <1>1, EvaluationKeepsBooks
<1>2. ASSUME UNCHANGED <<phase, request, evaluationVars>> PROVE BooksInv'
  BY <1>2, BooksStay DEF evaluationVars
<1>3. ASSUME UNCHANGED <<request, evaluationVars>>,
             phase \notin {"stepping"},
             phase' \notin {"pending", "running", "stepping", "completed"}
      PROVE  BooksInv'
  <2>1. Accounted /\ UNCHANGED <<request, row, frame, environments, trace>>
    BY <1>3 DEF BooksInv, evaluationVars
  <2>2. Accounted'
    BY <1>3, <2>1, AccountedStays
  <2> QED
    BY <1>3, <2>2 DEF BooksInv
<1>4. CASE Train /\ UNCHANGED evaluationVars
  BY <1>3, <1>4, TrainFrame
<1>5. CASE /\ UNCHANGED evaluationVars
           /\ Configure \/ Read \/ ReadingFails \/ KeepEntry \/ KeepFrame \/ Resolve
  <2>1. request' = request
    BY <1>5, RequestStays
  <2>2. \/ phase' = phase
        \/ /\ phase \notin {"stepping"}
           /\ phase' \notin {"pending", "running", "stepping", "completed"}
    BY <1>5 DEF Configure, Read, ReadingFails, KeepEntry, KeepFrame, Resolve
  <2> QED
    BY <1>2, <1>3, <1>5, <2>1, <2>2
<1>6. CASE ((Import \/ CleanSource) /\ UNCHANGED evaluationVars) \/ UNCHANGED vars
  <2>1. UNCHANGED <<phase, request, evaluationVars>>
    BY <1>6 DEF Import, CleanSource, Data!ImportFile, Data!ImportManifest, vars, startVars
  <2> QED
    BY <1>2, <2>1
<1> QED
  BY <1>1, <1>4, <1>5, <1>6, Steps

\* The books are in order before anything is evaluated.
LEMMA BooksInit == Init => BooksInv
<1>1. Init => trace = EmptyTrace /\ phase \notin {"pending", "running", "stepping", "completed"}
  BY DEF Init, StartInit
<1> QED
  BY <1>1, NothingOwed DEF BooksInv

\* While the runner steps, the agent's own account (what it realized, the fee
\* and the rollovers its open position has paid), the list of its trades, the
\* benchmarks and the lists of the loop agree at every bar.
THEOREM BooksInvariant == Spec => [](SInv /\ BooksInv)
<1>1. Init => SInv /\ BooksInv
  BY InvariantInit, TrainingInit, ScoringInit, BooksInit DEF SInv, TInv
<1>2. SInv /\ BooksInv /\ [Next]_vars => (SInv /\ BooksInv)'
  BY InvariantKept, TrainingKept, ScoringKept, BooksKept DEF SInv, TInv, IInv
<1> QED
  BY <1>1, <1>2, PTL DEF Spec

\* The books of an evaluation balance after every step and in the completed
\* row, and every closed trade has paid for exactly the rollovers it was held
\* across, whatever the market shows and the policy answers.
THEOREM BooksBalance == Spec => []Accounted
<1>1. SInv /\ BooksInv => Accounted
  <2> SUFFICES ASSUME SInv, BooksInv, phase = "stepping" PROVE Accounted
    BY DEF BooksInv
  <2>1. DiskInv /\ DataInv /\ RunInv /\ RowInv /\ TrainingInv /\ ScoringInv /\ Scoring
    BY DEF SInv, TInv, IInv, Scoring
  <2>2. Terms
    BY <2>1, Parameters
  <2> QED
    BY <2>2, BooksAreAccounted DEF BooksInv
<1> QED
  BY <1>1, BooksInvariant, PTL

-----------------------------------------------------------------------------
(* The columns of the metrics *)

\* The closed trades of a side, those that won, lost or broke even, and the
\* openings of a side.
Longs(s) == Scores!At(s, {k \in DOMAIN s : s[k].position_before = 1})
Shorts(s) == Scores!At(s, {k \in DOMAIN s : s[k].position_before = -1})
Wins(s) == Scores!At(s, {k \in DOMAIN s : s[k].net_return > 0})
Losers(s) == Scores!At(s, {k \in DOMAIN s : s[k].net_return < 0})
Evens(s) == Scores!At(s, {k \in DOMAIN s : s[k].net_return = 0})
OpensOf(s, side) ==
    LET opens == Scores!Opens(s)
    IN  Scores!At(opens, {k \in DOMAIN opens : opens[k].position_after = side})
\* How many of the trades won.
Won(s) == Scores!Cardinality({k \in DOMAIN s : s[k].net_return > 0})
\* How long each was held.
Held(s) == [k \in DOMAIN s |-> s[k].bars_held]

\* The mean of a list of trades, and its median, largest and smallest value.
Fraction(total, s) == IF s = <<>> THEN NoValue ELSE <<total, Len(s)>>

Place(f, n) ==
    CHOOSE x \in {f[k] : k \in DOMAIN f} :
        /\ Cardinality({k \in DOMAIN f : f[k] < x}) < n
        /\ n <= Cardinality({k \in DOMAIN f : f[k] <= x})

Middle(f, s) ==
    IF s = <<>> THEN NoValue
    ELSE <<Place(f, (Len(s) + 1) \div 2) + Place(f, (Len(s) + 2) \div 2), 2>>

Largest(f, s) == IF s = <<>> THEN NoValue ELSE Max({f[k] : k \in DOMAIN f})
Smallest(f, s) == IF s = <<>> THEN NoValue ELSE Min({f[k] : k \in DOMAIN f})

\* The means, the medians and the extremes of the returns of closed trades,
LEMMA OpsOnNets ==
    ASSUME NEW s
    PROVE  /\ Scores!MeanOrNone(LAMBDA ev : ev.net_return, s) = Fraction(Sum(Nets(s)), s)
           /\ Scores!MedianOrNone(LAMBDA ev : ev.net_return, s) = Middle(Nets(s), s)
           /\ Scores!LargestOrNone(LAMBDA ev : ev.net_return, s) = Largest(Nets(s), s)
           /\ Scores!SmallestOrNone(LAMBDA ev : ev.net_return, s) = Smallest(Nets(s), s)
<1>1. Scores!MeanOrNone(LAMBDA ev : ev.net_return, s) = Fraction(Sum(Nets(s)), s)
  BY SumOfNets DEF Scores!MeanOrNone, Fraction
<1>2. Scores!MedianOrNone(LAMBDA ev : ev.net_return, s) = Middle(Nets(s), s)
  <2> DEFINE f == Nets(s)
  <2>1. DOMAIN f = DOMAIN s /\ \A k \in DOMAIN s : f[k] = s[k].net_return
    BY DEF Nets
  <2> HIDE DEF f
  <2>2. {s[k].net_return : k \in DOMAIN s} = {f[k] : k \in DOMAIN f}
    BY <2>1
  <2>3. \A x : /\ {k \in DOMAIN s : s[k].net_return < x} = {k \in DOMAIN f : f[k] < x}
              /\ {k \in DOMAIN s : s[k].net_return <= x} = {k \in DOMAIN f : f[k] <= x}
    BY <2>1
  <2> DEFINE R(n) == CHOOSE x \in {s[k].net_return : k \in DOMAIN s} :
                        /\ Scores!Cardinality({k \in DOMAIN s : s[k].net_return < x}) < n
                        /\ n <= Scores!Cardinality({k \in DOMAIN s : s[k].net_return <= x})
  <2>4. \A n : R(n) = Place(f, n)
    BY <2>2, <2>3, SameCount, Zenon DEF Place
  <2>5. Scores!MedianOrNone(LAMBDA ev : ev.net_return, s)
          = IF s = <<>> THEN NoValue ELSE <<R((Len(s) + 1) \div 2) + R((Len(s) + 2) \div 2), 2>>
    BY DEF Scores!MedianOrNone, Scores!Ranked
  <2> HIDE DEF R
  <2> QED
    BY <2>4, <2>5, Zenon DEF Middle, f
<1>3. Scores!LargestOrNone(LAMBDA ev : ev.net_return, s) = Largest(Nets(s), s)
  BY SameExtremes DEF Scores!LargestOrNone, Largest, Nets
<1>4. Scores!SmallestOrNone(LAMBDA ev : ev.net_return, s) = Smallest(Nets(s), s)
  BY SameExtremes DEF Scores!SmallestOrNone, Smallest, Nets
<1> QED
  BY <1>1, <1>2, <1>3, <1>4

\* of the bars they were held,
LEMMA OpsOnHeld ==
    ASSUME NEW s
    PROVE  /\ Scores!MeanOrNone(LAMBDA ev : ev.bars_held, s) = Fraction(Sum(Held(s)), s)
           /\ Scores!MedianOrNone(LAMBDA ev : ev.bars_held, s) = Middle(Held(s), s)
           /\ Scores!LargestOrNone(LAMBDA ev : ev.bars_held, s) = Largest(Held(s), s)
           /\ Scores!SmallestOrNone(LAMBDA ev : ev.bars_held, s) = Smallest(Held(s), s)
<1>1. Scores!Total(LAMBDA ev : ev.bars_held, s) = Sum(Held(s))
  BY DEF Sum, SumOver, Held, Scores!Total, MapThenSumSet, MapThenFoldSet,
     Scores!MapThenSumSet, Scores!MapThenFoldSet
<1>2. Scores!MeanOrNone(LAMBDA ev : ev.bars_held, s) = Fraction(Sum(Held(s)), s)
  BY <1>1 DEF Scores!MeanOrNone, Fraction
<1>3. Scores!MedianOrNone(LAMBDA ev : ev.bars_held, s) = Middle(Held(s), s)
  <2> DEFINE f == Held(s)
  <2>1. DOMAIN f = DOMAIN s /\ \A k \in DOMAIN s : f[k] = s[k].bars_held
    BY DEF Held
  <2> HIDE DEF f
  <2>2. {s[k].bars_held : k \in DOMAIN s} = {f[k] : k \in DOMAIN f}
    BY <2>1
  <2>3. \A x : /\ {k \in DOMAIN s : s[k].bars_held < x} = {k \in DOMAIN f : f[k] < x}
              /\ {k \in DOMAIN s : s[k].bars_held <= x} = {k \in DOMAIN f : f[k] <= x}
    BY <2>1
  <2> DEFINE R(n) == CHOOSE x \in {s[k].bars_held : k \in DOMAIN s} :
                        /\ Scores!Cardinality({k \in DOMAIN s : s[k].bars_held < x}) < n
                        /\ n <= Scores!Cardinality({k \in DOMAIN s : s[k].bars_held <= x})
  <2>4. \A n : R(n) = Place(f, n)
    BY <2>2, <2>3, SameCount, Zenon DEF Place
  <2>5. Scores!MedianOrNone(LAMBDA ev : ev.bars_held, s)
          = IF s = <<>> THEN NoValue ELSE <<R((Len(s) + 1) \div 2) + R((Len(s) + 2) \div 2), 2>>
    BY DEF Scores!MedianOrNone, Scores!Ranked
  <2> HIDE DEF R
  <2> QED
    BY <2>4, <2>5, Zenon DEF Middle, f
<1>4. Scores!LargestOrNone(LAMBDA ev : ev.bars_held, s) = Largest(Held(s), s)
  BY SameExtremes DEF Scores!LargestOrNone, Largest, Held
<1>5. Scores!SmallestOrNone(LAMBDA ev : ev.bars_held, s) = Smallest(Held(s), s)
  BY SameExtremes DEF Scores!SmallestOrNone, Smallest, Held
<1> QED
  BY <1>2, <1>3, <1>4, <1>5

\* What each trade paid, and for how many rollovers.
PaidFees(s) == [k \in DOMAIN s |-> s[k].entry_fee + s[k].close_fee]
Swaps(s) == [k \in DOMAIN s |-> s[k].swap_cost]
SwapCounts(s) == [k \in DOMAIN s |-> s[k].swap_events]

\* and of what they cost.
LEMMA OpsOnCosts ==
    ASSUME NEW s
    PROVE  /\ Scores!MeanOrNone(LAMBDA ev : ev.entry_fee + ev.close_fee, s)
                = Fraction(Sum(PaidFees(s)), s)
           /\ Scores!MeanOrNone(LAMBDA ev : ev.swap_cost, s) = Fraction(Sum(Swaps(s)), s)
           /\ Scores!MeanOrNone(LAMBDA ev : ev.entry_fee + ev.close_fee + ev.swap_cost, s)
                = Fraction(Sum(Costs(s)), s)
           /\ Scores!Total(LAMBDA ev : ev.swap_cost, s) = Sum(Swaps(s))
           /\ Scores!Total(LAMBDA ev : ev.swap_events, s) = Sum(SwapCounts(s))
<1>1. Scores!Total(LAMBDA ev : ev.entry_fee + ev.close_fee, s) = Sum(PaidFees(s))
  BY DEF Sum, SumOver, PaidFees, Scores!Total, MapThenSumSet, MapThenFoldSet,
     Scores!MapThenSumSet, Scores!MapThenFoldSet
<1>2. Scores!Total(LAMBDA ev : ev.swap_cost, s) = Sum(Swaps(s))
  BY DEF Sum, SumOver, Swaps, Scores!Total, MapThenSumSet, MapThenFoldSet,
     Scores!MapThenSumSet, Scores!MapThenFoldSet
<1>3. Scores!Total(LAMBDA ev : ev.entry_fee + ev.close_fee + ev.swap_cost, s) = Sum(Costs(s))
  BY DEF Sum, SumOver, Costs, Cost, Scores!Total, MapThenSumSet, MapThenFoldSet,
     Scores!MapThenSumSet, Scores!MapThenFoldSet
<1>4. Scores!Total(LAMBDA ev : ev.swap_events, s) = Sum(SwapCounts(s))
  BY DEF Sum, SumOver, SwapCounts, Scores!Total, MapThenSumSet, MapThenFoldSet,
     Scores!MapThenSumSet, Scores!MapThenFoldSet
<1>5. Scores!MeanOrNone(LAMBDA ev : ev.entry_fee + ev.close_fee, s) = Fraction(Sum(PaidFees(s)), s)
  BY <1>1 DEF Scores!MeanOrNone, Fraction
<1>6. Scores!MeanOrNone(LAMBDA ev : ev.swap_cost, s) = Fraction(Sum(Swaps(s)), s)
  BY <1>2 DEF Scores!MeanOrNone, Fraction
<1>7. Scores!MeanOrNone(LAMBDA ev : ev.entry_fee + ev.close_fee + ev.swap_cost, s)
        = Fraction(Sum(Costs(s)), s)
  BY <1>3 DEF Scores!MeanOrNone, Fraction
<1> QED
  BY <1>2, <1>4, <1>5, <1>6, <1>7

\* The numbers of trades that the metrics report,
LEMMA TradeFields ==
    ASSUME NEW a
    PROVE  LET t == Scores!TradeMetrics(a)
               events == a.trade_events
               closes == Scores!Closes(events)
               steps == Len(a.agent_equity)
           IN  /\ t.trade_events_total = Len(events)
               /\ t.trade_event_rate = <<Len(events), steps>>
               /\ t.round_trips = Len(closes)
               /\ t.round_trip_rate = <<Len(closes), steps>>
               /\ t.winning_trades = Len(Wins(closes))
               /\ t.losing_trades = Len(Losers(closes))
               /\ t.breakeven_trades = Len(Evens(closes))
               /\ t.long_round_trips = Len(Longs(closes))
               /\ t.short_round_trips = Len(Shorts(closes))
               /\ t.open_long_count = Len(OpensOf(events, 1))
               /\ t.open_short_count = Len(OpensOf(events, -1))
               /\ t.close_long_count = Len(Longs(closes))
               /\ t.close_short_count = Len(Shorts(closes))
               /\ t.swap_events = Scores!Total(Scores!Itself, a.step_swap_events)
BY DEF Scores!TradeMetrics, Wins, Losers, Evens, Longs, Shorts, OpensOf, Scores!Kept

\* A share of the whole.
Rate(part, whole) == IF whole = 0 THEN NoValue ELSE <<part, whole>>

\* their rates and totals,
LEMMA TradeRates ==
    ASSUME NEW a
    PROVE  LET t == Scores!TradeMetrics(a)
               closes == Scores!Closes(a.trade_events)
               wins == Wins(closes)
               losses == Losers(closes)
               longs == Longs(closes)
               shorts == Shorts(closes)
           IN  /\ t.win_rate = Rate(Len(wins), Len(closes))
               /\ t.loss_rate = Rate(Len(losses), Len(closes))
               /\ t.breakeven_rate = Rate(Len(closes) - Len(wins) - Len(losses), Len(closes))
               /\ t.long_win_rate = Rate(Won(longs), Len(longs))
               /\ t.short_win_rate = Rate(Won(shorts), Len(shorts))
               /\ t.gross_profit_return = Sum(Nets(wins))
               /\ t.gross_loss_return = Sum(Nets(losses))
               /\ t.net_profit_return = Sum(Nets(closes))
               /\ t.profit_factor = Rate(Sum(Nets(wins)), -Sum(Nets(losses)))
               /\ t.payoff_ratio = IF wins = <<>> \/ losses = <<>> THEN NoValue
                    ELSE <<Sum(Nets(wins)) * Len(losses), -Sum(Nets(losses)) * Len(wins)>>
<1> DEFINE t == Scores!TradeMetrics(a)
           closes == Scores!Closes(a.trade_events)
           wins == Wins(closes)
           losses == Losers(closes)
           longs == Longs(closes)
           shorts == Shorts(closes)
<1>1. /\ t.win_rate = Rate(Len(wins), Len(closes))
      /\ t.loss_rate = Rate(Len(losses), Len(closes))
      /\ t.breakeven_rate = Rate(Len(closes) - Len(wins) - Len(losses), Len(closes))
  BY DEF Scores!TradeMetrics, Wins, Losers, Scores!Kept, Scores!RateOrNone, Rate
<1>2. /\ t.long_win_rate = Rate(Won(longs), Len(longs))
      /\ t.short_win_rate = Rate(Won(shorts), Len(shorts))
  BY DEF Scores!TradeMetrics, Longs, Shorts, Scores!Kept, Scores!RateOrNone, Rate, Won
<1>3. /\ t.gross_profit_return = Sum(Nets(wins))
      /\ t.gross_loss_return = Sum(Nets(losses))
      /\ t.net_profit_return = Sum(Nets(closes))
  BY SumOfNets DEF Scores!TradeMetrics, Wins, Losers, Scores!Kept
<1>4. t.profit_factor = Rate(Sum(Nets(wins)), -Sum(Nets(losses)))
  BY SumOfNets DEF Scores!TradeMetrics, Wins, Losers, Scores!Kept, Scores!RateOrNone, Rate
<1>5. t.payoff_ratio = IF wins = <<>> \/ losses = <<>> THEN NoValue
                    ELSE <<Sum(Nets(wins)) * Len(losses), -Sum(Nets(losses)) * Len(wins)>>
  BY SumOfNets DEF Scores!TradeMetrics, Wins, Losers, Scores!Kept, Scores!PayoffRatio
<1> QED
  BY <1>1, <1>2, <1>3, <1>4, <1>5

\* their means, medians and extremes,
LEMMA TradeMeans ==
    ASSUME NEW a
    PROVE  LET t == Scores!TradeMetrics(a)
               closes == Scores!Closes(a.trade_events)
               wins == Wins(closes)
               losses == Losers(closes)
               longs == Longs(closes)
               shorts == Shorts(closes)
           IN  /\ t.avg_trade_return = Fraction(Sum(Nets(closes)), closes)
               /\ t.avg_win_return = Fraction(Sum(Nets(wins)), wins)
               /\ t.avg_loss_return = Fraction(Sum(Nets(losses)), losses)
               /\ t.median_trade_return = Middle(Nets(closes), closes)
               /\ t.long_avg_trade_return = Fraction(Sum(Nets(longs)), longs)
               /\ t.short_avg_trade_return = Fraction(Sum(Nets(shorts)), shorts)
               /\ t.long_median_trade_return = Middle(Nets(longs), longs)
               /\ t.short_median_trade_return = Middle(Nets(shorts), shorts)
               /\ t.largest_win_return = Largest(Nets(wins), wins)
               /\ t.largest_loss_return = Smallest(Nets(losses), losses)
               /\ t.min_bars_held = Smallest(Held(closes), closes)
               /\ t.avg_bars_held = Fraction(Sum(Held(closes)), closes)
               /\ t.median_bars_held = Middle(Held(closes), closes)
               /\ t.max_bars_held = Largest(Held(closes), closes)
<1> DEFINE t == Scores!TradeMetrics(a)
           closes == Scores!Closes(a.trade_events)
           wins == Wins(closes)
           losses == Losers(closes)
           longs == Longs(closes)
           shorts == Shorts(closes)
<1>1. /\ t.avg_trade_return = Fraction(Sum(Nets(closes)), closes)
      /\ t.avg_win_return = Fraction(Sum(Nets(wins)), wins)
      /\ t.avg_loss_return = Fraction(Sum(Nets(losses)), losses)
      /\ t.long_avg_trade_return = Fraction(Sum(Nets(longs)), longs)
      /\ t.short_avg_trade_return = Fraction(Sum(Nets(shorts)), shorts)
  BY OpsOnNets DEF Scores!TradeMetrics, Wins, Losers, Longs, Shorts, Scores!Kept
<1>2. /\ t.median_trade_return = Middle(Nets(closes), closes)
      /\ t.long_median_trade_return = Middle(Nets(longs), longs)
      /\ t.short_median_trade_return = Middle(Nets(shorts), shorts)
  BY OpsOnNets DEF Scores!TradeMetrics, Longs, Shorts, Scores!Kept
<1>3. /\ t.largest_win_return = Largest(Nets(wins), wins)
      /\ t.largest_loss_return = Smallest(Nets(losses), losses)
  BY OpsOnNets DEF Scores!TradeMetrics, Wins, Losers, Scores!Kept
<1>4. /\ t.min_bars_held = Smallest(Held(closes), closes)
      /\ t.avg_bars_held = Fraction(Sum(Held(closes)), closes)
      /\ t.median_bars_held = Middle(Held(closes), closes)
      /\ t.max_bars_held = Largest(Held(closes), closes)
  BY OpsOnHeld DEF Scores!TradeMetrics
<1> QED
  BY <1>1, <1>2, <1>3, <1>4

\* The result of each trade.
Signs(s) == [k \in DOMAIN s |-> Scores!Sign(s[k].net_return)]

\* what they cost,
LEMMA CostFields ==
    ASSUME NEW a
    PROVE  LET t == Scores!CostMetrics(a)
               closes == Scores!Closes(a.trade_events)
               swap == Scores!Total(Scores!Itself, a.step_swap_costs)
           IN  /\ t.total_fee_return = FeeOf(a.trade_events)
               /\ t.total_swap_return = swap
               /\ t.total_cost_return = FeeOf(a.trade_events) + swap
               /\ t.avg_fee_per_trade_return = Fraction(Sum(PaidFees(closes)), closes)
               /\ t.avg_swap_per_trade_return = Fraction(Sum(Swaps(closes)), closes)
               /\ t.avg_cost_per_trade_return = Fraction(Sum(Costs(closes)), closes)
<1> DEFINE t == Scores!CostMetrics(a)
           closes == Scores!Closes(a.trade_events)
           swap == Scores!Total(Scores!Itself, a.step_swap_costs)
<1>1. /\ t.total_fee_return = FeeOf(a.trade_events)
      /\ t.total_swap_return = swap
      /\ t.total_cost_return = FeeOf(a.trade_events) + swap
  BY SumsOfMetrics DEF Scores!CostMetrics
<1>2. /\ t.avg_fee_per_trade_return = Fraction(Sum(PaidFees(closes)), closes)
      /\ t.avg_swap_per_trade_return = Fraction(Sum(Swaps(closes)), closes)
      /\ t.avg_cost_per_trade_return = Fraction(Sum(Costs(closes)), closes)
  BY OpsOnCosts DEF Scores!CostMetrics
<1> QED
  BY <1>1, <1>2

\* their streaks,
LEMMA StreakFields ==
    ASSUME NEW a
    PROVE  LET t == Scores!StreakMetrics(a)
               signs == Signs(Scores!Closes(a.trade_events))
           IN  /\ t.max_consecutive_wins = Scores!LongestStreak(signs, 1)
               /\ t.max_consecutive_losses = Scores!LongestStreak(signs, -1)
               /\ t.avg_win_streak = Scores!AverageStreak(signs, 1)
               /\ t.avg_loss_streak = Scores!AverageStreak(signs, -1)
               /\ t.current_streak_type = Scores!CurrentStreakType(signs)
               /\ t.current_streak = Scores!CurrentStreak(signs)
BY DEF Scores!StreakMetrics, Signs

\* and the curves and the exposure.
LEMMA CurveFields ==
    ASSUME NEW a
    PROVE  LET t == Scores!CurveMetrics(a)
               steps == Len(a.agent_equity)
               p == a.positions
           IN  /\ t.agent_return = Scores!Last(a.agent_equity)
               /\ t.always_long_return = Scores!Last(a.always_long_equity)
               /\ t.always_short_return = Scores!Last(a.always_short_equity)
               /\ t.agent_vs_always_long_return
                    = Scores!Last(a.agent_equity) - Scores!Last(a.always_long_equity)
               /\ t.balanced_score = Scores!Last(a.agent_equity) + Scores!MaxDrawdown(a.agent_equity)
               /\ t.agent_max_drawdown = Scores!MaxDrawdown(a.agent_equity)
               /\ t.always_long_max_drawdown = Scores!MaxDrawdown(a.always_long_equity)
               /\ t.always_short_max_drawdown = Scores!MaxDrawdown(a.always_short_equity)
               /\ t.drawdown_improvement
                    = Scores!MaxDrawdown(a.agent_equity) - Scores!MaxDrawdown(a.always_long_equity)
               /\ t.net_exposure = <<Scores!Total(Scores!Itself, p), steps>>
               /\ t.long_exposure = <<Cardinality({k \in 1 .. steps : p[k] = 1}), steps>>
               /\ t.short_exposure = <<Cardinality({k \in 1 .. steps : p[k] = -1}), steps>>
               /\ t.flat_exposure = <<Cardinality({k \in 1 .. steps : p[k] = 0}), steps>>
               /\ t.market_exposure = <<Cardinality({k \in 1 .. steps : p[k] # 0}), steps>>
BY SameCount DEF Scores!CurveMetrics

\* The columns, by the part of the metrics that computes them.
TradeNames ==
    {"trade_events_total", "trade_event_rate", "round_trips", "round_trip_rate", "winning_trades",
     "losing_trades", "breakeven_trades", "long_round_trips", "short_round_trips",
     "open_long_count", "open_short_count", "close_long_count", "close_short_count",
     "swap_events", "win_rate", "loss_rate", "breakeven_rate", "long_win_rate",
     "short_win_rate", "avg_trade_return", "avg_win_return", "avg_loss_return",
     "median_trade_return", "long_avg_trade_return", "short_avg_trade_return",
     "long_median_trade_return", "short_median_trade_return", "largest_win_return",
     "largest_loss_return", "gross_profit_return", "gross_loss_return", "net_profit_return",
     "profit_factor", "payoff_ratio", "min_bars_held", "avg_bars_held", "median_bars_held",
     "max_bars_held"}
CostNames ==
    {"total_fee_return", "total_swap_return", "total_cost_return", "avg_fee_per_trade_return",
     "avg_swap_per_trade_return", "avg_cost_per_trade_return"}
StreakNames ==
    {"max_consecutive_wins", "max_consecutive_losses", "avg_win_streak", "avg_loss_streak",
     "current_streak_type", "current_streak"}
RestNames == {"cumulative_shaped_reward", "open_position_return_at_end"}

\* The names in the four parts of the metrics
LEMMA NamesOfMetrics ==
    ASSUME NEW a
    PROVE  /\ DOMAIN Scores!TradeMetrics(a) = TradeNames
           /\ DOMAIN Scores!CostMetrics(a) = CostNames
           /\ DOMAIN Scores!StreakMetrics(a) = StreakNames
           /\ DOMAIN Scores!CurveMetrics(a) = ScoreColumns
<1>1. DOMAIN Scores!TradeMetrics(a) = TradeNames
  BY DEF Scores!TradeMetrics, TradeNames
<1>2. DOMAIN Scores!CostMetrics(a) = CostNames
  BY DEF Scores!CostMetrics, CostNames
<1>3. DOMAIN Scores!StreakMetrics(a) = StreakNames
  BY DEF Scores!StreakMetrics, StreakNames
<1>4. DOMAIN Scores!CurveMetrics(a) = ScoreColumns
  BY DEF Scores!CurveMetrics, ScoreColumns
<1> QED
  BY <1>1, <1>2, <1>3, <1>4

\* are those of the columns,
LEMMA NamesAreColumns ==
    UNION {ScoreColumns, TradeColumns, CostColumns, CountColumns, {"current_streak_type"}}
      = TradeNames \cup (CostNames \cup (StreakNames \cup (ScoreColumns \cup RestNames)))
<1>1. \A x : x \in TradeColumns \/ x \in CostColumns \/ x \in CountColumns
                 \/ x = "current_streak_type"
               => x \in TradeNames \/ x \in CostNames \/ x \in StreakNames \/ x \in RestNames
  BY DEF TradeColumns, CostColumns, CountColumns, TradeNames, CostNames, StreakNames, RestNames
<1>2. \A x : x \in TradeNames \/ x \in CostNames \/ x \in StreakNames \/ x \in RestNames
               => x \in TradeColumns \/ x \in CostColumns \/ x \in CountColumns
                    \/ x = "current_streak_type"
  BY DEF TradeColumns, CostColumns, CountColumns, TradeNames, CostNames, StreakNames, RestNames
<1> QED
  BY <1>1, <1>2

\* and no two parts have the same.
LEMMA NamesAreApart ==
    /\ \A x \in CostNames : x \notin TradeNames
    /\ \A x \in StreakNames : x \notin TradeNames /\ x \notin CostNames
    /\ \A x \in ScoreColumns : x \notin TradeNames /\ x \notin CostNames /\ x \notin StreakNames
    /\ \A x \in RestNames : /\ x \notin TradeNames /\ x \notin CostNames /\ x \notin StreakNames
                            /\ x \notin ScoreColumns
<1>1. \A x \in CostNames : x \notin TradeNames
  BY DEF TradeNames, CostNames
<1>2. \A x \in StreakNames : x \notin TradeNames /\ x \notin CostNames
  BY DEF TradeNames, CostNames, StreakNames
<1>3. \A x \in ScoreColumns : x \notin TradeNames /\ x \notin CostNames /\ x \notin StreakNames
  BY DEF TradeNames, CostNames, StreakNames, ScoreColumns
<1>4. \A x \in RestNames : /\ x \notin TradeNames /\ x \notin CostNames /\ x \notin StreakNames
                            /\ x \notin ScoreColumns
  BY DEF TradeNames, CostNames, StreakNames, ScoreColumns, RestNames
<1> QED
  BY <1>1, <1>2, <1>3, <1>4

\* The metrics are the fields of the groups together.
LEMMA GroupsOfMetrics ==
    ASSUME NEW a
    PROVE  LET m == Scores!Metrics(a)
           IN  /\ DOMAIN m = UNION {ScoreColumns, TradeColumns, CostColumns, CountColumns,
                                    {"current_streak_type"}}
               /\ \A x \in TradeNames : m[x] = Scores!TradeMetrics(a)[x]
               /\ \A x \in CostNames : m[x] = Scores!CostMetrics(a)[x]
               /\ \A x \in StreakNames : m[x] = Scores!StreakMetrics(a)[x]
               /\ \A x \in ScoreColumns : m[x] = Scores!CurveMetrics(a)[x]
               /\ m.cumulative_shaped_reward = Scores!Total(Scores!Itself, a.shaped_rewards)
               /\ m.open_position_return_at_end = a.open_position_return_at_end
<1> DEFINE rest == [cumulative_shaped_reward |-> Scores!Total(Scores!Itself, a.shaped_rewards),
                    open_position_return_at_end |-> a.open_position_return_at_end]
           t == Scores!TradeMetrics(a)
           c == Scores!CostMetrics(a)
           s == Scores!StreakMetrics(a)
           v == Scores!CurveMetrics(a)
           m == Scores!Metrics(a)
<1>1. DOMAIN t = TradeNames /\ DOMAIN c = CostNames /\ DOMAIN s = StreakNames
      /\ DOMAIN v = ScoreColumns
  BY NamesOfMetrics
<1>2. /\ DOMAIN rest = RestNames
      /\ rest.cumulative_shaped_reward = Scores!Total(Scores!Itself, a.shaped_rewards)
      /\ rest.open_position_return_at_end = a.open_position_return_at_end
  BY DEF RestNames
<1>3. m = Scores!Joined(t, Scores!Joined(c, Scores!Joined(s, Scores!Joined(v, rest))))
  BY DEF Scores!Metrics
<1> HIDE DEF t, c, s, v, rest, m
<1>4. /\ DOMAIN m = DOMAIN t \cup (DOMAIN c \cup (DOMAIN s \cup (DOMAIN v \cup DOMAIN rest)))
      /\ \A x \in DOMAIN m : m[x] = IF x \in DOMAIN t THEN t[x] ELSE IF x \in DOMAIN c THEN c[x]
             ELSE IF x \in DOMAIN s THEN s[x] ELSE IF x \in DOMAIN v THEN v[x] ELSE rest[x]
  BY <1>3 DEF Scores!Joined
<1>5. DOMAIN m = UNION {ScoreColumns, TradeColumns, CostColumns, CountColumns,
                        {"current_streak_type"}}
  BY <1>1, <1>2, <1>4, NamesAreColumns, Zenon
<1>6. /\ \A x \in TradeNames : m[x] = t[x]
      /\ \A x \in CostNames : m[x] = c[x]
      /\ \A x \in StreakNames : m[x] = s[x]
      /\ \A x \in ScoreColumns : m[x] = v[x]
      /\ \A x \in RestNames : m[x] = rest[x]
  BY <1>1, <1>2, <1>4, NamesAreApart
<1>7. {"cumulative_shaped_reward", "open_position_return_at_end"} \subseteq RestNames
  BY DEF RestNames
<1> QED
  BY <1>2, <1>5, <1>6, <1>7 DEF t, c, s, v, m

-----------------------------------------------------------------------------
(* Bounds of sums, extremes and places *)

\* A list of numbers: a function on 1 .. n.
LEMMA LowSum ==
    ASSUME NEW n \in Nat, NEW f \in [1 .. n -> Int], NEW low \in Int, \A k \in 1 .. n : low <= f[k]
    PROVE  Sum(f) \in Int /\ low * n <= Sum(f)
<1> DEFINE Bad == {m \in Nat : \E g \in [1 .. m -> Int] :
                        (\A k \in 1 .. m : low <= g[k]) /\ ~ (low * m <= Sum(g))}
<1>1. Bad = {}
  <2> SUFFICES ASSUME Bad # {} PROVE FALSE
    OBVIOUS
  <2>1. PICK m \in Bad : \A j \in Bad : m <= j
    BY LeastNumber
  <2>2. m \in Nat
    OBVIOUS
  <2>3. PICK g \in [1 .. m -> Int] : (\A k \in 1 .. m : low <= g[k]) /\ ~ (low * m <= Sum(g))
    BY <2>1
  <2>4. CASE m = 0
    <3>1. g = <<>>
      BY <2>3, <2>4
    <3>2. Sum(g) = 0
      BY <3>1, NoSum
    <3>3. low * m = 0
      BY <2>4
    <3> QED
      BY <2>3, <3>2, <3>3
  <2>5. CASE m # 0
    <3>1. PICK j \in Nat : m = j + 1
      <4>1. m - 1 \in Nat /\ m = (m - 1) + 1
        BY <2>2, <2>5
      <4> QED
        BY <4>1
    <3> DEFINE h == [k \in 1 .. j |-> g[k]]
    <3>2. \A k \in 1 .. j : k \in 1 .. m
      BY <3>1
    <3>3. h \in [1 .. j -> Int] /\ \A k \in 1 .. j : g[k] = h[k] /\ low <= h[k]
      BY <2>3, <3>2
    <3>4. j \notin Bad
      <4> HIDE DEF Bad
      <4> QED
        BY <2>1, <3>1
    <3> HIDE DEF h
    <3>5. low * j <= Sum(h)
      BY <3>3, <3>4
    <3>6. Sum(g) = Sum(h) + g[j + 1] /\ Sum(h) \in Int
      BY <2>3, <3>1, <3>3, SumGrows
    <3>7. low * m = low * j + low /\ low * j \in Int
      BY <3>1
    <3>8. low <= g[j + 1] /\ g[j + 1] \in Int
      BY <2>3, <3>1
    <3> DEFINE lj == low * j
    <3> HIDE DEF lj
    <3>9. lj \in Int /\ low * m = lj + low /\ lj <= Sum(h)
      BY <3>5, <3>7 DEF lj
    <3> QED
      BY <2>3, <3>6, <3>8, <3>9
  <2> QED
    BY <2>4, <2>5
<1>2. Sum(f) \in Int
  BY SumIsWhole
<1> QED
  BY <1>1, <1>2

\* and no more than as many of their upper bound.
LEMMA HighSum ==
    ASSUME NEW n \in Nat, NEW f \in [1 .. n -> Int], NEW high \in Int, \A k \in 1 .. n : f[k] <= high
    PROVE  Sum(f) <= high * n
<1> DEFINE Bad == {m \in Nat : \E g \in [1 .. m -> Int] :
                        (\A k \in 1 .. m : g[k] <= high) /\ ~ (Sum(g) <= high * m)}
<1>1. Bad = {}
  <2> SUFFICES ASSUME Bad # {} PROVE FALSE
    OBVIOUS
  <2>1. PICK m \in Bad : \A j \in Bad : m <= j
    BY LeastNumber
  <2>2. m \in Nat
    OBVIOUS
  <2>3. PICK g \in [1 .. m -> Int] : (\A k \in 1 .. m : g[k] <= high) /\ ~ (Sum(g) <= high * m)
    BY <2>1
  <2>4. CASE m = 0
    <3>1. g = <<>>
      BY <2>3, <2>4
    <3>2. Sum(g) = 0
      BY <3>1, NoSum
    <3>3. high * m = 0
      BY <2>4
    <3> QED
      BY <2>3, <3>2, <3>3
  <2>5. CASE m # 0
    <3>1. PICK j \in Nat : m = j + 1
      <4>1. m - 1 \in Nat /\ m = (m - 1) + 1
        BY <2>2, <2>5
      <4> QED
        BY <4>1
    <3> DEFINE h == [k \in 1 .. j |-> g[k]]
    <3>2. \A k \in 1 .. j : k \in 1 .. m
      BY <3>1
    <3>3. h \in [1 .. j -> Int] /\ \A k \in 1 .. j : g[k] = h[k] /\ h[k] <= high
      BY <2>3, <3>2
    <3>4. j \notin Bad
      <4> HIDE DEF Bad
      <4> QED
        BY <2>1, <3>1
    <3> HIDE DEF h
    <3>5. Sum(h) <= high * j
      BY <3>3, <3>4
    <3>6. Sum(g) = Sum(h) + g[j + 1] /\ Sum(h) \in Int
      BY <2>3, <3>1, <3>3, SumGrows
    <3>7. high * m = high * j + high /\ high * j \in Int
      BY <3>1
    <3>8. g[j + 1] <= high /\ g[j + 1] \in Int
      BY <2>3, <3>1
    <3> DEFINE hj == high * j
    <3> HIDE DEF hj
    <3>9. hj \in Int /\ high * m = hj + high /\ Sum(h) <= hj
      BY <3>5, <3>7 DEF hj
    <3> QED
      BY <2>3, <3>6, <3>8, <3>9
  <2> QED
    BY <2>4, <2>5
<1> QED
  BY <1>1

\* A list has finitely many values.
LEMMA ImageIsFinite ==
    ASSUME NEW n \in Nat, NEW f, DOMAIN f = 1 .. n
    PROVE  IsFiniteSet({f[k] : k \in 1 .. n})
<1> DEFINE image == {f[k] : k \in 1 .. n}
           g == [k \in 1 .. n |-> f[k]]
<1>1. g \in Surjection(1 .. n, image)
  BY DEF Surjection
<1>2. IsFiniteSet(1 .. n)
  BY FS_Interval
<1> QED
  BY <1>1, <1>2, FS_Surjection

\* A finite set of integers has a least one.
LEMMA LeastWhole ==
    ASSUME NEW S \in SUBSET Int, IsFiniteSet(S), S # {}
    PROVE  Min(S) \in S /\ \A y \in S : Min(S) <= y
<1> DEFINE N == {- y : y \in S}
           g == [y \in S |-> - y]
<1>1. g \in Surjection(S, N)
  BY DEF Surjection
<1>2. IsFiniteSet(N) /\ N \in SUBSET Int /\ N # {}
  BY <1>1, FS_Surjection
<1>3. Max(N) \in N /\ \A y \in N : y <= Max(N)
  <2> HIDE DEF N
  <2> QED
    BY <1>2, GreatestNumber
<1> DEFINE m == - Max(N)
<1>4. m \in S
  BY <1>3
<1>5. \A y \in S : m <= y
  <2> TAKE y \in S
  <2>1. - y \in N
    OBVIOUS
  <2>2. - y <= Max(N) /\ Max(N) \in Int /\ y \in Int
    BY <1>2, <1>3, <2>1
  <2> HIDE DEF N
  <2> QED
    BY <2>2
<1> HIDE DEF m
<1>6. Min(S) = m
  BY <1>4, <1>5, MinIs
<1> QED
  BY <1>4, <1>5, <1>6

\* A list of integers has a greatest and a least value.
LEMMA ExtremesOfList ==
    ASSUME NEW n \in Nat \ {0}, NEW f \in [1 .. n -> Int]
    PROVE  LET image == {f[k] : k \in DOMAIN f}
           IN  /\ IsFiniteSet(image) /\ image \in SUBSET Int /\ image # {}
               /\ Max(image) \in image /\ \A y \in image : y <= Max(image)
               /\ Min(image) \in image /\ \A y \in image : Min(image) <= y
<1> DEFINE image == {f[k] : k \in DOMAIN f}
<1>1. image = {f[k] : k \in 1 .. n} /\ n \in Nat
  OBVIOUS
<1>2. IsFiniteSet(image)
  BY <1>1, ImageIsFinite
<1>3. image \in SUBSET Int /\ image # {}
  <2>1. f[1] \in image
    OBVIOUS
  <2> QED
    BY <2>1
<1> HIDE DEF image
<1>4. /\ Max(image) \in image /\ \A y \in image : y <= Max(image)
      /\ Min(image) \in image /\ \A y \in image : Min(image) <= y
  BY <1>2, <1>3, GreatestNumber, LeastWhole
<1> QED
  BY <1>2, <1>3, <1>4 DEF image

\* Sorted numbers have one at every place.
LEMMA PlaceIs ==
    ASSUME NEW n \in Nat \ {0}, NEW f \in [1 .. n -> Int], NEW p \in 1 .. n
    PROVE  Place(f, p) \in {f[k] : k \in DOMAIN f}
<1> DEFINE image == {f[k] : k \in DOMAIN f}
           upTo(x) == {k \in DOMAIN f : f[k] <= x}
           below(x) == {k \in DOMAIN f : f[k] < x}
           X == {x \in image : p <= Cardinality(upTo(x))}
<1>1. /\ IsFiniteSet(image) /\ image \in SUBSET Int /\ image # {}
      /\ Max(image) \in image /\ \A y \in image : y <= Max(image)
  BY ExtremesOfList
<1>2. \A x : IsFiniteSet(upTo(x)) /\ IsFiniteSet(below(x))
             /\ Cardinality(upTo(x)) \in Nat /\ Cardinality(below(x)) \in Nat
  <2> TAKE x
  <2>1. IsFiniteSet(1 .. n) /\ upTo(x) \subseteq 1 .. n /\ below(x) \subseteq 1 .. n
    BY FS_Interval
  <2>2. IsFiniteSet(upTo(x)) /\ IsFiniteSet(below(x))
    BY <2>1, FS_Subset
  <2> QED
    BY <2>2, FS_CardinalityType
<1>3. upTo(Max(image)) = 1 .. n /\ Cardinality(1 .. n) = n
  <2>1. \A k \in 1 .. n : f[k] \in image
    OBVIOUS
  <2>2. \A k \in 1 .. n : f[k] <= Max(image)
    BY <1>1, <2>1
  <2>3. Cardinality(1 .. n) = n
    BY FS_Interval
  <2> HIDE DEF image
  <2> QED
    BY <2>2, <2>3
<1>4. Max(image) \in X
  <2>1. p <= Cardinality(upTo(Max(image)))
    <3> HIDE DEF upTo, image
    <3> QED
      BY <1>3
  <2> QED
    BY <1>1, <2>1
<1>5. IsFiniteSet(X) /\ X \in SUBSET Int /\ X # {}
  BY <1>1, <1>4, FS_Subset
<1>6. Min(X) \in X /\ \A y \in X : Min(X) <= y
  <2> HIDE DEF X
  <2> QED
    BY <1>5, LeastWhole
<1> DEFINE x == Min(X)
<1>7. x \in image /\ p <= Cardinality(upTo(x)) /\ x \in Int
  BY <1>1, <1>6
<1>8. Cardinality(below(x)) < p
  <2> SUFFICES ASSUME ~ (Cardinality(below(x)) < p) PROVE FALSE
    OBVIOUS
  <2> DEFINE Y == {y \in image : y < x}
  <2>1. Cardinality(below(x)) # 0 /\ Cardinality(below(x)) >= p
    <3>1. Cardinality(below(x)) \in Nat
      BY <1>2
    <3> HIDE DEF below, x
    <3> QED
      BY <3>1
  <2>2. below(x) # {}
    BY <2>1, FS_EmptySet
  <2>3. PICK k \in DOMAIN f : f[k] < x
    BY <2>2
  <2>4. f[k] \in Y
    BY <2>3
  <2>5. IsFiniteSet(Y) /\ Y \in SUBSET Int /\ Y # {}
    BY <1>1, <2>4, FS_Subset
  <2>6. Max(Y) \in Y /\ \A y \in Y : y <= Max(Y)
    <3> HIDE DEF Y
    <3> QED
      BY <2>5, GreatestNumber
  <2> DEFINE y == Max(Y)
  <2>7. y \in image /\ y < x /\ y \in Int
    BY <2>5, <2>6
  <2>8. \A j \in DOMAIN f : f[j] < x => f[j] <= y
    BY <2>6
  <2>9. \A j \in DOMAIN f : f[j] <= y => f[j] < x
    <3> HIDE DEF y, x
    <3> QED
      BY <1>7, <2>7
  <2>10. upTo(y) = below(x)
    <3> HIDE DEF y, x
    <3> QED
      BY <2>8, <2>9
  <2>11. y \in X
    <3> HIDE DEF y, x, image, upTo, below
    <3> QED
      BY <2>1, <2>7, <2>10
  <2>12. x <= y
    BY <1>6, <2>11
  <2> HIDE DEF x, y
  <2> QED
    BY <1>7, <2>7, <2>12
<1> HIDE DEF x
<1> QED
  BY <1>7, <1>8 DEF Place

-----------------------------------------------------------------------------
(* The parts of a list *)

\* At keeps the elements at the positions K.
LEMMA KeptIs ==
    ASSUME NEW S, NEW s \in Seq(S), NEW K \in SUBSET (DOMAIN s)
    PROVE  LET r == Scores!At(s, K)
           IN  /\ r \in Seq(S) /\ IsFiniteSet(K) /\ Len(r) = Cardinality(K)
               /\ Len(r) \in Nat /\ Len(r) <= Len(s)
               /\ DOMAIN r = 1 .. Len(r)
               /\ \A i \in DOMAIN r : \E k \in K : r[i] = s[k]
               /\ r = <<>> <=> Len(r) = 0
<1> DEFINE r == Scores!At(s, K)
           n == Len(s)
<1>1. n \in Nat /\ DOMAIN s = 1 .. n /\ \A k \in 1 .. n : s[k] \in S
  OBVIOUS
<1>2. /\ Cardinality(K) \in Nat /\ DOMAIN r = 1 .. Cardinality(K)
      /\ \A i \in 1 .. Cardinality(K) : \E k \in K : r[i] = s[k]
  <2>1. Begins(s, s, n)
    BY DEF Begins
  <2> QED
    BY <1>1, <2>1, KeptGrows
<1>3. IsFiniteSet(K) /\ Cardinality(K) <= n
  <2>1. IsFiniteSet(1 .. n) /\ Cardinality(1 .. n) = n
    BY <1>1, FS_Interval
  <2> QED
    BY <1>1, <2>1, FS_Subset
<1>4. r = [i \in 1 .. Cardinality(K) |-> r[i]]
  BY <1>2 DEF Scores!At
<1> HIDE DEF r
<1>5. \A i \in 1 .. Cardinality(K) : r[i] \in S
  BY <1>1, <1>2
<1>6. r \in Seq(S) /\ Len(r) = Cardinality(K)
  <2>1. r \in [1 .. Cardinality(K) -> S]
    BY <1>4, <1>5
  <2> QED
    BY <1>2, <2>1
<1>7. r = <<>> <=> Len(r) = 0
  BY <1>6, EmptySeq
<1> QED
  BY <1>1, <1>2, <1>3, <1>6, <1>7 DEF r

\* Positions of two kinds are the positions of either.
LEMMA TwoKinds ==
    ASSUME NEW A, NEW B, IsFiniteSet(A), IsFiniteSet(B), A \cap B = {}
    PROVE  /\ Cardinality(A \cup B) = Cardinality(A) + Cardinality(B)
           /\ IsFiniteSet(A \cup B)
<1>1. Cardinality(A \cup B) = Cardinality(A) + Cardinality(B) - Cardinality(A \cap B)
  BY FS_Union
<1>2. IsFiniteSet(A \cup B)
  BY FS_Union
<1>3. Cardinality(A) \in Nat /\ Cardinality(B) \in Nat /\ Cardinality(A \cap B) = 0
  BY FS_CardinalityType, FS_EmptySet
<1> QED
  BY <1>1, <1>2, <1>3

\* A closed trade, as the events log it.
Closed(ev) ==
    /\ ev.net_return \in Int /\ ev.position_before \in {-1, 1}
    /\ ev.entry_fee \in Nat /\ ev.close_fee \in Nat /\ ev.swap_cost \in Nat
    /\ ev.bars_held \in Nat \ {0}

\* A list of closed trades.
ClosedList(S, s) == s \in Seq(S) /\ \A k \in DOMAIN s : Closed(s[k])

\* Some of a list of closed trades are closed trades.
LEMMA PartIsClosed ==
    ASSUME NEW S, NEW s, ClosedList(S, s), NEW K \in SUBSET (DOMAIN s)
    PROVE  ClosedList(S, Scores!At(s, K))
<1>1. s \in Seq(S) /\ \A k \in DOMAIN s : Closed(s[k])
  BY DEF ClosedList
<1> DEFINE r == Scores!At(s, K)
<1>2. r \in Seq(S) /\ \A i \in DOMAIN r : \E k \in K : r[i] = s[k]
  BY <1>1, KeptIs
<1> HIDE DEF r
<1>3. ClosedList(S, r)
  BY <1>1, <1>2 DEF ClosedList
<1> QED
  BY <1>3 DEF r

\* Every closed trade wins, loses or neither, and was long or short.
LEMMA CountsAddUp ==
    ASSUME NEW S, NEW s, ClosedList(S, s)
    PROVE  /\ Len(s) \in Nat /\ Len(Wins(s)) \in Nat /\ Len(Losers(s)) \in Nat
           /\ Len(Evens(s)) \in Nat /\ Len(Longs(s)) \in Nat /\ Len(Shorts(s)) \in Nat
           /\ Len(s) = Len(Wins(s)) + Len(Losers(s)) + Len(Evens(s))
           /\ Len(s) = Len(Longs(s)) + Len(Shorts(s))
<1> DEFINE D == DOMAIN s
           W == {k \in D : s[k].net_return > 0}
           L == {k \in D : s[k].net_return < 0}
           E == {k \in D : s[k].net_return = 0}
           P == {k \in D : s[k].position_before = 1}
           N == {k \in D : s[k].position_before = -1}
<1>1. s \in Seq(S) /\ \A k \in D : s[k].net_return \in Int /\ s[k].position_before \in {-1, 1}
  BY DEF ClosedList, Closed
<1>2. Len(s) \in Nat /\ D = 1 .. Len(s) /\ Cardinality(D) = Len(s)
  <2>1. Len(s) \in Nat /\ D = 1 .. Len(s)
    BY <1>1
  <2>2. Cardinality(1 .. Len(s)) = Len(s)
    <3> DEFINE n == Len(s)
    <3>1. n \in Nat
      BY <2>1
    <3> HIDE DEF n
    <3>2. Cardinality(1 .. n) = n
      BY <3>1, FS_Interval
    <3> QED
      BY <3>2 DEF n
  <2> QED
    BY <2>1, <2>2
<1>3. /\ Len(Wins(s)) = Cardinality(W) /\ Len(Wins(s)) \in Nat /\ IsFiniteSet(W)
      /\ Len(Losers(s)) = Cardinality(L) /\ Len(Losers(s)) \in Nat /\ IsFiniteSet(L)
      /\ Len(Evens(s)) = Cardinality(E) /\ Len(Evens(s)) \in Nat /\ IsFiniteSet(E)
      /\ Len(Longs(s)) = Cardinality(P) /\ Len(Longs(s)) \in Nat /\ IsFiniteSet(P)
      /\ Len(Shorts(s)) = Cardinality(N) /\ Len(Shorts(s)) \in Nat /\ IsFiniteSet(N)
  BY <1>1, KeptIs DEF Wins, Losers, Evens, Longs, Shorts
<1>4. W \cap L = {} /\ (W \cup L) \cap E = {} /\ (W \cup L) \cup E = D
  <2>1. \A k \in D : k \in W \/ k \in L \/ k \in E
    BY <1>1
  <2>2. \A k \in D : /\ ~ (k \in W /\ k \in L)
                     /\ ~ (k \in W /\ k \in E) /\ ~ (k \in L /\ k \in E)
    BY <1>1
  <2>3. W \subseteq D /\ L \subseteq D /\ E \subseteq D
    OBVIOUS
  <2> HIDE DEF D, W, L, E
  <2> QED
    BY <2>1, <2>2, <2>3
<1>5. P \cap N = {} /\ P \cup N = D
  <2>1. \A k \in D : (k \in P \/ k \in N) /\ ~ (k \in P /\ k \in N)
    BY <1>1
  <2>2. P \subseteq D /\ N \subseteq D
    OBVIOUS
  <2> HIDE DEF D, P, N
  <2> QED
    BY <2>1, <2>2
<1> HIDE DEF D, W, L, E, P, N
<1>6. Cardinality(W \cup L) = Cardinality(W) + Cardinality(L) /\ IsFiniteSet(W \cup L)
  BY <1>3, <1>4, TwoKinds
<1>7. Cardinality(D) = Cardinality(W \cup L) + Cardinality(E)
  BY <1>3, <1>4, <1>6, TwoKinds
<1>8. Cardinality(D) = Cardinality(P) + Cardinality(N)
  BY <1>3, <1>5, TwoKinds
<1> QED
  BY <1>2, <1>3, <1>6, <1>7, <1>8

\* The gains, the losses and the bars of a list.
LEMMA NumbersOf ==
    ASSUME NEW S, NEW s, ClosedList(S, s)
    PROVE  /\ Len(s) \in Nat /\ DOMAIN s = 1 .. Len(s)
           /\ Nets(s) \in [1 .. Len(s) -> Int]
           /\ Held(s) \in [1 .. Len(s) -> Int] /\ \A k \in 1 .. Len(s) : Held(s)[k] >= 1
           /\ PaidFees(s) \in [1 .. Len(s) -> Int] /\ Swaps(s) \in [1 .. Len(s) -> Int]
           /\ Costs(s) \in [1 .. Len(s) -> Int]
           /\ s = <<>> <=> Len(s) = 0
<1>1. s \in Seq(S) /\ \A k \in DOMAIN s : Closed(s[k])
  BY DEF ClosedList
<1>2. Len(s) \in Nat /\ DOMAIN s = 1 .. Len(s) /\ (s = <<>> <=> Len(s) = 0)
  BY <1>1, EmptySeq
<1>3. Nets(s) \in [1 .. Len(s) -> Int]
  BY <1>1, <1>2 DEF Nets, Closed
<1>4. Held(s) \in [1 .. Len(s) -> Int] /\ \A k \in 1 .. Len(s) : Held(s)[k] >= 1
  BY <1>1, <1>2 DEF Held, Closed
<1>5. PaidFees(s) \in [1 .. Len(s) -> Int] /\ Swaps(s) \in [1 .. Len(s) -> Int]
  BY <1>1, <1>2 DEF PaidFees, Swaps, Closed
<1>6. Costs(s) \in [1 .. Len(s) -> Int]
  BY <1>1, <1>2 DEF Costs, Cost, Closed
<1> QED
  BY <1>2, <1>3, <1>4, <1>5, <1>6

\* A winner gains at least one unit and a loser loses at least one.
LEMMA GainsAndLosses ==
    ASSUME NEW S, NEW s, ClosedList(S, s)
    PROVE  LET w == Wins(s)
               l == Losers(s)
           IN  /\ ClosedList(S, w) /\ ClosedList(S, l)
               /\ \A k \in 1 .. Len(w) : Nets(w)[k] >= 1
               /\ \A k \in 1 .. Len(l) : Nets(l)[k] <= -1
               /\ Sum(Nets(w)) \in Int /\ Sum(Nets(w)) >= Len(w)
               /\ Sum(Nets(l)) \in Int /\ Sum(Nets(l)) <= - Len(l)
<1> DEFINE w == Wins(s)
           l == Losers(s)
           W == {k \in DOMAIN s : s[k].net_return > 0}
           L == {k \in DOMAIN s : s[k].net_return < 0}
<1>1. s \in Seq(S) /\ \A k \in DOMAIN s : s[k].net_return \in Int
  BY DEF ClosedList, Closed
<1>2. ClosedList(S, w) /\ ClosedList(S, l)
  BY PartIsClosed DEF Wins, Losers
<1>3. \A i \in DOMAIN w : \E k \in W : w[i] = s[k]
  <2>1. w = Scores!At(s, W) /\ W \in SUBSET (DOMAIN s)
    BY DEF Wins
  <2> HIDE DEF w, W
  <2> QED
    BY <1>1, <2>1, KeptIs
<1>4. \A i \in DOMAIN l : \E k \in L : l[i] = s[k]
  <2>1. l = Scores!At(s, L) /\ L \in SUBSET (DOMAIN s)
    BY DEF Losers
  <2> HIDE DEF l, L
  <2> QED
    BY <1>1, <2>1, KeptIs
<1>5. \A i \in DOMAIN w : w[i].net_return >= 1
  BY <1>1, <1>3
<1>6. \A i \in DOMAIN l : l[i].net_return <= -1
  BY <1>1, <1>4
<1> HIDE DEF w, l, W, L
<1>7. /\ Len(w) \in Nat /\ DOMAIN w = 1 .. Len(w) /\ Nets(w) \in [1 .. Len(w) -> Int]
      /\ Len(l) \in Nat /\ DOMAIN l = 1 .. Len(l) /\ Nets(l) \in [1 .. Len(l) -> Int]
  BY <1>2, NumbersOf
<1>8. \A k \in 1 .. Len(w) : 1 <= Nets(w)[k]
  BY <1>5, <1>7 DEF Nets
<1>9. \A k \in 1 .. Len(l) : Nets(l)[k] <= -1
  BY <1>6, <1>7 DEF Nets
<1>10. Sum(Nets(w)) \in Int /\ 1 * Len(w) <= Sum(Nets(w))
  <2> DEFINE n == Len(w)
             f == Nets(w)
             low == 1
  <2>1. n \in Nat /\ f \in [1 .. n -> Int] /\ low \in Int /\ \A k \in 1 .. n : low <= f[k]
    BY <1>7, <1>8
  <2>2. Sum(f) \in Int /\ low * n <= Sum(f)
    <3> HIDE DEF n, f, low
    <3> QED
      BY <2>1, LowSum
  <2> QED
    BY <2>2
<1>11. Sum(Nets(l)) \in Int
  BY <1>7, SumIsWhole
<1>12. Sum(Nets(l)) <= (-1) * Len(l)
  BY <1>7, <1>9, HighSum
<1>13. Sum(Nets(w)) >= Len(w) /\ Sum(Nets(l)) <= - Len(l)
  BY <1>7, <1>10, <1>11, <1>12
<1>14. \A k \in 1 .. Len(w) : Nets(w)[k] >= 1
  BY <1>7, <1>8
<1> QED
  BY <1>2, <1>9, <1>10, <1>11, <1>13, <1>14 DEF w, l

-----------------------------------------------------------------------------
(* Means, medians and extremes *)

\* The median lies between the least and the greatest.
LEMMA MiddleIs ==
    ASSUME NEW n \in Nat \ {0}, NEW f \in [1 .. n -> Int], NEW s, s # <<>>, Len(s) = n
    PROVE  \E x, y \in {f[k] : k \in DOMAIN f} : Middle(f, s) = <<x + y, 2>>
<1> DEFINE p == (n + 1) \div 2
           q == (n + 2) \div 2
<1>1. p \in 1 .. n /\ q \in 1 .. n
  OBVIOUS
<1> HIDE DEF p, q
<1>2. Place(f, p) \in {f[k] : k \in DOMAIN f} /\ Place(f, q) \in {f[k] : k \in DOMAIN f}
  BY <1>1, PlaceIs
<1>3. Middle(f, s) = <<Place(f, p) + Place(f, q), 2>>
  BY DEF Middle, p, q
<1> QED
  BY <1>2, <1>3

\* The lowest and the highest of a list are among its numbers and bound them.
LEMMA EndsOfList ==
    ASSUME NEW n \in Nat \ {0}, NEW f \in [1 .. n -> Int], NEW s, s # <<>>
    PROVE  /\ Smallest(f, s) \in {f[k] : k \in DOMAIN f}
           /\ Largest(f, s) \in {f[k] : k \in DOMAIN f}
           /\ \A y \in {f[k] : k \in DOMAIN f} : Smallest(f, s) <= y /\ y <= Largest(f, s)
BY ExtremesOfList DEF Smallest, Largest

\* The bars a position was held: the mean and the median lie in between.
LEMMA HeldBetween ==
    ASSUME NEW S, NEW s, ClosedList(S, s), Len(s) # 0
    PROVE  LET low == Smallest(Held(s), s)
               high == Largest(Held(s), s)
           IN  /\ low \in Int /\ high \in Int /\ low >= 1 /\ high >= 1
               /\ \A q \in {Fraction(Sum(Held(s)), s), Middle(Held(s), s)} :
                     AtMost(Whole(low), q) /\ AtMost(q, Whole(high)) /\ q \in Int \X Int
<1> DEFINE n == Len(s)
           f == Held(s)
           low == Smallest(f, s)
           high == Largest(f, s)
           image == {f[k] : k \in DOMAIN f}
<1>1. n \in Nat \ {0} /\ f \in [1 .. n -> Int] /\ (\A k \in 1 .. n : f[k] >= 1) /\ s # <<>>
  BY NumbersOf
<1>2. Fraction(Sum(f), s) = <<Sum(f), n>> /\ Len(s) = n
  BY <1>1 DEF Fraction
<1> HIDE DEF n, f
<1>3. low \in image /\ high \in image /\ \A y \in image : low <= y /\ y <= high
  BY <1>1, EndsOfList
<1>4. \A y \in image : y \in Int /\ y >= 1
  BY <1>1
<1>5. \E x, y \in image : Middle(f, s) = <<x + y, 2>>
  BY <1>1, <1>2, MiddleIs
<1>6. \A k \in 1 .. n : f[k] \in image
  BY <1>1
<1> HIDE DEF low, high, image
<1>7. low \in Int /\ high \in Int /\ low >= 1 /\ high >= 1
  BY <1>3, <1>4
<1>8. low * n <= Sum(f) /\ Sum(f) <= high * n /\ Sum(f) \in Int
  BY <1>1, <1>3, <1>6, <1>7, LowSum, HighSum
<1>9. LET q == <<Sum(f), n>>
      IN  AtMost(Whole(low), q) /\ AtMost(q, Whole(high)) /\ q \in Int \X Int
  <2> DEFINE sum == Sum(f)
             ln == low * n
             hn == high * n
  <2>1. ln <= sum /\ sum <= hn /\ sum \in Int /\ ln \in Int /\ hn \in Int
    BY <1>1, <1>7, <1>8
  <2> HIDE DEF sum, ln, hn
  <2>2. ln <= sum * 1 /\ sum * 1 <= hn
    BY <2>1
  <2>3. ln = low * n /\ hn = high * n
    BY DEF ln, hn
  <2>4. AtMost(Whole(low), <<sum, n>>) <=> low * n <= sum * 1
    BY Zenon DEF AtMost, Whole
  <2>5. AtMost(<<sum, n>>, Whole(high)) <=> sum * 1 <= high * n
    BY Zenon DEF AtMost, Whole
  <2> QED
    BY <1>1, <2>1, <2>2, <2>3, <2>4, <2>5 DEF sum
<1>10. LET q == Middle(f, s)
       IN  AtMost(Whole(low), q) /\ AtMost(q, Whole(high)) /\ q \in Int \X Int
  <2>1. PICK x, y \in image : Middle(f, s) = <<x + y, 2>>
    BY <1>5
  <2>2. low <= x /\ low <= y /\ x <= high /\ y <= high /\ x \in Int /\ y \in Int
    BY <1>3, <1>4
  <2>3. low * 2 <= (x + y) * 1 /\ (x + y) * 1 <= high * 2 /\ x + y \in Int
    BY <1>7, <2>2
  <2> DEFINE z == x + y
  <2> HIDE DEF z
  <2>4. AtMost(Whole(low), <<z, 2>>) /\ AtMost(<<z, 2>>, Whole(high)) /\ z \in Int
    BY <2>3 DEF AtMost, Whole, z
  <2> QED
    BY <2>1, <2>4 DEF z
<1> QED
  BY <1>2, <1>7, <1>9, <1>10 DEF n, f, low, high

-----------------------------------------------------------------------------
(* Streaks *)

\* Every trade lies in a streak of its own sign.
LEMMA StreakThrough ==
    ASSUME NEW n \in Nat, NEW g \in [1 .. n -> Int], NEW t, NEW k \in 1 .. n, g[k] = t
    PROVE  \E r \in Scores!Streaks(g, t) : r[1] <= k /\ k <= r[2]
<1> DEFINE A == {i \in 1 .. k : \A j \in i .. k : g[j] = t}
           B == {i \in k .. n : \A j \in k .. i : g[j] = t}
<1>1. k \in A /\ k \in B
  OBVIOUS
<1>2. PICK a \in A : \A i \in A : a <= i
  <2>1. A \in SUBSET Nat /\ A # {}
    <3>1. \A i \in A : i \in 1 .. k
      OBVIOUS
    <3> HIDE DEF A
    <3> QED
      BY <1>1, <3>1
  <2> HIDE DEF A
  <2> QED
    BY <2>1, LeastNumber
<1>3. PICK b \in B : \A i \in B : i <= b
  <2>1. IsFiniteSet(k .. n) /\ B \subseteq k .. n /\ B \in SUBSET Int /\ B # {}
    <3>1. \A i \in B : i \in k .. n
      OBVIOUS
    <3>2. IsFiniteSet(k .. n)
      BY FS_Interval
    <3> HIDE DEF B
    <3> QED
      BY <1>1, <3>1, <3>2
  <2>2. IsFiniteSet(B)
    BY <2>1, FS_Subset
  <2> HIDE DEF B
  <2> QED
    BY <2>1, <2>2, GreatestNumber
<1>4. a \in 1 .. k /\ b \in k .. n /\ \A j \in a .. b : g[j] = t
  BY <1>2, <1>3
<1>5. a > 1 => g[a - 1] # t
  <2> SUFFICES ASSUME a > 1, g[a - 1] = t PROVE FALSE
    OBVIOUS
  <2>1. a - 1 \in 1 .. k /\ \A j \in (a - 1) .. k : j = a - 1 \/ j \in a .. k
    BY <1>4
  <2>2. \A j \in (a - 1) .. k : g[j] = t
    BY <1>2, <2>1
  <2>3. a - 1 \in A
    BY <2>1, <2>2
  <2> HIDE DEF A
  <2> QED
    BY <1>2, <1>4, <2>3
<1>6. b < n => g[b + 1] # t
  <2> SUFFICES ASSUME b < n, g[b + 1] = t PROVE FALSE
    OBVIOUS
  <2>1. b + 1 \in k .. n /\ \A j \in k .. b + 1 : j = b + 1 \/ j \in k .. b
    BY <1>4
  <2>2. \A j \in k .. b + 1 : g[j] = t
    BY <1>3, <2>1
  <2>3. b + 1 \in B
    BY <2>1, <2>2
  <2> HIDE DEF B
  <2> QED
    BY <1>3, <1>4, <2>3
<1> HIDE DEF A, B
<1>7. a \in 1 .. n /\ b \in 1 .. n /\ a <= b /\ DOMAIN g = 1 .. n /\ Len(g) = n
  BY <1>4
<1> DEFINE r == <<a, b>>
<1>8. /\ r \in (DOMAIN g) \X (DOMAIN g) /\ r[1] = a /\ r[2] = b
  BY <1>7
<1> HIDE DEF r
<1>9. r \in Scores!Streaks(g, t)
  BY <1>4, <1>5, <1>6, <1>7, <1>8 DEF Scores!Streaks
<1>10. r[1] <= k /\ k <= r[2]
  BY <1>4, <1>8
<1> QED
  BY <1>9, <1>10

\* A streak is a range of trades, and there are finitely many.
LEMMA StreaksAre ==
    ASSUME NEW n \in Nat, NEW g \in [1 .. n -> Int], NEW t
    PROVE  /\ IsFiniteSet(Scores!Streaks(g, t)) /\ Cardinality(Scores!Streaks(g, t)) \in Nat
           /\ \A r \in Scores!Streaks(g, t) :
                  /\ r[1] \in 1 .. n /\ r[2] \in 1 .. n /\ r[1] <= r[2]
                  /\ g[r[1]] = t
<1> DEFINE R == Scores!Streaks(g, t)
<1>1. R \subseteq (1 .. n) \X (1 .. n)
  BY DEF Scores!Streaks
<1>2. \A r \in R : r[1] <= r[2] /\ \A k \in r[1] .. r[2] : g[k] = t
  BY DEF Scores!Streaks
<1>3. IsFiniteSet(R)
  <2>1. IsFiniteSet(1 .. n)
    BY FS_Interval
  <2>2. IsFiniteSet((1 .. n) \X (1 .. n))
    BY <2>1, FS_Product
  <2> QED
    BY <1>1, <2>2, FS_Subset
<1>4. Cardinality(R) \in Nat
  BY <1>3, FS_CardinalityType
<1>5. \A r \in R : r[1] \in 1 .. n /\ r[2] \in 1 .. n
  BY <1>1
<1> HIDE DEF R
<1>6. \A r \in R : r[1] <= r[2] /\ g[r[1]] = t
  BY <1>2, <1>5
<1> QED
  BY <1>3, <1>4, <1>5, <1>6 DEF R

\* Some trade has the sign.
HasSign(g, t) == \E k \in DOMAIN g : g[k] = t

\* There is a streak of a sign when a trade has it.
LEMMA StreaksOfSign ==
    ASSUME NEW n \in Nat, NEW g \in [1 .. n -> Int], NEW t \in Int
    PROVE  /\ Scores!LongestStreak(g, t) \in Nat
           /\ HasSign(g, t) <=> Scores!LongestStreak(g, t) # 0
           /\ HasSign(g, t) => Scores!AverageStreak(g, t) \in Int \X Int
           /\ ~ HasSign(g, t) => Scores!AverageStreak(g, t) = NoValue
<1> DEFINE R == Scores!Streaks(g, t)
           X == {0} \cup {r[2] - r[1] + 1 : r \in R}
<1>1. HasSign(g, t) <=> R # {}
  <2>1. HasSign(g, t) => R # {}
    BY StreakThrough DEF HasSign
  <2>2. R # {} => HasSign(g, t)
    BY StreaksAre DEF HasSign
  <2> QED
    BY <2>1, <2>2
<1>2. \A r \in R : r[2] - r[1] + 1 \in 1 .. n
  <2>1. \A r \in R : r[1] \in 1 .. n /\ r[2] \in 1 .. n /\ r[1] <= r[2]
    BY StreaksAre
  <2> HIDE DEF R
  <2> TAKE r \in R
  <2> DEFINE a == r[1]
             b == r[2]
  <2>2. a \in 1 .. n /\ b \in 1 .. n /\ a <= b
    BY <2>1
  <2> HIDE DEF a, b
  <2>3. b - a + 1 \in 1 .. n
    BY <2>2
  <2> QED
    BY <2>3 DEF a, b
<1> HIDE DEF R
<1>3. X \in SUBSET (0 .. n) /\ 0 \in X
  BY <1>2
<1>4. IsFiniteSet(X) /\ X \in SUBSET Int /\ X # {}
  <2>1. IsFiniteSet(0 .. n)
    BY FS_Interval
  <2> HIDE DEF X
  <2>2. IsFiniteSet(X)
    BY <1>3, <2>1, FS_Subset
  <2> QED
    BY <1>3, <2>2
<1>5. Max(X) \in X /\ \A y \in X : y <= Max(X)
  <2> HIDE DEF X
  <2> QED
    BY <1>4, GreatestNumber
<1>6. Max(X) \in Nat
  BY <1>3, <1>5
<1>7. R # {} <=> Max(X) # 0
  <2>1. ASSUME NEW r \in R PROVE Max(X) # 0
    <3>1. r[2] - r[1] + 1 \in X /\ r[2] - r[1] + 1 >= 1
      BY <1>2
    <3> DEFINE y == r[2] - r[1] + 1
    <3>2. y \in X /\ y >= 1
      BY <3>1
    <3> HIDE DEF X, y
    <3> QED
      BY <1>3, <1>5, <1>6, <3>2
  <2>2. ASSUME R = {} PROVE Max(X) = 0
    <3>1. X = {0}
      BY <2>2
    <3> QED
      BY <1>5, <3>1
  <2> QED
    BY <2>1, <2>2
<1>8. Scores!LongestStreak(g, t) = Max(X)
  BY SameExtremes DEF Scores!LongestStreak, R
<1> HIDE DEF X
<1>9. R # {} => Scores!AverageStreak(g, t) \in Int \X Int
  <2> DEFINE K == {k \in DOMAIN g : g[k] = t}
  <2>1. IsFiniteSet(1 .. n) /\ K \subseteq 1 .. n
    BY FS_Interval
  <2>2. IsFiniteSet(K)
    BY <2>1, FS_Subset
  <2>3. Cardinality(K) \in Nat /\ Cardinality(R) \in Nat
    BY <2>2, FS_CardinalityType, StreaksAre DEF R
  <2>4. Scores!Cardinality(K) = Cardinality(K) /\ Scores!Cardinality(R) = Cardinality(R)
    BY SameCount
  <2> DEFINE ck == Cardinality(K)
             cr == Cardinality(R)
  <2>5. R # {} => Scores!AverageStreak(g, t) = <<ck, cr>>
    BY <2>4 DEF Scores!AverageStreak, R
  <2>6. ck \in Nat /\ cr \in Nat
    BY <2>3
  <2> HIDE DEF ck, cr
  <2> QED
    BY <2>5, <2>6
<1>10. R = {} => Scores!AverageStreak(g, t) = NoValue
  BY DEF Scores!AverageStreak, R
<1> QED
  BY <1>1, <1>6, <1>7, <1>8, <1>9, <1>10 DEF R

\* The last trade has a streak of its own.
LEMMA LastStreak ==
    ASSUME NEW n \in Nat \ {0}, NEW g \in [1 .. n -> {-1, 0, 1}]
    PROVE  /\ Scores!CurrentStreakType(g) \in StreakTypes \ {"none"}
           /\ Scores!CurrentStreak(g) \in Int /\ Scores!CurrentStreak(g) >= 1
<1>1. g # <<>> /\ Len(g) = n /\ Scores!Last(g) = g[n] /\ g \in [1 .. n -> Int]
  BY DEF Scores!Last
<1>2. g[n] \in {-1, 0, 1}
  OBVIOUS
<1>3. Scores!CurrentStreakType(g) \in StreakTypes \ {"none"}
  BY <1>1, <1>2 DEF Scores!CurrentStreakType, StreakTypes
<1> DEFINE R == Scores!Streaks(g, g[n])
           last == CHOOSE s \in R : s[2] = n
<1>4. \E r \in R : r[2] = n
  <2>1. n \in 1 .. n
    OBVIOUS
  <2>2. PICK r \in R : r[1] <= n /\ n <= r[2]
    BY <1>1, <2>1, StreakThrough
  <2>3. r[2] \in 1 .. n
    BY <1>1, StreaksAre
  <2>4. r[2] = n
    BY <2>2, <2>3
  <2> QED
    BY <2>4
<1>5. last \in R /\ last[2] = n
  BY <1>4
<1>6. last[1] \in 1 .. n
  BY <1>1, <1>5, StreaksAre
<1>7. Scores!CurrentStreak(g) = last[2] - last[1] + 1
  BY <1>1 DEF Scores!CurrentStreak
<1> HIDE DEF last
<1> QED
  BY <1>3, <1>5, <1>6, <1>7

\* The signs of the closed trades.
LEMMA SignsOf ==
    ASSUME NEW S, NEW s, ClosedList(S, s)
    PROVE  LET g == Signs(s)
           IN  /\ g \in [1 .. Len(s) -> {-1, 0, 1}] /\ Len(s) \in Nat
               /\ Len(s) = 0 => g = <<>>
               /\ HasSign(g, 1) <=> Len(Wins(s)) # 0
               /\ HasSign(g, -1) <=> Len(Losers(s)) # 0
<1> DEFINE g == Signs(s)
           W == {k \in DOMAIN s : s[k].net_return > 0}
           L == {k \in DOMAIN s : s[k].net_return < 0}
<1>1. s \in Seq(S) /\ \A k \in DOMAIN s : s[k].net_return \in Int
  BY DEF ClosedList, Closed
<1>2. Len(s) \in Nat /\ DOMAIN s = 1 .. Len(s)
  BY <1>1
<1>3. \A m \in Int : /\ Scores!Sign(m) \in {-1, 0, 1}
                     /\ Scores!Sign(m) = 1 <=> m > 0
                     /\ Scores!Sign(m) = -1 <=> m < 0
  BY DEF Scores!Sign
<1>4. DOMAIN g = 1 .. Len(s) /\ \A k \in DOMAIN s : g[k] = Scores!Sign(s[k].net_return)
  BY <1>2 DEF Signs
<1>5. g \in [1 .. Len(s) -> {-1, 0, 1}]
  <2>1. g = [k \in 1 .. Len(s) |-> Scores!Sign(s[k].net_return)]
    BY <1>2 DEF Signs
  <2>2. \A k \in 1 .. Len(s) : Scores!Sign(s[k].net_return) \in {-1, 0, 1}
    BY <1>1, <1>2, <1>3
  <2> HIDE DEF g
  <2> QED
    BY <2>1, <2>2
<1> HIDE DEF g
<1>6. Len(s) = 0 => g = <<>>
  BY <1>5
<1>7. /\ Len(Wins(s)) = Cardinality(W) /\ IsFiniteSet(W)
      /\ Len(Losers(s)) = Cardinality(L) /\ IsFiniteSet(L)
  BY <1>1, KeptIs DEF Wins, Losers
<1>8. (Len(Wins(s)) = 0 <=> W = {}) /\ (Len(Losers(s)) = 0 <=> L = {})
  BY <1>7, FS_EmptySet
<1>9. /\ HasSign(g, 1) <=> W # {}
      /\ HasSign(g, -1) <=> L # {}
  BY <1>1, <1>2, <1>3, <1>4 DEF HasSign
<1> QED
  BY <1>2, <1>5, <1>6, <1>8, <1>9 DEF g

-----------------------------------------------------------------------------
(* The metrics of a well-formed evaluation *)

\* The numbers of trades in the columns of the row,
LEMMA CountsOf ==
    ASSUME NEW a
    PROVE  LET m == Scores!Metrics(a)
               events == a.trade_events
               closes == Scores!Closes(events)
               steps == Len(a.agent_equity)
           IN  /\ m.trade_events_total = Len(events)
               /\ m.trade_event_rate = <<Len(events), steps>>
               /\ m.round_trips = Len(closes)
               /\ m.round_trip_rate = <<Len(closes), steps>>
               /\ m.winning_trades = Len(Wins(closes))
               /\ m.losing_trades = Len(Losers(closes))
               /\ m.breakeven_trades = Len(Evens(closes))
               /\ m.long_round_trips = Len(Longs(closes))
               /\ m.short_round_trips = Len(Shorts(closes))
               /\ m.open_long_count = Len(OpensOf(events, 1))
               /\ m.open_short_count = Len(OpensOf(events, -1))
               /\ m.close_long_count = Len(Longs(closes))
               /\ m.close_short_count = Len(Shorts(closes))
               /\ m.swap_events = Scores!Total(Scores!Itself, a.step_swap_events)
<1> DEFINE m == Scores!Metrics(a)
           t == Scores!TradeMetrics(a)
<1>1. \A x \in TradeNames : m[x] = t[x]
  BY GroupsOfMetrics
<1> HIDE DEF m, t
<1>2. /\ m.trade_events_total = t.trade_events_total
      /\ m.trade_event_rate = t.trade_event_rate
      /\ m.round_trips = t.round_trips
      /\ m.round_trip_rate = t.round_trip_rate
      /\ m.winning_trades = t.winning_trades
      /\ m.losing_trades = t.losing_trades
      /\ m.breakeven_trades = t.breakeven_trades
  BY <1>1 DEF TradeNames
<1>3. /\ m.long_round_trips = t.long_round_trips
      /\ m.short_round_trips = t.short_round_trips
      /\ m.open_long_count = t.open_long_count
      /\ m.open_short_count = t.open_short_count
      /\ m.close_long_count = t.close_long_count
      /\ m.close_short_count = t.close_short_count
      /\ m.swap_events = t.swap_events
  BY <1>1 DEF TradeNames
<1> QED
  BY <1>2, <1>3, TradeFields DEF m, t

\* their rates and totals,
LEMMA RatesOf ==
    ASSUME NEW a
    PROVE  LET m == Scores!Metrics(a)
               closes == Scores!Closes(a.trade_events)
               wins == Wins(closes)
               losses == Losers(closes)
               longs == Longs(closes)
               shorts == Shorts(closes)
           IN  /\ m.win_rate = Rate(Len(wins), Len(closes))
               /\ m.loss_rate = Rate(Len(losses), Len(closes))
               /\ m.breakeven_rate = Rate(Len(closes) - Len(wins) - Len(losses), Len(closes))
               /\ m.long_win_rate = Rate(Won(longs), Len(longs))
               /\ m.short_win_rate = Rate(Won(shorts), Len(shorts))
               /\ m.gross_profit_return = Sum(Nets(wins))
               /\ m.gross_loss_return = Sum(Nets(losses))
               /\ m.net_profit_return = Sum(Nets(closes))
               /\ m.profit_factor = Rate(Sum(Nets(wins)), -Sum(Nets(losses)))
               /\ m.payoff_ratio = IF wins = <<>> \/ losses = <<>> THEN NoValue
                    ELSE <<Sum(Nets(wins)) * Len(losses), -Sum(Nets(losses)) * Len(wins)>>
<1> DEFINE m == Scores!Metrics(a)
           t == Scores!TradeMetrics(a)
<1>1. \A x \in TradeNames : m[x] = t[x]
  BY GroupsOfMetrics
<1> HIDE DEF m, t
<1>2. /\ m.win_rate = t.win_rate
      /\ m.loss_rate = t.loss_rate
      /\ m.breakeven_rate = t.breakeven_rate
      /\ m.long_win_rate = t.long_win_rate
      /\ m.short_win_rate = t.short_win_rate
  BY <1>1 DEF TradeNames
<1>3. /\ m.gross_profit_return = t.gross_profit_return
      /\ m.gross_loss_return = t.gross_loss_return
      /\ m.net_profit_return = t.net_profit_return
      /\ m.profit_factor = t.profit_factor
      /\ m.payoff_ratio = t.payoff_ratio
  BY <1>1 DEF TradeNames
<1> QED
  BY <1>2, <1>3, TradeRates, Zenon DEF m, t

\* their means, medians and extremes,
LEMMA MeansOf ==
    ASSUME NEW a
    PROVE  LET m == Scores!Metrics(a)
               closes == Scores!Closes(a.trade_events)
               wins == Wins(closes)
               losses == Losers(closes)
               longs == Longs(closes)
               shorts == Shorts(closes)
           IN  /\ m.avg_trade_return = Fraction(Sum(Nets(closes)), closes)
               /\ m.avg_win_return = Fraction(Sum(Nets(wins)), wins)
               /\ m.avg_loss_return = Fraction(Sum(Nets(losses)), losses)
               /\ m.median_trade_return = Middle(Nets(closes), closes)
               /\ m.long_avg_trade_return = Fraction(Sum(Nets(longs)), longs)
               /\ m.short_avg_trade_return = Fraction(Sum(Nets(shorts)), shorts)
               /\ m.long_median_trade_return = Middle(Nets(longs), longs)
               /\ m.short_median_trade_return = Middle(Nets(shorts), shorts)
               /\ m.largest_win_return = Largest(Nets(wins), wins)
               /\ m.largest_loss_return = Smallest(Nets(losses), losses)
               /\ m.min_bars_held = Smallest(Held(closes), closes)
               /\ m.avg_bars_held = Fraction(Sum(Held(closes)), closes)
               /\ m.median_bars_held = Middle(Held(closes), closes)
               /\ m.max_bars_held = Largest(Held(closes), closes)
<1> DEFINE m == Scores!Metrics(a)
           t == Scores!TradeMetrics(a)
<1>1. \A x \in TradeNames : m[x] = t[x]
  BY GroupsOfMetrics
<1> HIDE DEF m, t
<1>2. /\ m.avg_trade_return = t.avg_trade_return
      /\ m.avg_win_return = t.avg_win_return
      /\ m.avg_loss_return = t.avg_loss_return
      /\ m.median_trade_return = t.median_trade_return
      /\ m.long_avg_trade_return = t.long_avg_trade_return
      /\ m.short_avg_trade_return = t.short_avg_trade_return
      /\ m.long_median_trade_return = t.long_median_trade_return
      /\ m.short_median_trade_return = t.short_median_trade_return
  BY <1>1 DEF TradeNames
<1>3. /\ m.largest_win_return = t.largest_win_return
      /\ m.largest_loss_return = t.largest_loss_return
      /\ m.min_bars_held = t.min_bars_held
      /\ m.avg_bars_held = t.avg_bars_held
      /\ m.median_bars_held = t.median_bars_held
      /\ m.max_bars_held = t.max_bars_held
  BY <1>1 DEF TradeNames
<1> QED
  BY <1>2, <1>3, TradeMeans, Zenon DEF m, t

\* what they cost,
LEMMA CostsOf ==
    ASSUME NEW a
    PROVE  LET m == Scores!Metrics(a)
               closes == Scores!Closes(a.trade_events)
               swap == Scores!Total(Scores!Itself, a.step_swap_costs)
           IN  /\ m.total_fee_return = FeeOf(a.trade_events)
               /\ m.total_swap_return = swap
               /\ m.total_cost_return = FeeOf(a.trade_events) + swap
               /\ m.avg_fee_per_trade_return = Fraction(Sum(PaidFees(closes)), closes)
               /\ m.avg_swap_per_trade_return = Fraction(Sum(Swaps(closes)), closes)
               /\ m.avg_cost_per_trade_return = Fraction(Sum(Costs(closes)), closes)
               /\ m.cumulative_shaped_reward = Scores!Total(Scores!Itself, a.shaped_rewards)
               /\ m.open_position_return_at_end = a.open_position_return_at_end
<1> DEFINE m == Scores!Metrics(a)
           t == Scores!CostMetrics(a)
<1>1. /\ \A x \in CostNames : m[x] = t[x]
      /\ m.cumulative_shaped_reward = Scores!Total(Scores!Itself, a.shaped_rewards)
      /\ m.open_position_return_at_end = a.open_position_return_at_end
  BY GroupsOfMetrics
<1> HIDE DEF m, t
<1>2. /\ m.total_fee_return = t.total_fee_return
      /\ m.total_swap_return = t.total_swap_return
      /\ m.total_cost_return = t.total_cost_return
      /\ m.avg_fee_per_trade_return = t.avg_fee_per_trade_return
      /\ m.avg_swap_per_trade_return = t.avg_swap_per_trade_return
      /\ m.avg_cost_per_trade_return = t.avg_cost_per_trade_return
  BY <1>1 DEF CostNames
<1> QED
  BY <1>1, <1>2, CostFields, Zenon DEF m, t

\* their streaks,
LEMMA StreaksOf ==
    ASSUME NEW a
    PROVE  LET m == Scores!Metrics(a)
               signs == Signs(Scores!Closes(a.trade_events))
           IN  /\ m.max_consecutive_wins = Scores!LongestStreak(signs, 1)
               /\ m.max_consecutive_losses = Scores!LongestStreak(signs, -1)
               /\ m.avg_win_streak = Scores!AverageStreak(signs, 1)
               /\ m.avg_loss_streak = Scores!AverageStreak(signs, -1)
               /\ m.current_streak_type = Scores!CurrentStreakType(signs)
               /\ m.current_streak = Scores!CurrentStreak(signs)
<1> DEFINE m == Scores!Metrics(a)
           t == Scores!StreakMetrics(a)
<1>1. \A x \in StreakNames : m[x] = t[x]
  BY GroupsOfMetrics
<1> HIDE DEF m, t
<1>2. /\ m.max_consecutive_wins = t.max_consecutive_wins
      /\ m.max_consecutive_losses = t.max_consecutive_losses
      /\ m.avg_win_streak = t.avg_win_streak
      /\ m.avg_loss_streak = t.avg_loss_streak
      /\ m.current_streak_type = t.current_streak_type
      /\ m.current_streak = t.current_streak
  BY <1>1 DEF StreakNames
<1> QED
  BY <1>2, StreakFields, Zenon DEF m, t

\* and the curves and the exposure.
LEMMA CurvesOf ==
    ASSUME NEW a
    PROVE  LET m == Scores!Metrics(a)
               steps == Len(a.agent_equity)
               p == a.positions
           IN  /\ m.agent_return = Scores!Last(a.agent_equity)
               /\ m.always_long_return = Scores!Last(a.always_long_equity)
               /\ m.always_short_return = Scores!Last(a.always_short_equity)
               /\ m.agent_vs_always_long_return
                    = Scores!Last(a.agent_equity) - Scores!Last(a.always_long_equity)
               /\ m.balanced_score = Scores!Last(a.agent_equity) + Scores!MaxDrawdown(a.agent_equity)
               /\ m.agent_max_drawdown = Scores!MaxDrawdown(a.agent_equity)
               /\ m.always_long_max_drawdown = Scores!MaxDrawdown(a.always_long_equity)
               /\ m.always_short_max_drawdown = Scores!MaxDrawdown(a.always_short_equity)
               /\ m.drawdown_improvement
                    = Scores!MaxDrawdown(a.agent_equity) - Scores!MaxDrawdown(a.always_long_equity)
               /\ m.net_exposure = <<Scores!Total(Scores!Itself, p), steps>>
               /\ m.long_exposure = <<Cardinality({k \in 1 .. steps : p[k] = 1}), steps>>
               /\ m.short_exposure = <<Cardinality({k \in 1 .. steps : p[k] = -1}), steps>>
               /\ m.flat_exposure = <<Cardinality({k \in 1 .. steps : p[k] = 0}), steps>>
               /\ m.market_exposure = <<Cardinality({k \in 1 .. steps : p[k] # 0}), steps>>
<1> DEFINE m == Scores!Metrics(a)
           t == Scores!CurveMetrics(a)
<1>1. \A x \in ScoreColumns : m[x] = t[x]
  BY GroupsOfMetrics
<1> HIDE DEF m, t
<1>2. /\ m.agent_return = t.agent_return
      /\ m.always_long_return = t.always_long_return
      /\ m.always_short_return = t.always_short_return
      /\ m.agent_vs_always_long_return = t.agent_vs_always_long_return
      /\ m.balanced_score = t.balanced_score
      /\ m.agent_max_drawdown = t.agent_max_drawdown
      /\ m.always_long_max_drawdown = t.always_long_max_drawdown
      /\ m.always_short_max_drawdown = t.always_short_max_drawdown
      /\ m.drawdown_improvement = t.drawdown_improvement
  BY <1>1 DEF ScoreColumns
<1>3. /\ m.net_exposure = t.net_exposure
      /\ m.long_exposure = t.long_exposure
      /\ m.short_exposure = t.short_exposure
      /\ m.flat_exposure = t.flat_exposure
      /\ m.market_exposure = t.market_exposure
  BY <1>1 DEF ScoreColumns
<1> QED
  BY <1>2, <1>3, CurveFields, Zenon DEF m, t

-----------------------------------------------------------------------------
(* The constraints of a completed row *)

\* What the metrics are computed from, when nothing went wrong.
Scorable(a) ==
    /\ \E S : a.trade_events \in Seq(S)
    /\ \E S : ClosedList(S, Scores!Closes(a.trade_events))
    /\ FeeOf(a.trade_events) \in Int
    /\ a.agent_equity # <<>>
    /\ a.agent_equity \in Seq(Int)
    /\ a.always_long_equity \in Seq(Int) /\ Len(a.always_long_equity) = Len(a.agent_equity)
    /\ a.always_short_equity \in Seq(Int) /\ Len(a.always_short_equity) = Len(a.agent_equity)
    /\ a.positions \in Seq(Positions) /\ Len(a.positions) = Len(a.agent_equity)
    /\ a.shaped_rewards \in Seq(Int) /\ Len(a.shaped_rewards) = Len(a.agent_equity)
    /\ a.step_swap_costs \in Seq(Nat) /\ Len(a.step_swap_costs) = Len(a.agent_equity)
    /\ a.step_swap_events \in Seq(Nat) /\ Len(a.step_swap_events) = Len(a.agent_equity)
    /\ a.open_position_return_at_end \in Int

\* The total of a list of integers.
LEMMA TotalIs ==
    ASSUME NEW s \in Seq(Int)
    PROVE  /\ Scores!Total(Scores!Itself, s) = Sum(s)
           /\ Sum(s) \in Int
           /\ s \in [1 .. Len(s) -> Int] /\ Len(s) \in Nat
<1>1. s \in [1 .. Len(s) -> Int] /\ Len(s) \in Nat
  OBVIOUS
<1>2. [k \in DOMAIN s |-> s[k]] = s
  BY <1>1
<1>3. Sum(s) \in Int
  BY <1>1, SumIsWhole
<1> QED
  BY <1>1, <1>2, <1>3, SumsOfMetrics, Zenon

\* The counts of a completed row are numbers that add up.
LEMMA CountsAreNatural ==
    ASSUME NEW a, Scorable(a)
    PROVE  LET m == Scores!Metrics(a)
           IN  /\ m.trade_events_total \in Nat
               /\ m.round_trips \in Nat
               /\ m.winning_trades \in Nat
               /\ m.losing_trades \in Nat
               /\ m.breakeven_trades \in Nat
               /\ m.long_round_trips \in Nat
               /\ m.short_round_trips \in Nat
               /\ m.open_long_count \in Nat
               /\ m.open_short_count \in Nat
               /\ m.close_long_count \in Nat
               /\ m.close_short_count \in Nat
               /\ m.swap_events \in Nat
               /\ m.round_trips = m.winning_trades + m.losing_trades + m.breakeven_trades
               /\ m.round_trips = m.long_round_trips + m.short_round_trips
<1> DEFINE m == Scores!Metrics(a)
           events == a.trade_events
           closes == Scores!Closes(events)
<1>1. PICK S : a.trade_events \in Seq(S)
  BY DEF Scorable
<1>2. PICK C : ClosedList(C, closes)
  BY DEF Scorable
<1>3. a.step_swap_events \in Seq(Nat)
  BY DEF Scorable
<1>4. /\ Len(closes) \in Nat /\ Len(Wins(closes)) \in Nat /\ Len(Losers(closes)) \in Nat
      /\ Len(Evens(closes)) \in Nat /\ Len(Longs(closes)) \in Nat /\ Len(Shorts(closes)) \in Nat
      /\ Len(closes) = Len(Wins(closes)) + Len(Losers(closes)) + Len(Evens(closes))
      /\ Len(closes) = Len(Longs(closes)) + Len(Shorts(closes))
  BY <1>2, CountsAddUp
<1>5. /\ Len(OpensOf(events, 1)) \in Nat /\ Len(OpensOf(events, -1)) \in Nat
      /\ Len(events) \in Nat
  <2> DEFINE opens == Scores!Opens(events)
             K == {k \in DOMAIN events : events[k].event = "OPEN"}
  <2>1. opens = Scores!At(events, K)
    BY DEF Scores!Opens, Scores!Kept
  <2>2. K \in SUBSET (DOMAIN events)
    OBVIOUS
  <2> HIDE DEF opens, K
  <2>3. opens \in Seq(S)
    BY <1>1, <2>1, <2>2, KeptIs
  <2>4. \A L \in SUBSET (DOMAIN opens) : Len(Scores!At(opens, L)) \in Nat
    BY <2>3, KeptIs
  <2>5. \A side : OpensOf(events, side)
                    = Scores!At(opens, {k \in DOMAIN opens : opens[k].position_after = side})
    BY DEF OpensOf, opens
  <2>6. \A side : {k \in DOMAIN opens : opens[k].position_after = side} \in SUBSET (DOMAIN opens)
    OBVIOUS
  <2>7. \A side : Len(OpensOf(events, side)) \in Nat
    BY <2>4, <2>5, <2>6
  <2> QED
    BY <1>1, <2>7
<1>6. Scores!Total(Scores!Itself, a.step_swap_events) \in Nat
  <2> DEFINE s == a.step_swap_events
             low == 0
  <2>1. s \in Seq(Int) /\ s \in [1 .. Len(s) -> Int] /\ Len(s) \in Nat
    BY <1>3
  <2>2. \A k \in 1 .. Len(s) : low <= s[k]
    BY <1>3
  <2>3. low \in Int /\ low * Len(s) = 0
    BY <2>1
  <2> HIDE DEF low, s
  <2>4. low * Len(s) <= Sum(s) /\ Sum(s) \in Int
    BY <2>1, <2>2, <2>3, LowSum
  <2>5. Sum(s) \in Nat
    BY <2>3, <2>4
  <2> QED
    BY <2>1, <2>5, TotalIs DEF s
<1> HIDE DEF m, closes, events
<1>7. /\ m.trade_events_total = Len(events)
      /\ m.round_trips = Len(closes)
      /\ m.winning_trades = Len(Wins(closes))
      /\ m.losing_trades = Len(Losers(closes))
      /\ m.breakeven_trades = Len(Evens(closes))
      /\ m.long_round_trips = Len(Longs(closes))
      /\ m.short_round_trips = Len(Shorts(closes))
      /\ m.open_long_count = Len(OpensOf(events, 1))
      /\ m.open_short_count = Len(OpensOf(events, -1))
      /\ m.close_long_count = Len(Longs(closes))
      /\ m.close_short_count = Len(Shorts(closes))
      /\ m.swap_events = Scores!Total(Scores!Itself, a.step_swap_events)
  BY CountsOf DEF m, closes, events
<1> QED
  BY <1>4, <1>5, <1>6, <1>7 DEF m

\* A mean of a list: null for an empty list only.
LEMMA FractionIs ==
    ASSUME NEW S, NEW s, ClosedList(S, s), NEW total \in Int
    PROVE  /\ Null(Fraction(total, s)) <=> Len(s) = 0
           /\ Len(s) # 0 => Fraction(total, s) = <<total, Len(s)>>
<1>1. Len(s) \in Nat /\ (s = <<>> <=> Len(s) = 0)
  BY NumbersOf
<1>2. <<total, Len(s)>> \in Int \X Int
  BY <1>1
<1> QED
  BY <1>1, <1>2, NullIs DEF Fraction

\* A rate is NULL when there is nothing to measure,
LEMMA RateIsNull ==
    ASSUME NEW part \in Int, NEW whole \in Int
    PROVE  /\ Null(Rate(part, whole)) <=> whole = 0
           /\ whole # 0 => Rate(part, whole) = <<part, whole>>
<1>1. <<part, whole>> \in Int \X Int
  OBVIOUS
<1> QED
  BY <1>1, NullIs DEF Rate

\* and so are a median and an extreme.
LEMMA MiddleIsNull ==
    ASSUME NEW S, NEW s, ClosedList(S, s)
    PROVE  /\ Null(Middle(Nets(s), s)) <=> Len(s) = 0
           /\ Null(Middle(Held(s), s)) <=> Len(s) = 0
           /\ Null(Smallest(Nets(s), s)) <=> Len(s) = 0
           /\ Null(Largest(Nets(s), s)) <=> Len(s) = 0
           /\ Null(Smallest(Held(s), s)) <=> Len(s) = 0
           /\ Null(Largest(Held(s), s)) <=> Len(s) = 0
<1>1. Len(s) \in Nat /\ (s = <<>> <=> Len(s) = 0)
      /\ Nets(s) \in [1 .. Len(s) -> Int] /\ Held(s) \in [1 .. Len(s) -> Int]
  BY NumbersOf
<1>2. Len(s) = 0 => /\ Middle(Nets(s), s) = NoValue /\ Middle(Held(s), s) = NoValue
                    /\ Smallest(Nets(s), s) = NoValue /\ Largest(Nets(s), s) = NoValue
                    /\ Smallest(Held(s), s) = NoValue /\ Largest(Held(s), s) = NoValue
  BY <1>1, Zenon DEF Middle, Smallest, Largest
<1>3. ASSUME Len(s) # 0, NEW f \in [1 .. Len(s) -> Int]
      PROVE  ~ Null(Middle(f, s)) /\ ~ Null(Smallest(f, s)) /\ ~ Null(Largest(f, s))
  <2> DEFINE n == Len(s)
             image == {f[k] : k \in DOMAIN f}
  <2>1. n \in Nat \ {0} /\ f \in [1 .. n -> Int] /\ s # <<>> /\ Len(s) = n
    BY <1>1, <1>3
  <2>2. \A y \in image : y \in Int
    BY <1>3
  <2> HIDE DEF n
  <2>3. \E x, y \in image : Middle(f, s) = <<x + y, 2>>
    BY <2>1, MiddleIs
  <2>4. Smallest(f, s) \in image /\ Largest(f, s) \in image
    BY <2>1, EndsOfList
  <2> HIDE DEF image
  <2>5. PICK x \in image, y \in image : Middle(f, s) = <<x + y, 2>>
    BY <2>3
  <2>6. <<x + y, 2>> \in Int \X Int /\ Smallest(f, s) \in Int /\ Largest(f, s) \in Int
    BY <2>2, <2>4
  <2> QED
    BY <2>5, <2>6, NullIs
<1> QED
  BY <1>1, <1>2, <1>3, NullIs

\* round_trip_metric_nullability: the means of all the trades.
LEMMA RoundTripsAreNullable ==
    ASSUME NEW a, Scorable(a)
    PROVE  RoundTripNullability(Scores!Metrics(a))
<1> DEFINE m == Scores!Metrics(a)
           s == Scores!Closes(a.trade_events)
<1>1. PICK C : ClosedList(C, s)
  BY DEF Scorable
<1>2. /\ m.win_rate = Rate(Len(Wins(s)), Len(s))
      /\ m.loss_rate = Rate(Len(Losers(s)), Len(s))
      /\ m.breakeven_rate = Rate(Len(s) - Len(Wins(s)) - Len(Losers(s)), Len(s))
  BY RatesOf
<1>3. /\ m.avg_trade_return = Fraction(Sum(Nets(s)), s)
      /\ m.median_trade_return = Middle(Nets(s), s)
      /\ m.min_bars_held = Smallest(Held(s), s)
      /\ m.avg_bars_held = Fraction(Sum(Held(s)), s)
      /\ m.median_bars_held = Middle(Held(s), s)
      /\ m.max_bars_held = Largest(Held(s), s)
  BY MeansOf
<1>4. /\ m.avg_fee_per_trade_return = Fraction(Sum(PaidFees(s)), s)
      /\ m.avg_swap_per_trade_return = Fraction(Sum(Swaps(s)), s)
      /\ m.avg_cost_per_trade_return = Fraction(Sum(Costs(s)), s)
  BY CostsOf
<1>5. m.round_trips = Len(s)
  BY CountsOf
<1> HIDE DEF m, s
<1>6. /\ Len(s) \in Nat /\ Len(Wins(s)) \in Nat /\ Len(Losers(s)) \in Nat
  BY <1>1, CountsAddUp
<1>7. /\ Sum(Nets(s)) \in Int /\ Sum(Held(s)) \in Int /\ Sum(PaidFees(s)) \in Int
      /\ Sum(Swaps(s)) \in Int /\ Sum(Costs(s)) \in Int
  BY <1>1, NumbersOf, SumIsWhole
<1>8. /\ Null(m.win_rate) <=> m.round_trips = 0
      /\ Null(m.loss_rate) <=> m.round_trips = 0
      /\ Null(m.breakeven_rate) <=> m.round_trips = 0
  <2>1. Len(s) - Len(Wins(s)) - Len(Losers(s)) \in Int /\ Len(s) \in Int
        /\ Len(Wins(s)) \in Int /\ Len(Losers(s)) \in Int
    BY <1>6
  <2> QED
    BY <1>2, <1>5, <2>1, RateIsNull
<1>9. /\ Null(m.avg_trade_return) <=> m.round_trips = 0
      /\ Null(m.avg_bars_held) <=> m.round_trips = 0
      /\ Null(m.avg_fee_per_trade_return) <=> m.round_trips = 0
      /\ Null(m.avg_swap_per_trade_return) <=> m.round_trips = 0
      /\ Null(m.avg_cost_per_trade_return) <=> m.round_trips = 0
  BY <1>1, <1>3, <1>4, <1>5, <1>7, FractionIs
<1>10. /\ Null(m.median_trade_return) <=> m.round_trips = 0
       /\ Null(m.median_bars_held) <=> m.round_trips = 0
       /\ Null(m.min_bars_held) <=> m.round_trips = 0
       /\ Null(m.max_bars_held) <=> m.round_trips = 0
  BY <1>1, <1>3, <1>5, MiddleIsNull
<1>11. RoundTripNullability(m)
  BY <1>8, <1>9, <1>10 DEF RoundTripNullability, SetTogether
<1> QED
  BY <1>11 DEF m

\* The trades of one side.
LEMMA SidesAreClosed ==
    ASSUME NEW S, NEW s, ClosedList(S, s)
    PROVE  ClosedList(S, Longs(s)) /\ ClosedList(S, Shorts(s))
<1>1. {k \in DOMAIN s : s[k].position_before = 1} \in SUBSET (DOMAIN s)
      /\ {k \in DOMAIN s : s[k].position_before = -1} \in SUBSET (DOMAIN s)
  OBVIOUS
<1> QED
  BY <1>1, PartIsClosed DEF Longs, Shorts

\* No more trades won than there are.
LEMMA WonIs ==
    ASSUME NEW S, NEW s, ClosedList(S, s)
    PROVE  Won(s) \in Nat /\ Won(s) <= Len(s)
<1> DEFINE K == {k \in DOMAIN s : s[k].net_return > 0}
<1>1. s \in Seq(S) /\ K \in SUBSET (DOMAIN s)
  BY DEF ClosedList
<1>2. Won(s) = Cardinality(K)
  BY SameCount DEF Won
<1> HIDE DEF K
<1>3. Len(Scores!At(s, K)) = Cardinality(K) /\ Len(Scores!At(s, K)) \in Nat
      /\ Len(Scores!At(s, K)) <= Len(s)
  BY <1>1, KeptIs
<1> QED
  BY <1>2, <1>3

\* long_metric_nullability and short_metric_nullability: the means of a side.
LEMMA SidesAreNullable ==
    ASSUME NEW a, Scorable(a)
    PROVE  SideNullability(Scores!Metrics(a))
<1> DEFINE m == Scores!Metrics(a)
           s == Scores!Closes(a.trade_events)
           l == Longs(s)
           r == Shorts(s)
<1>1. PICK C : ClosedList(C, s)
  BY DEF Scorable
<1>2. ClosedList(C, l) /\ ClosedList(C, r)
  BY <1>1, SidesAreClosed
<1>3. /\ m.long_win_rate = Rate(Won(l), Len(l))
      /\ m.short_win_rate = Rate(Won(r), Len(r))
  BY RatesOf
<1>4. /\ m.long_avg_trade_return = Fraction(Sum(Nets(l)), l)
      /\ m.short_avg_trade_return = Fraction(Sum(Nets(r)), r)
      /\ m.long_median_trade_return = Middle(Nets(l), l)
      /\ m.short_median_trade_return = Middle(Nets(r), r)
  BY MeansOf
<1>5. m.long_round_trips = Len(l) /\ m.short_round_trips = Len(r)
  BY CountsOf
<1> HIDE DEF m, s, l, r
<1>6. /\ Sum(Nets(l)) \in Int /\ Sum(Nets(r)) \in Int
      /\ Len(l) \in Int /\ Len(r) \in Int /\ Won(l) \in Int /\ Won(r) \in Int
  <2>1. /\ Len(l) \in Nat /\ Nets(l) \in [1 .. Len(l) -> Int]
        /\ Len(r) \in Nat /\ Nets(r) \in [1 .. Len(r) -> Int]
    BY <1>2, NumbersOf
  <2>2. Won(l) \in Nat /\ Won(r) \in Nat
    BY <1>2, WonIs
  <2> QED
    BY <2>1, <2>2, SumIsWhole
<1>7. /\ Null(m.long_win_rate) <=> m.long_round_trips = 0
      /\ Null(m.short_win_rate) <=> m.short_round_trips = 0
  BY <1>3, <1>5, <1>6, RateIsNull
<1>8. /\ Null(m.long_avg_trade_return) <=> m.long_round_trips = 0
      /\ Null(m.short_avg_trade_return) <=> m.short_round_trips = 0
  BY <1>2, <1>4, <1>5, <1>6, FractionIs
<1>9. /\ Null(m.long_median_trade_return) <=> m.long_round_trips = 0
      /\ Null(m.short_median_trade_return) <=> m.short_round_trips = 0
  BY <1>2, <1>4, <1>5, MiddleIsNull
<1>10. SideNullability(m)
  BY <1>7, <1>8, <1>9 DEF SideNullability, SetTogether
<1> QED
  BY <1>10 DEF m

\* The nullability of the means of wins and losses, and of their ratios.
LEMMA WinsAndLossesAreNullable ==
    ASSUME NEW a, Scorable(a)
    PROVE  WinLossNullability(Scores!Metrics(a))
<1> DEFINE m == Scores!Metrics(a)
           s == Scores!Closes(a.trade_events)
           w == Wins(s)
           l == Losers(s)
           g == Signs(s)
<1>1. PICK C : ClosedList(C, s)
  BY DEF Scorable
<1>2. /\ ClosedList(C, w) /\ ClosedList(C, l)
      /\ Sum(Nets(w)) \in Int /\ Sum(Nets(w)) >= Len(w)
      /\ Sum(Nets(l)) \in Int /\ Sum(Nets(l)) <= - Len(l)
  BY <1>1, GainsAndLosses
<1>3. /\ m.profit_factor = Rate(Sum(Nets(w)), -Sum(Nets(l)))
      /\ m.gross_loss_return = Sum(Nets(l))
      /\ m.payoff_ratio = IF w = <<>> \/ l = <<>> THEN NoValue
              ELSE <<Sum(Nets(w)) * Len(l), -Sum(Nets(l)) * Len(w)>>
  BY RatesOf
<1>4. /\ m.avg_win_return = Fraction(Sum(Nets(w)), w)
      /\ m.avg_loss_return = Fraction(Sum(Nets(l)), l)
      /\ m.largest_win_return = Largest(Nets(w), w)
      /\ m.largest_loss_return = Smallest(Nets(l), l)
  BY MeansOf
<1>5. m.winning_trades = Len(w) /\ m.losing_trades = Len(l)
  BY CountsOf
<1>6. /\ m.max_consecutive_wins = Scores!LongestStreak(g, 1)
      /\ m.max_consecutive_losses = Scores!LongestStreak(g, -1)
      /\ m.avg_win_streak = Scores!AverageStreak(g, 1)
      /\ m.avg_loss_streak = Scores!AverageStreak(g, -1)
  BY StreaksOf
<1>7. /\ Len(s) \in Nat /\ g \in [1 .. Len(s) -> {-1, 0, 1}]
      /\ HasSign(g, 1) <=> Len(w) # 0
      /\ HasSign(g, -1) <=> Len(l) # 0
  BY <1>1, SignsOf
<1> HIDE DEF m, s, w, l, g
<1>8. /\ Len(w) \in Nat /\ (w = <<>> <=> Len(w) = 0)
      /\ Len(l) \in Nat /\ (l = <<>> <=> Len(l) = 0)
  BY <1>2, NumbersOf
<1>9. /\ Null(m.avg_win_return) <=> m.winning_trades = 0
      /\ Null(m.avg_loss_return) <=> m.losing_trades = 0
  BY <1>2, <1>4, <1>5, FractionIs
<1>10. /\ Null(m.largest_win_return) <=> m.winning_trades = 0
       /\ Null(m.largest_loss_return) <=> m.losing_trades = 0
  BY <1>2, <1>4, <1>5, MiddleIsNull
<1>11. g \in [1 .. Len(s) -> Int]
  BY <1>7
<1>12. /\ Scores!LongestStreak(g, 1) \in Nat
       /\ Len(w) # 0 <=> Scores!LongestStreak(g, 1) # 0
       /\ Len(w) # 0 => Scores!AverageStreak(g, 1) \in Int \X Int
       /\ Len(w) = 0 => Scores!AverageStreak(g, 1) = NoValue
  BY <1>7, <1>11, StreaksOfSign
<1>13. /\ Scores!LongestStreak(g, -1) \in Nat
       /\ Len(l) # 0 <=> Scores!LongestStreak(g, -1) # 0
       /\ Len(l) # 0 => Scores!AverageStreak(g, -1) \in Int \X Int
       /\ Len(l) = 0 => Scores!AverageStreak(g, -1) = NoValue
  <2> DEFINE t == -1
  <2>1. t \in Int
    OBVIOUS
  <2>2. HasSign(g, t) <=> Len(l) # 0
    BY <1>7
  <2> HIDE DEF t
  <2>3. /\ Scores!LongestStreak(g, t) \in Nat
        /\ Len(l) # 0 <=> Scores!LongestStreak(g, t) # 0
        /\ Len(l) # 0 => Scores!AverageStreak(g, t) \in Int \X Int
        /\ Len(l) = 0 => Scores!AverageStreak(g, t) = NoValue
    BY <1>7, <1>11, <2>1, <2>2, StreaksOfSign
  <2> QED
    BY <2>3 DEF t
<1>14. /\ Null(m.avg_win_streak) <=> m.winning_trades = 0
       /\ Null(m.avg_loss_streak) <=> m.losing_trades = 0
       /\ m.winning_trades = 0 <=> m.max_consecutive_wins = 0
       /\ m.losing_trades = 0 <=> m.max_consecutive_losses = 0
  BY <1>5, <1>6, <1>12, <1>13, NullIs
<1>15. Null(m.profit_factor) <=> m.losing_trades = 0
  <2> DEFINE p == Sum(Nets(w))
             q == - Sum(Nets(l))
  <2>1. p \in Int /\ q \in Int /\ q >= Len(l)
    BY <1>2, <1>8
  <2>2. Len(l) = 0 => q = 0
    <3>1. Len(l) = 0 => Nets(l) = <<>>
      <4>1. Nets(l) \in [1 .. Len(l) -> Int]
        BY <1>2, NumbersOf
      <4> QED
        BY <4>1
    <3> QED
      BY <3>1, NoSum
  <2>3. q = 0 <=> Len(l) = 0
    <3> HIDE DEF q
    <3> QED
      BY <1>8, <2>1, <2>2
  <2>4. m.profit_factor = Rate(p, q)
    BY <1>3
  <2> HIDE DEF p, q
  <2> QED
    BY <1>5, <2>1, <2>3, <2>4, RateIsNull
<1>16. Null(m.payoff_ratio) <=> m.winning_trades = 0 \/ m.losing_trades = 0
  <2> DEFINE p == Sum(Nets(w)) * Len(l)
             q == - Sum(Nets(l)) * Len(w)
  <2>1. p \in Int /\ q \in Int
    BY <1>2, <1>8
  <2> HIDE DEF p, q
  <2>2. <<p, q>> \in Int \X Int
    BY <2>1
  <2>3. m.payoff_ratio = IF w = <<>> \/ l = <<>> THEN NoValue ELSE <<p, q>>
    BY <1>3 DEF p, q
  <2> QED
    BY <1>5, <1>8, <2>2, <2>3, NullIs
<1>17. WinLossNullability(m)
  BY <1>9, <1>10, <1>14, <1>15, <1>16 DEF WinLossNullability, SetTogether
<1> QED
  BY <1>17 DEF m

\* holding_period_order: the holding periods.
LEMMA HoldingPeriodsAreOrdered ==
    ASSUME NEW a, Scorable(a)
    PROVE  /\ HoldingPeriodOrder(Scores!Metrics(a))
           /\ StreakConsistency(Scores!Metrics(a))
           /\ Scores!Metrics(a).current_streak \in Nat
           /\ Scores!Metrics(a).current_streak_type \in StreakTypes
<1> DEFINE m == Scores!Metrics(a)
           s == Scores!Closes(a.trade_events)
           g == Signs(s)
<1>1. PICK C : ClosedList(C, s)
  BY DEF Scorable
<1>2. /\ m.min_bars_held = Smallest(Held(s), s)
      /\ m.avg_bars_held = Fraction(Sum(Held(s)), s)
      /\ m.median_bars_held = Middle(Held(s), s)
      /\ m.max_bars_held = Largest(Held(s), s)
  BY MeansOf
<1>3. m.round_trips = Len(s)
  BY CountsOf
<1>4. /\ m.current_streak_type = Scores!CurrentStreakType(g)
      /\ m.current_streak = Scores!CurrentStreak(g)
  BY StreaksOf
<1>5. /\ Len(s) \in Nat /\ g \in [1 .. Len(s) -> {-1, 0, 1}] /\ (Len(s) = 0 => g = <<>>)
  BY <1>1, SignsOf
<1> HIDE DEF m, s, g
<1>6. HoldingPeriodOrder(m)
  BY <1>1, <1>2, <1>3, HeldBetween DEF HoldingPeriodOrder
<1>7. CASE Len(s) = 0
  <2>1. m.current_streak_type = "none" /\ m.current_streak = 0
    BY <1>4, <1>5, <1>7 DEF Scores!CurrentStreakType, Scores!CurrentStreak
  <2>2. "none" \in StreakTypes
    BY DEF StreakTypes
  <2> QED
    BY <1>3, <1>6, <1>7, <2>1, <2>2 DEF StreakConsistency, m
<1>8. CASE Len(s) # 0
  <2>1. Len(s) \in Nat \ {0}
    BY <1>5, <1>8
  <2>2. /\ m.current_streak_type \in StreakTypes \ {"none"}
        /\ m.current_streak \in Int /\ m.current_streak >= 1
    BY <1>4, <1>5, <2>1, LastStreak
  <2>3. StreakConsistency(m)
    BY <1>3, <1>8, <2>2 DEF StreakConsistency
  <2> QED
    BY <1>6, <2>2, <2>3 DEF m
<1> QED
  BY <1>7, <1>8

-----------------------------------------------------------------------------
(* The ranges of the metrics *)

\* A curve never rises above its own peak.
LEMMA NeverAbovePeak ==
    ASSUME NEW s \in Seq(Int), s # <<>>
    PROVE  /\ Scores!MaxDrawdown(s) \in Int /\ Scores!MaxDrawdown(s) <= 0
           /\ Scores!Last(s) \in Int
<1> DEFINE n == Len(s)
           falls == {Fall(s, k) : k \in 1 .. n}
           f == [k \in 1 .. n |-> Fall(s, k)]
<1>1. n \in Nat \ {0} /\ \A k \in 1 .. n : s[k] \in Int
  OBVIOUS
<1>2. \A k \in 1 .. n : Fall(s, k) \in Nat
  <2> TAKE k \in 1 .. n
  <2>1. k \in Nat /\ \A i \in 1 .. k : s[i] \in Int
    BY <1>1
  <2>2. Peak(s, k) \in Int /\ s[k] <= Peak(s, k) /\ s[k] \in Int
    <3>1. k \in 1 .. k
      OBVIOUS
    <3> QED
      BY <2>1, <3>1, PeakIs
  <2> QED
    BY <2>2 DEF Fall
<1>3. Max(falls) \in falls
  <2> HIDE DEF n
  <2>1. f \in [1 .. n -> Int] /\ n \in Nat \ {0}
    BY <1>1, <1>2
  <2>2. {f[k] : k \in DOMAIN f} = falls
    OBVIOUS
  <2> HIDE DEF f, falls
  <2>3. Max({f[k] : k \in DOMAIN f}) \in {f[k] : k \in DOMAIN f}
    BY <2>1, ExtremesOfList
  <2> QED
    BY <2>2, <2>3
<1>4. Max(falls) \in Nat
  BY <1>2, <1>3
<1>5. Scores!MaxDrawdown(s) = - Max(falls)
  BY DrawdownIs
<1>6. Scores!Last(s) = s[n]
  BY DEF Scores!Last
<1>7. n \in 1 .. n
  BY <1>1
<1> HIDE DEF falls, n
<1> QED
  BY <1>1, <1>4, <1>5, <1>6, <1>7

\* The curves, the exposures and the sums of a well-formed evaluation.
LEMMA CurvesAreNumbers ==
    ASSUME NEW a, Scorable(a)
    PROVE  LET m == Scores!Metrics(a)
           IN  /\ m.agent_return \in Int /\ m.always_long_return \in Int
               /\ m.always_short_return \in Int /\ m.agent_vs_always_long_return \in Int
               /\ m.balanced_score \in Int /\ m.drawdown_improvement \in Int
               /\ m.agent_max_drawdown \in Int /\ m.agent_max_drawdown <= 0
               /\ m.always_long_max_drawdown \in Int /\ m.always_long_max_drawdown <= 0
               /\ m.always_short_max_drawdown \in Int /\ m.always_short_max_drawdown <= 0
<1> DEFINE m == Scores!Metrics(a)
           e == a.agent_equity
           l == a.always_long_equity
           s == a.always_short_equity
<1>1. e \in Seq(Int) /\ e # <<>> /\ l \in Seq(Int) /\ s \in Seq(Int)
      /\ Len(l) = Len(e) /\ Len(s) = Len(e)
  BY DEF Scorable
<1>2. l # <<>> /\ s # <<>>
  BY <1>1
<1>3. /\ m.agent_return = Scores!Last(e)
      /\ m.always_long_return = Scores!Last(l)
      /\ m.always_short_return = Scores!Last(s)
      /\ m.agent_vs_always_long_return = Scores!Last(e) - Scores!Last(l)
      /\ m.balanced_score = Scores!Last(e) + Scores!MaxDrawdown(e)
      /\ m.agent_max_drawdown = Scores!MaxDrawdown(e)
      /\ m.always_long_max_drawdown = Scores!MaxDrawdown(l)
      /\ m.always_short_max_drawdown = Scores!MaxDrawdown(s)
      /\ m.drawdown_improvement = Scores!MaxDrawdown(e) - Scores!MaxDrawdown(l)
  BY CurvesOf
<1> HIDE DEF m, e, l, s
<1>4. \A c \in {e, l, s} : /\ Scores!MaxDrawdown(c) \in Int /\ Scores!MaxDrawdown(c) <= 0
                           /\ Scores!Last(c) \in Int
  BY <1>1, <1>2, NeverAbovePeak
<1> QED
  BY <1>3, <1>4 DEF m

\* A share of the steps.
LEMMA ShareIs ==
    ASSUME NEW part \in Nat, NEW whole \in Nat, part <= whole
    PROVE  Between(<<part, whole>>, 0, 1)
<1>1. 0 * whole <= part * 1 /\ part * 1 <= 1 * whole
  OBVIOUS
<1>2. AtMost(Whole(0), <<part, whole>>) <=> 0 * whole <= part * 1
  BY Zenon DEF AtMost, Whole
<1>3. AtMost(<<part, whole>>, Whole(1)) <=> part * 1 <= 1 * whole
  BY Zenon DEF AtMost, Whole
<1> QED
  BY <1>1, <1>2, <1>3 DEF Between, NullOr

\* NULL passes every range.
LEMMA NoneIsBetween == ASSUME NEW low, NEW high PROVE Between(NoValue, low, high)
BY DEF Between, NullOr, Null

\* A rate of a part is between 0 and 1,
LEMMA RateIsShare ==
    ASSUME NEW part \in Nat, NEW whole \in Nat, part <= whole
    PROVE  Between(Rate(part, whole), 0, 1)
BY ShareIs, NoneIsBetween DEF Rate

\* and so is every exposure; the net one is between -1 and 1.
LEMMA ExposuresAreShares ==
    ASSUME NEW a, Scorable(a)
    PROVE  LET m == Scores!Metrics(a)
           IN  /\ Between(m.net_exposure, -1, 1) /\ m.net_exposure \in Int \X Int
               /\ Between(m.long_exposure, 0, 1) /\ m.long_exposure \in Int \X Int
               /\ Between(m.short_exposure, 0, 1) /\ m.short_exposure \in Int \X Int
               /\ Between(m.flat_exposure, 0, 1) /\ m.flat_exposure \in Int \X Int
               /\ Between(m.market_exposure, 0, 1) /\ m.market_exposure \in Int \X Int
<1> DEFINE m == Scores!Metrics(a)
           n == Len(a.agent_equity)
           p == a.positions
           L == {k \in 1 .. n : p[k] = 1}
           S == {k \in 1 .. n : p[k] = -1}
           F == {k \in 1 .. n : p[k] = 0}
           M == {k \in 1 .. n : p[k] # 0}
<1>1. p \in Seq(Positions) /\ Len(p) = n /\ n \in Nat
  BY DEF Scorable
<1>2. /\ m.net_exposure = <<Scores!Total(Scores!Itself, p), n>>
      /\ m.long_exposure = <<Cardinality(L), n>>
      /\ m.short_exposure = <<Cardinality(S), n>>
      /\ m.flat_exposure = <<Cardinality(F), n>>
      /\ m.market_exposure = <<Cardinality(M), n>>
  BY CurvesOf
<1> HIDE DEF m, n, p
<1>3. \A K \in SUBSET (1 .. n) : Cardinality(K) \in Nat /\ Cardinality(K) <= n
  <2>1. IsFiniteSet(1 .. n) /\ Cardinality(1 .. n) = n
    BY <1>1, FS_Interval
  <2> QED
    BY <2>1, FS_Subset, FS_CardinalityType
<1>4. L \in SUBSET (1 .. n) /\ S \in SUBSET (1 .. n) /\ F \in SUBSET (1 .. n)
      /\ M \in SUBSET (1 .. n)
  OBVIOUS
<1> HIDE DEF L, S, F, M
<1>5. ASSUME NEW K \in SUBSET (1 .. n)
      PROVE  Between(<<Cardinality(K), n>>, 0, 1) /\ <<Cardinality(K), n>> \in Int \X Int
  <2> DEFINE c == Cardinality(K)
  <2>1. c \in Nat /\ c <= n
    BY <1>3
  <2> HIDE DEF c
  <2>2. Between(<<c, n>>, 0, 1) /\ <<c, n>> \in Int \X Int
    BY <1>1, <2>1, ShareIs
  <2> QED
    BY <2>2 DEF c
<1>6. Between(m.net_exposure, -1, 1) /\ m.net_exposure \in Int \X Int
  <2> DEFINE sum == Sum(p)
             low == -1
             high == 1
  <2>1. p \in [1 .. n -> Int] /\ p \in Seq(Int) /\ \A k \in 1 .. n : low <= p[k] /\ p[k] <= high
    BY <1>1 DEF Positions
  <2>2. low \in Int /\ high \in Int /\ low * n = - n /\ high * n = n
    BY <1>1
  <2> HIDE DEF low, high
  <2>3. low * n <= Sum(p) /\ Sum(p) <= high * n /\ Sum(p) \in Int
    BY <1>1, <2>1, <2>2, LowSum, HighSum
  <2>4. - n <= sum /\ sum <= n /\ sum \in Int
    BY <2>2, <2>3
  <2>5. m.net_exposure = <<sum, n>>
    BY <1>2, <2>1, TotalIs
  <2> HIDE DEF sum
  <2>6. (-1) * n <= sum * 1 /\ sum * 1 <= 1 * n
    BY <1>1, <2>4
  <2>7. AtMost(Whole(-1), <<sum, n>>) <=> (-1) * n <= sum * 1
    BY Zenon DEF AtMost, Whole
  <2>8. AtMost(<<sum, n>>, Whole(1)) <=> sum * 1 <= 1 * n
    BY Zenon DEF AtMost, Whole
  <2>9. Between(<<sum, n>>, -1, 1) /\ <<sum, n>> \in Int \X Int
    BY <1>1, <2>4, <2>6, <2>7, <2>8 DEF Between, NullOr
  <2> QED
    BY <2>5, <2>9
<1> QED
  BY <1>2, <1>4, <1>5, <1>6 DEF m

\* What the closed trades gained and lost.
LEMMA GainsInRange ==
    ASSUME NEW a, Scorable(a)
    PROVE  LET m == Scores!Metrics(a)
           IN  /\ m.gross_profit_return \in Int /\ m.gross_profit_return >= 0
               /\ m.gross_loss_return \in Int /\ m.gross_loss_return <= 0
               /\ m.net_profit_return \in Int
               /\ NullOr(m.avg_win_return, LAMBDA q : q[1] > 0)
               /\ NullOr(m.avg_loss_return, LAMBDA q : q[1] < 0)
               /\ NullOr(m.largest_win_return, LAMBDA n : n > 0)
               /\ NullOr(m.largest_loss_return, LAMBDA n : n < 0)
               /\ NullOr(m.profit_factor, LAMBDA q : q[1] >= 0)
               /\ NullOr(m.payoff_ratio, LAMBDA q : q[1] >= 0)
<1> DEFINE m == Scores!Metrics(a)
           s == Scores!Closes(a.trade_events)
           w == Wins(s)
           l == Losers(s)
<1>1. PICK C : ClosedList(C, s)
  BY DEF Scorable
<1>2. /\ ClosedList(C, w) /\ ClosedList(C, l)
      /\ \A k \in 1 .. Len(w) : Nets(w)[k] >= 1
      /\ \A k \in 1 .. Len(l) : Nets(l)[k] <= -1
      /\ Sum(Nets(w)) \in Int /\ Sum(Nets(w)) >= Len(w)
      /\ Sum(Nets(l)) \in Int /\ Sum(Nets(l)) <= - Len(l)
  BY <1>1, GainsAndLosses
<1>3. /\ m.profit_factor = Rate(Sum(Nets(w)), -Sum(Nets(l)))
      /\ m.gross_profit_return = Sum(Nets(w))
      /\ m.gross_loss_return = Sum(Nets(l))
      /\ m.net_profit_return = Sum(Nets(s))
      /\ m.payoff_ratio = IF w = <<>> \/ l = <<>> THEN NoValue
              ELSE <<Sum(Nets(w)) * Len(l), -Sum(Nets(l)) * Len(w)>>
  BY RatesOf
<1>4. /\ m.avg_win_return = Fraction(Sum(Nets(w)), w)
      /\ m.avg_loss_return = Fraction(Sum(Nets(l)), l)
      /\ m.largest_win_return = Largest(Nets(w), w)
      /\ m.largest_loss_return = Smallest(Nets(l), l)
  BY MeansOf
<1> HIDE DEF m, s, w, l
<1>5. /\ Len(w) \in Nat /\ (w = <<>> <=> Len(w) = 0) /\ Nets(w) \in [1 .. Len(w) -> Int]
      /\ Len(l) \in Nat /\ (l = <<>> <=> Len(l) = 0) /\ Nets(l) \in [1 .. Len(l) -> Int]
  BY <1>2, NumbersOf
<1>6. Sum(Nets(s)) \in Int
  BY <1>1, NumbersOf, SumIsWhole
<1> DEFINE p == Sum(Nets(w))
           q == Sum(Nets(l))
           nw == Len(w)
           nl == Len(l)
<1>7. p \in Int /\ q \in Int /\ nw \in Nat /\ nl \in Nat /\ p >= nw /\ q <= - nl
  BY <1>2, <1>5
<1>8. /\ m.profit_factor = Rate(p, -q)
      /\ m.payoff_ratio = IF nw = 0 \/ nl = 0 THEN NoValue ELSE <<p * nl, -q * nw>>
      /\ m.avg_win_return = IF nw = 0 THEN NoValue ELSE <<p, nw>>
      /\ m.avg_loss_return = IF nl = 0 THEN NoValue ELSE <<q, nl>>
      /\ m.gross_profit_return = p /\ m.gross_loss_return = q
  BY <1>3, <1>4, <1>5 DEF Fraction
<1>9. NullOr(m.largest_win_return, LAMBDA n : n > 0)
  <2>1. CASE w = <<>>
    BY <1>4, <2>1 DEF Largest, NullOr, Null
  <2>2. CASE w # <<>>
    <3> DEFINE f == Nets(w)
               n == Len(w)
    <3>1. n \in Nat \ {0} /\ f \in [1 .. n -> Int] /\ \A k \in 1 .. n : f[k] >= 1
      BY <1>2, <1>5, <2>2
    <3> HIDE DEF f, n
    <3>2. Largest(f, w) \in {f[k] : k \in DOMAIN f}
      BY <2>2, <3>1, EndsOfList
    <3>3. Largest(f, w) > 0
      BY <3>1, <3>2
    <3> QED
      BY <1>4, <3>3 DEF NullOr, f
  <2> QED
    BY <2>1, <2>2
<1>10. NullOr(m.largest_loss_return, LAMBDA n : n < 0)
  <2>1. CASE l = <<>>
    BY <1>4, <2>1 DEF Smallest, NullOr, Null
  <2>2. CASE l # <<>>
    <3> DEFINE f == Nets(l)
               n == Len(l)
    <3>1. n \in Nat \ {0} /\ f \in [1 .. n -> Int] /\ \A k \in 1 .. n : f[k] <= -1
      BY <1>2, <1>5, <2>2
    <3> HIDE DEF f, n
    <3>2. Smallest(f, l) \in {f[k] : k \in DOMAIN f}
      BY <2>2, <3>1, EndsOfList
    <3>3. Smallest(f, l) < 0
      BY <3>1, <3>2
    <3> QED
      BY <1>4, <3>3 DEF NullOr, f
  <2> QED
    BY <2>1, <2>2
<1> HIDE DEF p, q, nw, nl
<1>11. /\ NullOr(m.avg_win_return, LAMBDA x : x[1] > 0)
       /\ NullOr(m.avg_loss_return, LAMBDA x : x[1] < 0)
  <2>2. nw # 0 => p > 0
    BY <1>7
  <2>3. nl # 0 => q < 0
    BY <1>7
  <2>4. NullOr(m.avg_win_return, LAMBDA x : x[1] > 0)
    BY <1>8, <2>2 DEF NullOr, Null
  <2>5. NullOr(m.avg_loss_return, LAMBDA x : x[1] < 0)
    BY <1>8, <2>3 DEF NullOr, Null
  <2> QED
    BY <2>4, <2>5
<1>12. NullOr(m.profit_factor, LAMBDA x : x[1] >= 0)
  <2>1. p >= 0
    BY <1>7
  <2> QED
    BY <1>8, <2>1 DEF NullOr, Null, Rate
<1>13. NullOr(m.payoff_ratio, LAMBDA x : x[1] >= 0)
  <2>1. p * nl >= 0
    <3>1. p \in Nat
      BY <1>7
    <3> QED
      BY <1>7, <3>1
  <2> QED
    BY <1>8, <2>1 DEF NullOr, Null
<1>14. p >= 0 /\ q <= 0
  BY <1>7
<1> QED
  BY <1>3, <1>6, <1>7, <1>8, <1>9, <1>10, <1>11, <1>12, <1>13, <1>14 DEF m

\* The rates of a well-formed evaluation.
LEMMA RatesInRange ==
    ASSUME NEW a, Scorable(a)
    PROVE  LET m == Scores!Metrics(a)
           IN  /\ Between(m.win_rate, 0, 1) /\ Between(m.loss_rate, 0, 1)
               /\ Between(m.breakeven_rate, 0, 1)
               /\ Between(m.long_win_rate, 0, 1) /\ Between(m.short_win_rate, 0, 1)
               /\ NullOr(m.trade_event_rate, LAMBDA q : q[1] >= 0)
               /\ NullOr(m.round_trip_rate, LAMBDA q : q[1] >= 0)
               /\ m.trade_event_rate \in Int \X Int /\ m.round_trip_rate \in Int \X Int
<1> DEFINE m == Scores!Metrics(a)
           s == Scores!Closes(a.trade_events)
           l == Longs(s)
           r == Shorts(s)
           steps == Len(a.agent_equity)
<1>1. PICK C : ClosedList(C, s)
  BY DEF Scorable
<1>2. ClosedList(C, l) /\ ClosedList(C, r)
  BY <1>1, SidesAreClosed
<1>3. /\ m.win_rate = Rate(Len(Wins(s)), Len(s))
      /\ m.loss_rate = Rate(Len(Losers(s)), Len(s))
      /\ m.breakeven_rate = Rate(Len(s) - Len(Wins(s)) - Len(Losers(s)), Len(s))
      /\ m.long_win_rate = Rate(Won(l), Len(l))
      /\ m.short_win_rate = Rate(Won(r), Len(r))
  BY RatesOf
<1>4. /\ m.trade_event_rate = <<Len(a.trade_events), steps>>
      /\ m.round_trip_rate = <<Len(s), steps>>
  BY CountsOf
<1>5. Len(a.trade_events) \in Nat /\ steps \in Nat
  <2>1. PICK S : a.trade_events \in Seq(S)
    BY DEF Scorable
  <2>2. a.agent_equity \in Seq(Int)
    BY DEF Scorable
  <2> QED
    BY <2>1, <2>2
<1> HIDE DEF m, s, l, r, steps
<1>6. /\ Len(s) \in Nat /\ Len(Wins(s)) \in Nat /\ Len(Losers(s)) \in Nat /\ Len(Evens(s)) \in Nat
      /\ Len(s) = Len(Wins(s)) + Len(Losers(s)) + Len(Evens(s))
  BY <1>1, CountsAddUp
<1>7. /\ Won(l) \in Nat /\ Won(l) <= Len(l) /\ Len(l) \in Nat
      /\ Won(r) \in Nat /\ Won(r) <= Len(r) /\ Len(r) \in Nat
  BY <1>2, WonIs, NumbersOf
<1>8. Between(m.win_rate, 0, 1) /\ Between(m.loss_rate, 0, 1)
  <2>1. Len(Wins(s)) <= Len(s) /\ Len(Losers(s)) <= Len(s)
    BY <1>6
  <2> QED
    BY <1>3, <1>6, <2>1, RateIsShare
<1>9. Between(m.breakeven_rate, 0, 1)
  <2> DEFINE c == Len(s) - Len(Wins(s)) - Len(Losers(s))
  <2>1. c \in Nat /\ c <= Len(s)
    BY <1>6
  <2> HIDE DEF c
  <2>2. Between(Rate(c, Len(s)), 0, 1)
    BY <1>6, <2>1, RateIsShare
  <2> QED
    BY <1>3, <2>2 DEF c
<1>10. Between(m.long_win_rate, 0, 1) /\ Between(m.short_win_rate, 0, 1)
  BY <1>3, <1>7, RateIsShare
<1>11. /\ NullOr(m.trade_event_rate, LAMBDA q : q[1] >= 0)
       /\ NullOr(m.round_trip_rate, LAMBDA q : q[1] >= 0)
  BY <1>4, <1>5, <1>6 DEF NullOr
<1>12. m.trade_event_rate \in Int \X Int /\ m.round_trip_rate \in Int \X Int
  BY <1>4, <1>5, <1>6
<1> QED
  BY <1>8, <1>9, <1>10, <1>11, <1>12 DEF m

\* The columns of the costs.
LEMMA CostsAreNumbers ==
    ASSUME NEW a, Scorable(a)
    PROVE  LET m == Scores!Metrics(a)
           IN  /\ m.total_fee_return \in Int /\ m.total_swap_return \in Int
               /\ m.total_cost_return \in Int
               /\ m.cumulative_shaped_reward \in Int /\ m.open_position_return_at_end \in Int
<1> DEFINE m == Scores!Metrics(a)
           fee == FeeOf(a.trade_events)
           swap == Scores!Total(Scores!Itself, a.step_swap_costs)
           reward == Scores!Total(Scores!Itself, a.shaped_rewards)
<1>1. /\ m.total_fee_return = fee /\ m.total_swap_return = swap
      /\ m.total_cost_return = fee + swap
      /\ m.cumulative_shaped_reward = reward
      /\ m.open_position_return_at_end = a.open_position_return_at_end
  BY CostsOf
<1>2. fee \in Int /\ a.open_position_return_at_end \in Int
      /\ a.step_swap_costs \in Seq(Nat) /\ a.shaped_rewards \in Seq(Int)
  BY DEF Scorable
<1>3. swap \in Int /\ reward \in Int
  <2>1. a.step_swap_costs \in Seq(Int)
    BY <1>2
  <2> QED
    BY <1>2, <2>1, TotalIs
<1> HIDE DEF m, fee, swap, reward
<1> QED
  BY <1>1, <1>2, <1>3 DEF m

\* The counts of streaks and of the bars held.
LEMMA StreaksAreNumbers ==
    ASSUME NEW a, Scorable(a)
    PROVE  LET m == Scores!Metrics(a)
           IN  /\ m.max_consecutive_wins \in Nat /\ m.max_consecutive_losses \in Nat
               /\ NullOr(m.min_bars_held, LAMBDA n : n \in Int)
               /\ NullOr(m.max_bars_held, LAMBDA n : n \in Int)
               /\ NullOr(m.min_bars_held, LAMBDA n : n >= 1)
               /\ NullOr(m.max_bars_held, LAMBDA n : n >= 1)
<1> DEFINE m == Scores!Metrics(a)
           s == Scores!Closes(a.trade_events)
           g == Signs(s)
<1>1. PICK C : ClosedList(C, s)
  BY DEF Scorable
<1>2. /\ m.max_consecutive_wins = Scores!LongestStreak(g, 1)
      /\ m.max_consecutive_losses = Scores!LongestStreak(g, -1)
  BY StreaksOf
<1>3. /\ m.min_bars_held = Smallest(Held(s), s)
      /\ m.max_bars_held = Largest(Held(s), s)
  BY MeansOf
<1>4. Len(s) \in Nat /\ g \in [1 .. Len(s) -> {-1, 0, 1}]
  BY <1>1, SignsOf
<1> HIDE DEF m, s, g
<1>5. Scores!LongestStreak(g, 1) \in Nat /\ Scores!LongestStreak(g, -1) \in Nat
  <2> DEFINE t == -1
             n == Len(s)
  <2>1. t \in Int /\ g \in [1 .. n -> Int] /\ n \in Nat
    BY <1>4
  <2> HIDE DEF t, n
  <2>2. Scores!LongestStreak(g, t) \in Nat /\ Scores!LongestStreak(g, 1) \in Nat
    BY <2>1, StreaksOfSign
  <2> QED
    BY <2>2 DEF t
<1>6. CASE Len(s) = 0
  <2>1. Null(m.min_bars_held) /\ Null(m.max_bars_held)
    BY <1>1, <1>3, <1>6, MiddleIsNull
  <2> QED
    BY <1>2, <1>5, <2>1 DEF NullOr, m
<1>7. CASE Len(s) # 0
  <2>1. m.min_bars_held \in Int /\ m.min_bars_held >= 1
        /\ m.max_bars_held \in Int /\ m.max_bars_held >= 1
    BY <1>1, <1>3, <1>7, HeldBetween
  <2> QED
    BY <1>2, <1>5, <2>1 DEF NullOr, m
<1> QED
  BY <1>6, <1>7

\* The metrics of a well-formed evaluation satisfy every constraint of a
\* completed row.
THEOREM MetricsAllowed ==
    ASSUME NEW a, Scorable(a)
    PROVE  LET m == Scores!Metrics(a)
           IN  /\ MetricColumns(m) /\ CompletedCoreMetrics(m) /\ MetricRanges(m)
               /\ MetricCountsNonnegative(m) /\ TradeCountConsistency(m)
               /\ RoundTripNullability(m) /\ SideNullability(m) /\ WinLossNullability(m)
               /\ HoldingPeriodOrder(m) /\ StreakConsistency(m)
<1> DEFINE m == Scores!Metrics(a)
<1>1. DOMAIN m = UNION {ScoreColumns, TradeColumns, CostColumns, CountColumns,
                        {"current_streak_type"}}
  BY GroupsOfMetrics
<1>2. /\ m.trade_events_total \in Nat /\ m.round_trips \in Nat
      /\ m.winning_trades \in Nat /\ m.losing_trades \in Nat /\ m.breakeven_trades \in Nat
      /\ m.long_round_trips \in Nat /\ m.short_round_trips \in Nat
      /\ m.open_long_count \in Nat /\ m.open_short_count \in Nat
      /\ m.close_long_count \in Nat /\ m.close_short_count \in Nat
      /\ m.swap_events \in Nat
  BY CountsAreNatural
<1>3. TradeCountConsistency(m)
  BY CountsAreNatural DEF TradeCountConsistency
<1>4. /\ HoldingPeriodOrder(m) /\ StreakConsistency(m)
      /\ m.current_streak \in Nat /\ m.current_streak_type \in StreakTypes
  BY HoldingPeriodsAreOrdered
<1>5. /\ m.max_consecutive_wins \in Nat /\ m.max_consecutive_losses \in Nat
      /\ NullOr(m.min_bars_held, LAMBDA n : n \in Int)
      /\ NullOr(m.max_bars_held, LAMBDA n : n \in Int)
      /\ NullOr(m.min_bars_held, LAMBDA n : n >= 1)
      /\ NullOr(m.max_bars_held, LAMBDA n : n >= 1)
  BY StreaksAreNumbers
<1>6. /\ m.agent_return \in Int /\ m.always_long_return \in Int
      /\ m.always_short_return \in Int /\ m.agent_vs_always_long_return \in Int
      /\ m.balanced_score \in Int /\ m.drawdown_improvement \in Int
      /\ m.agent_max_drawdown \in Int /\ m.agent_max_drawdown <= 0
      /\ m.always_long_max_drawdown \in Int /\ m.always_long_max_drawdown <= 0
      /\ m.always_short_max_drawdown \in Int /\ m.always_short_max_drawdown <= 0
  BY CurvesAreNumbers
<1>7. /\ Between(m.net_exposure, -1, 1) /\ m.net_exposure \in Int \X Int
      /\ Between(m.long_exposure, 0, 1) /\ m.long_exposure \in Int \X Int
      /\ Between(m.short_exposure, 0, 1) /\ m.short_exposure \in Int \X Int
      /\ Between(m.flat_exposure, 0, 1) /\ m.flat_exposure \in Int \X Int
      /\ Between(m.market_exposure, 0, 1) /\ m.market_exposure \in Int \X Int
  BY ExposuresAreShares
<1>8. /\ m.gross_profit_return \in Int /\ m.gross_profit_return >= 0
      /\ m.gross_loss_return \in Int /\ m.gross_loss_return <= 0
      /\ m.net_profit_return \in Int
      /\ NullOr(m.avg_win_return, LAMBDA q : q[1] > 0)
      /\ NullOr(m.avg_loss_return, LAMBDA q : q[1] < 0)
      /\ NullOr(m.largest_win_return, LAMBDA n : n > 0)
      /\ NullOr(m.largest_loss_return, LAMBDA n : n < 0)
      /\ NullOr(m.profit_factor, LAMBDA q : q[1] >= 0)
      /\ NullOr(m.payoff_ratio, LAMBDA q : q[1] >= 0)
  BY GainsInRange
<1>9. /\ Between(m.win_rate, 0, 1) /\ Between(m.loss_rate, 0, 1)
      /\ Between(m.breakeven_rate, 0, 1)
      /\ Between(m.long_win_rate, 0, 1) /\ Between(m.short_win_rate, 0, 1)
      /\ NullOr(m.trade_event_rate, LAMBDA q : q[1] >= 0)
      /\ NullOr(m.round_trip_rate, LAMBDA q : q[1] >= 0)
      /\ m.trade_event_rate \in Int \X Int /\ m.round_trip_rate \in Int \X Int
  BY RatesInRange
<1>10. /\ m.total_fee_return \in Int /\ m.total_swap_return \in Int
       /\ m.total_cost_return \in Int
       /\ m.cumulative_shaped_reward \in Int /\ m.open_position_return_at_end \in Int
  BY CostsAreNumbers
<1>11. RoundTripNullability(m) /\ SideNullability(m) /\ WinLossNullability(m)
  BY RoundTripsAreNullable, SidesAreNullable, WinsAndLossesAreNullable
<1> HIDE DEF m
<1>12. \A f \in CountColumns \ {"min_bars_held", "max_bars_held"} : m[f] \in Nat
  BY <1>2, <1>4, <1>5 DEF CountColumns
<1>13. MetricColumns(m)
  <2>1. \A f \in CountColumns : NullOr(m[f], LAMBDA n : n \in Int)
    <3>1. \A f \in CountColumns : f = "min_bars_held" \/ f = "max_bars_held" \/ m[f] \in Int
      BY <1>12
    <3> QED
      BY <1>5, <3>1 DEF NullOr
  <2>2. NullOr(m.current_streak_type, LAMBDA s : s \in StreakTypes)
    BY <1>4 DEF NullOr
  <2> QED
    BY <1>1, <2>1, <2>2 DEF MetricColumns
<1>14. CompletedCoreMetrics(m)
  <2>1. \A f \in ScoreColumns : ~ Null(m[f])
    <3>1. \A f \in ScoreColumns : m[f] \in Int \/ m[f] \in Int \X Int
      BY <1>6, <1>7 DEF ScoreColumns
    <3> QED
      BY <3>1, NullIs
  <2>2. \A f \in CountColumns \ {"min_bars_held", "max_bars_held"} : ~ Null(m[f])
    BY <1>12, NullIs
  <2>3. \A f \in {"trade_event_rate", "round_trip_rate", "gross_profit_return",
                  "gross_loss_return", "net_profit_return", "current_streak_type",
                  "total_fee_return", "total_swap_return", "total_cost_return",
                  "cumulative_shaped_reward", "open_position_return_at_end"} : ~ Null(m[f])
    <3>1. ~ Null(m.trade_event_rate) /\ ~ Null(m.round_trip_rate)
      BY <1>9, NullIs
    <3>2. ~ Null(m.gross_profit_return) /\ ~ Null(m.gross_loss_return) /\ ~ Null(m.net_profit_return)
      BY <1>8, NullIs
    <3>3. ~ Null(m.current_streak_type)
      BY <1>4, NullIs
    <3>4. ~ Null(m.total_fee_return) /\ ~ Null(m.total_swap_return) /\ ~ Null(m.total_cost_return)
          /\ ~ Null(m.cumulative_shaped_reward) /\ ~ Null(m.open_position_return_at_end)
      BY <1>10, NullIs
    <3> QED
      BY <3>1, <3>2, <3>3, <3>4
  <2> QED
    BY <2>1, <2>2, <2>3, Zenon DEF CompletedCoreMetrics, CoreMetrics
<1>15. MetricRanges(m)
  BY <1>6, <1>7, <1>8, <1>9 DEF MetricRanges
<1>16. MetricCountsNonnegative(m)
  <2>1. \A f \in CountColumns \ {"min_bars_held", "max_bars_held"} : m[f] >= 0
    BY <1>12
  <2>2. \A f \in {"min_bars_held", "max_bars_held"} : NullOr(m[f], LAMBDA n : n >= 1)
    BY <1>5
  <2> QED
    BY <2>1, <2>2 DEF MetricCountsNonnegative
<1> QED
  BY <1>3, <1>4, <1>11, <1>13, <1>14, <1>15, <1>16 DEF m

-----------------------------------------------------------------------------
(* The ledger of an environment *)

\* An event as the environment logs it.
Entry(ev) ==
    /\ \/ ev.event = "OPEN" /\ ev.fee \in Nat
       \/ ev.event = "CLOSE" /\ Closed(ev) /\ ev.swap_events \in Nat
    /\ EventFee(ev) = Environment.fee

\* The events, of which the metrics accept every one.
Tape(s) ==
    /\ \E S : s \in Seq(S)
    /\ \A k \in DOMAIN s : Entry(s[k]) /\ Scores!EventAccepted(s, k)

\* The position after the events.
PositionAfter(s) == Scores!PositionBefore(s, Len(s) + 1)

\* What the closed trades paid for rollovers, and how many.
SwapOf(s) == Sum(Swaps(Scores!Closes(s)))
CountOf(s) == Sum(SwapCounts(Scores!Closes(s)))

\* The ledger of an environment charged costs for counts rollovers.
Ledger(e, costs, counts) ==
    /\ DOMAIN e = AgentFields
    /\ e.position \in Positions
    /\ {e.position_swap_cost, e.position_swap_events, e.hold_bars} \subseteq Nat
    /\ Tape(e.trade_events)
    /\ PositionAfter(e.trade_events) = e.position
    /\ SwapOf(e.trade_events) + e.position_swap_cost = costs
    /\ CountOf(e.trade_events) + e.position_swap_events = counts
    /\ e.position = 0 => e.position_swap_cost = 0 /\ e.position_swap_events = 0
    /\ e.position # 0 => e.entry_price \in Nat \ {0} /\ e.entry_fee_paid = Environment.fee

\* A position is at least a bar old.
Aged(e) == e.position # 0 => e.hold_bars >= 1

\* The event of an opening.
LEMMA OpenEvent ==
    ASSUME NEW e, DOMAIN e = AgentFields, NEW c, NEW target, NEW price, NEW index
    PROVE  \E ev : /\ OpenPosition(e, c, target, price, index).trade_events
                        = Append(e.trade_events, ev)
                   /\ ev.event = "OPEN" /\ ev.fee = c.fee
                   /\ ev.position_before = e.position /\ ev.position_after = target
<1> DEFINE ev == [event |-> "OPEN", index |-> index, price |-> price,
                  position_before |-> e.position, position_after |-> target, fee |-> c.fee]
           f == OpenPosition(e, c, target, price, index)
<1>1. f.trade_events = Append(e.trade_events, ev)
  BY DEF OpenPosition, AgentFields
<1>2. ev.event = "OPEN" /\ ev.fee = c.fee
      /\ ev.position_before = e.position /\ ev.position_after = target
  OBVIOUS
<1> HIDE DEF ev, f
<1> QED
  BY <1>1, <1>2 DEF f

\* The event of a close.
LEMMA CloseEvent ==
    ASSUME NEW e, DOMAIN e = AgentFields, NEW c, NEW price, NEW index
    PROVE  \E ev : /\ ClosePosition(e, c, price, index).trade_events
                        = Append(e.trade_events, ev)
                   /\ CloseOf(ev, e, c, price, index) /\ ev.position_after = 0
                   /\ ev.gross_return = ReturnOf(e.position, e.entry_price, price)
<1> DEFINE gross == ReturnOf(e.position, e.entry_price, price)
           ev == [event |-> "CLOSE", index |-> index, price |-> price,
                  position_before |-> e.position, position_after |-> 0,
                  entry_index |-> e.entry_index, entry_price |-> e.entry_price,
                  gross_return |-> gross,
                  net_return |-> gross - e.entry_fee_paid - c.fee - e.position_swap_cost,
                  entry_fee |-> e.entry_fee_paid, close_fee |-> c.fee,
                  swap_cost |-> e.position_swap_cost,
                  swap_events |-> e.position_swap_events,
                  bars_held |-> e.hold_bars]
           f == ClosePosition(e, c, price, index)
<1>1. f.trade_events = Append(e.trade_events, ev)
  BY DEF ClosePosition, AgentFields
<1>2. CloseOf(ev, e, c, price, index)
  BY DEF CloseOf
<1>3. ev.position_after = 0 /\ ev.gross_return = gross
  OBVIOUS
<1> HIDE DEF ev, f
<1> QED
  BY <1>1, <1>2, <1>3 DEF f

\* A new event changes nothing about the events before it.
LEMMA AcceptedBefore ==
    ASSUME NEW S, NEW s \in Seq(S), NEW ev
    PROVE  LET t == Append(s, ev)
               n == Len(s)
           IN  /\ \A k \in DOMAIN s : Scores!EventAccepted(s, k) => Scores!EventAccepted(t, k)
               /\ Scores!PositionBefore(t, n + 1) = PositionAfter(s)
               /\ PositionAfter(t) = ev.position_after
               /\ n > 0 => t[(n + 1) - 1] = s[n]
<1> DEFINE t == Append(s, ev)
           n == Len(s)
<1>1. /\ n \in Nat /\ DOMAIN s = 1 .. n /\ Len(t) = n + 1
      /\ t[n + 1] = ev /\ \A k \in 1 .. n : t[k] = s[k]
  <2>1. Len(t) = n + 1 /\ n \in Nat
        /\ \A k \in 1 .. n + 1 : t[k] = IF k = n + 1 THEN ev ELSE s[k]
    BY ListGrows
  <2> HIDE DEF t
  <2> QED
    BY <2>1
<1> HIDE DEF t, n
<1>2. \A k \in 1 .. n : t[k] = s[k] /\ (k # 1 => t[k - 1] = s[k - 1])
  BY <1>1
<1>3. \A k \in 1 .. n : Scores!PositionBefore(t, k) = Scores!PositionBefore(s, k)
  BY <1>2 DEF Scores!PositionBefore
<1>4. ASSUME NEW k \in DOMAIN s, Scores!EventAccepted(s, k) PROVE Scores!EventAccepted(t, k)
  <2>1. t[k] = s[k] /\ Scores!PositionBefore(t, k) = Scores!PositionBefore(s, k)
    BY <1>1, <1>3
  <2>2. CASE k = 1
    <3>1. s[k].event # "OPEN" => Scores!PositionBefore(s, k) \in {-1, 1}
      BY <1>4 DEF Scores!EventAccepted
    <3>2. Scores!PositionBefore(s, k) = 0
      BY <2>2 DEF Scores!PositionBefore
    <3>3. s[k].event = "OPEN"
      BY <3>1, <3>2
    <3> QED
      BY <1>4, <2>1, <3>3 DEF Scores!EventAccepted
  <2>3. CASE k # 1
    <3>1. t[k - 1] = s[k - 1]
      BY <1>1, <1>2, <2>3
    <3> QED
      BY <1>4, <2>1, <3>1 DEF Scores!EventAccepted
  <2> QED
    BY <2>2, <2>3
<1>5. Scores!PositionBefore(t, n + 1) = PositionAfter(s)
  <2>1. CASE n = 0
    BY <2>1 DEF PositionAfter, Scores!PositionBefore, n
  <2>2. CASE n # 0
    <3>1. n + 1 # 1 /\ (n + 1) - 1 = n /\ n \in 1 .. n
      BY <1>1, <2>2
    <3> QED
      BY <1>1, <3>1 DEF PositionAfter, Scores!PositionBefore, n
  <2> QED
    BY <2>1, <2>2
<1>6. PositionAfter(t) = ev.position_after
  <2>1. (n + 1) + 1 # 1 /\ ((n + 1) + 1) - 1 = n + 1
    BY <1>1
  <2> QED
    BY <1>1, <2>1 DEF PositionAfter, Scores!PositionBefore
<1>7. n > 0 => t[(n + 1) - 1] = s[n]
  BY <1>1
<1> QED
  BY <1>4, <1>5, <1>6, <1>7 DEF t, n

\* The tape grows by an event that the metrics accept after the ones before.
LEMMA TapeGrows ==
    ASSUME NEW s, Tape(s), NEW ev, Entry(ev),
           Scores!EventAccepted(Append(s, ev), Len(s) + 1)
    PROVE  /\ Tape(Append(s, ev))
           /\ PositionAfter(Append(s, ev)) = ev.position_after
           /\ SwapOf(s) \in Int /\ CountOf(s) \in Int
           /\ ev.event = "OPEN" => /\ SwapOf(Append(s, ev)) = SwapOf(s)
                                   /\ CountOf(Append(s, ev)) = CountOf(s)
           /\ ev.event = "CLOSE" => /\ SwapOf(Append(s, ev)) = SwapOf(s) + ev.swap_cost
                                    /\ CountOf(Append(s, ev)) = CountOf(s) + ev.swap_events
<1>1. PICK S : s \in Seq(S)
  BY DEF Tape
<1> DEFINE n == Len(s)
           t == Append(s, ev)
           old == Scores!Closes(s)
           new == Scores!Closes(t)
<1>2. /\ t \in Seq(S \cup {ev}) /\ n \in Nat /\ DOMAIN s = 1 .. n /\ DOMAIN t = 1 .. n + 1
      /\ t[n + 1] = ev /\ \A k \in 1 .. n : t[k] = s[k]
  <2>1. t \in Seq(S \cup {ev}) /\ Len(t) = n + 1 /\ n \in Nat
        /\ \A k \in 1 .. n + 1 : t[k] = IF k = n + 1 THEN ev ELSE s[k]
    BY <1>1, ListGrows
  <2> HIDE DEF t
  <2> QED
    BY <1>1, <2>1
<1>3. PICK c \in Nat :
        /\ DOMAIN old = 1 .. c
        /\ \A i \in 1 .. c : \E k \in DOMAIN s : old[i] = s[k] /\ s[k].event = "CLOSE"
        /\ ev.event # "CLOSE" => new = old
        /\ ev.event = "CLOSE" => Grows(old, new, c, ev)
  BY <1>1, ClosesGrow
<1>4. /\ \A k \in DOMAIN s : Scores!EventAccepted(s, k) => Scores!EventAccepted(t, k)
      /\ PositionAfter(t) = ev.position_after
  BY <1>1, AcceptedBefore
<1>5. Scores!EventAccepted(t, n + 1)
  OBVIOUS
<1> HIDE DEF n, t, old, new
<1>6. Tape(t)
  <2>1. ASSUME NEW k \in DOMAIN t PROVE Entry(t[k]) /\ Scores!EventAccepted(t, k)
    <3>1. k = n + 1 \/ k \in DOMAIN s
      BY <1>2
    <3> QED
      BY <1>2, <1>4, <1>5, <3>1 DEF Tape
  <2> QED
    BY <1>2, <2>1 DEF Tape
<1>7. \A i \in 1 .. c : old[i].swap_cost \in Int /\ old[i].swap_events \in Int
  BY <1>3 DEF Tape, Entry, Closed
<1>8. Swaps(old) \in [1 .. c -> Int] /\ SwapCounts(old) \in [1 .. c -> Int]
  BY <1>3, <1>7 DEF Swaps, SwapCounts
<1>9. SwapOf(s) \in Int /\ CountOf(s) \in Int
  BY <1>8, SumIsWhole DEF SwapOf, CountOf, old
<1>10. ASSUME ev.event = "OPEN" PROVE SwapOf(t) = SwapOf(s) /\ CountOf(t) = CountOf(s)
  BY <1>3, <1>10 DEF SwapOf, CountOf, new, old
<1>11. ASSUME ev.event = "CLOSE"
       PROVE  SwapOf(t) = SwapOf(s) + ev.swap_cost /\ CountOf(t) = CountOf(s) + ev.swap_events
  <2>1. /\ DOMAIN new = 1 .. c + 1 /\ new[c + 1] = ev /\ \A i \in 1 .. c : new[i] = old[i]
    BY <1>3, <1>11 DEF Grows
  <2>2. ev.swap_cost \in Int /\ ev.swap_events \in Int
    BY <1>11 DEF Entry, Closed
  <2>3. /\ Swaps(new) \in [1 .. c + 1 -> Int] /\ SwapCounts(new) \in [1 .. c + 1 -> Int]
        /\ \A i \in 1 .. c : Swaps(new)[i] = Swaps(old)[i] /\ SwapCounts(new)[i] = SwapCounts(old)[i]
    BY <1>3, <1>7, <2>1, <2>2 DEF Swaps, SwapCounts
  <2>4. Swaps(new)[c + 1] = ev.swap_cost /\ SwapCounts(new)[c + 1] = ev.swap_events
    BY <2>1 DEF Swaps, SwapCounts
  <2>5. /\ Sum(Swaps(new)) = Sum(Swaps(old)) + ev.swap_cost
        /\ Sum(SwapCounts(new)) = Sum(SwapCounts(old)) + ev.swap_events
    BY <1>8, <2>3, <2>4, SumGrows
  <2> QED
    BY <2>5 DEF SwapOf, CountOf, new, old
<1> QED
  BY <1>4, <1>6, <1>9, <1>10, <1>11 DEF t

\* The sums of a tape are whole.
LEMMA TapeIsWhole ==
    ASSUME NEW s, Tape(s)
    PROVE  SwapOf(s) \in Int /\ CountOf(s) \in Int
<1>1. PICK S : s \in Seq(S)
  BY DEF Tape
<1> DEFINE old == Scores!Closes(s)
<1>2. PICK c \in Nat :
        /\ DOMAIN old = 1 .. c
        /\ \A i \in 1 .. c : \E k \in DOMAIN s : old[i] = s[k] /\ s[k].event = "CLOSE"
  BY <1>1, ClosesGrow
<1> HIDE DEF old
<1>3. \A i \in 1 .. c : old[i].swap_cost \in Int /\ old[i].swap_events \in Int
  BY <1>2 DEF Tape, Entry, Closed
<1>4. Swaps(old) \in [1 .. c -> Int] /\ SwapCounts(old) \in [1 .. c -> Int]
  BY <1>2, <1>3 DEF Swaps, SwapCounts
<1> QED
  BY <1>4, SumIsWhole DEF SwapOf, CountOf, old

\* c charges the rollovers as the evaluated environment does.
LEMMA SameRates ==
    ASSUME NEW c, SameTerms(c), NEW e, NEW a, NEW b
    PROVE  /\ SwapRate(c, e.position) = SwapRate(Environment, e.position)
           /\ SwapEvents(e, c, a, b) = SwapEvents(e, Environment, a, b)
BY DEF SameTerms, SwapRate, SwapEvents

\* The rollovers before a bar are entered for the position held until then.
LEMMA LedgerOfSwap ==
    ASSUME Terms, NEW c, SameTerms(c), NEW e, NEW costs \in Int, NEW counts \in Int,
           Ledger(e, costs, counts), Aged(e), NEW a \in Int, NEW b \in Int, a <= b
    PROVE  LET g     == ApplySwap(e, c, a, b)
               count == SwapEvents(e, c, a, b)
               cost  == SwapRate(c, e.position) * count
           IN  /\ g.position = e.position /\ g.trade_events = e.trade_events
               /\ cost \in Nat /\ count \in Nat
               /\ Ledger(g, costs + cost, counts + count) /\ Aged(g)
<1> DEFINE g == ApplySwap(e, c, a, b)
           count == SwapEvents(e, c, a, b)
           cost == SwapRate(c, e.position) * count
<1>1. /\ DOMAIN e = AgentFields /\ e.position \in Positions /\ Tape(e.trade_events)
  BY DEF Ledger
<1>2. /\ count \in Nat /\ cost \in Nat
      /\ e.position = 0 => count = 0 /\ cost = 0
  <2>1. /\ SwapRate(c, e.position) = SwapRate(Environment, e.position)
        /\ count = SwapEvents(e, Environment, a, b)
    BY SameRates
  <2> HIDE DEF count
  <2> QED
    BY <1>1, <2>1, SwapCost
<1>3. /\ DOMAIN g = AgentFields
      /\ g.position_swap_cost = e.position_swap_cost + cost
      /\ g.position_swap_events = e.position_swap_events + count
      /\ g.position = e.position /\ g.entry_price = e.entry_price
      /\ g.entry_fee_paid = e.entry_fee_paid
      /\ g.hold_bars = e.hold_bars /\ g.trade_events = e.trade_events
  BY <1>1, SwapFields
<1> HIDE DEF g, count, cost
<1>4. SwapOf(e.trade_events) \in Int /\ CountOf(e.trade_events) \in Int
  BY <1>1, TapeIsWhole
<1>5. Ledger(g, costs + cost, counts + count)
  BY <1>2, <1>3, <1>4 DEF Ledger
<1> QED
  BY <1>2, <1>3, <1>5 DEF Aged, g, count, cost

\* An opening is entered.
LEMMA LedgerOfOpening ==
    ASSUME Terms, NEW c, SameTerms(c), NEW e, NEW costs \in Int, NEW counts \in Int,
           Ledger(e, costs, counts), e.position = 0,
           NEW target \in {-1, 1}, NEW price \in Nat \ {0}, NEW i
    PROVE  LET g == OpenPosition(e, c, target, price, i)
           IN  g.position = target /\ Ledger(g, costs, counts)
<1> DEFINE g == OpenPosition(e, c, target, price, i)
           s == e.trade_events
           t == g.trade_events
<1>1. /\ DOMAIN e = AgentFields /\ Tape(s) /\ PositionAfter(s) = 0
      /\ SwapOf(s) + 0 = costs /\ CountOf(s) + 0 = counts
  BY DEF Ledger
<1>2. /\ DOMAIN g = AgentFields
      /\ g.position = target /\ g.entry_price = price /\ g.entry_fee_paid = c.fee
      /\ g.position_swap_cost = 0 /\ g.position_swap_events = 0 /\ g.hold_bars = 0
  BY <1>1, OpenFields
<1>3. PICK ev : /\ t = Append(s, ev)
                /\ ev.event = "OPEN" /\ ev.fee = c.fee
                /\ ev.position_before = e.position /\ ev.position_after = target
  BY <1>1, OpenEvent
<1> HIDE DEF g, s, t
<1>4. c.fee = Environment.fee /\ Environment.fee \in Nat
  BY DEF SameTerms, Terms
<1>5. Entry(ev)
  BY <1>3, <1>4 DEF Entry, EventFee
<1>6. PICK S : s \in Seq(S)
  BY <1>1 DEF Tape
<1>7. Scores!EventAccepted(Append(s, ev), Len(s) + 1)
  <2>1. Append(s, ev)[Len(s) + 1] = ev /\ Len(s) \in Nat
    BY <1>6, ListGrows
  <2>2. Scores!PositionBefore(Append(s, ev), Len(s) + 1) = 0
    BY <1>1, <1>6, AcceptedBefore
  <2> HIDE DEF s
  <2> QED
    BY <1>3, <1>4, <2>1, <2>2 DEF Scores!EventAccepted
<1>8. /\ Tape(t) /\ PositionAfter(t) = target
      /\ SwapOf(s) \in Int /\ CountOf(s) \in Int
      /\ SwapOf(t) = SwapOf(s) /\ CountOf(t) = CountOf(s)
  BY <1>1, <1>3, <1>5, <1>7, TapeGrows
<1>9. Ledger(g, costs, counts)
  BY <1>1, <1>2, <1>4, <1>8 DEF Ledger, Positions, t
<1> QED
  BY <1>2, <1>9 DEF g

\* A close is entered, with what its position paid.
LEMMA LedgerOfClose ==
    ASSUME Terms, NEW c, SameTerms(c), NEW e, NEW costs \in Int, NEW counts \in Int,
           Ledger(e, costs, counts), Aged(e), e.position # 0, NEW price \in Nat, NEW i
    PROVE  LET g == ClosePosition(e, c, price, i)
           IN  g.position = 0 /\ Ledger(g, costs, counts)
<1> DEFINE g == ClosePosition(e, c, price, i)
           s == e.trade_events
           t == g.trade_events
           n == Len(s)
           gross == ReturnOf(e.position, e.entry_price, price)
           psc == e.position_swap_cost
           pse == e.position_swap_events
<1>1. /\ DOMAIN e = AgentFields /\ Tape(s) /\ PositionAfter(s) = e.position
      /\ SwapOf(s) + psc = costs /\ CountOf(s) + pse = counts
      /\ psc \in Nat /\ pse \in Nat /\ e.hold_bars \in Nat \ {0}
      /\ e.entry_price \in Nat \ {0} /\ e.entry_fee_paid = Environment.fee
      /\ e.position \in {-1, 1}
  BY DEF Ledger, Aged, Positions
<1>2. /\ DOMAIN g = AgentFields
      /\ g.position = 0 /\ g.entry_fee_paid = 0
      /\ g.position_swap_cost = 0 /\ g.position_swap_events = 0 /\ g.hold_bars = 0
  BY <1>1, CloseFields
<1>3. PICK ev : /\ t = Append(s, ev)
                /\ CloseOf(ev, e, c, price, i) /\ ev.position_after = 0
                /\ ev.gross_return = gross
  BY <1>1, CloseEvent
<1>4. /\ ev.event = "CLOSE" /\ ev.position_before = e.position
      /\ ev.net_return = gross - e.entry_fee_paid - c.fee - psc
      /\ ev.entry_fee = e.entry_fee_paid /\ ev.close_fee = c.fee
      /\ ev.swap_cost = psc /\ ev.swap_events = pse /\ ev.bars_held = e.hold_bars
  BY <1>3 DEF CloseOf
<1>5. c.fee = Environment.fee /\ Environment.fee \in Nat
  BY DEF SameTerms, Terms
<1>6. gross \in Int
  <2>1. e.position \in Positions /\ e.entry_price \in Nat \ {0}
    BY <1>1 DEF Positions
  <2> QED
    BY <2>1, ReturnIsWhole DEF Terms
<1> HIDE DEF g, s, t, n, gross, psc, pse
<1>7. Entry(ev)
  <2>1. Closed(ev)
    BY <1>1, <1>4, <1>5, <1>6 DEF Closed
  <2> QED
    BY <1>1, <1>4, <1>5, <2>1 DEF Entry, EventFee
<1>8. PICK S : s \in Seq(S)
  BY <1>1 DEF Tape
<1>9. Scores!EventAccepted(Append(s, ev), n + 1)
  <2>1. Append(s, ev)[n + 1] = ev /\ n \in Nat
    BY <1>8, ListGrows DEF n
  <2>2. /\ Scores!PositionBefore(Append(s, ev), n + 1) = e.position
        /\ n > 0 => Append(s, ev)[(n + 1) - 1] = s[n]
    BY <1>1, <1>8, AcceptedBefore DEF n
  <2>3. n > 0 /\ s[n].fee = Environment.fee
    <3>1. n # 0
      BY <1>1 DEF PositionAfter, Scores!PositionBefore, n
    <3>2. (n + 1) - 1 = n /\ n + 1 # 1 /\ n \in DOMAIN s
      BY <1>8, <2>1, <3>1 DEF n
    <3>3. s[n].position_after = e.position
      BY <1>1, <3>2 DEF PositionAfter, Scores!PositionBefore, n
    <3>4. s[n].event = "OPEN"
      BY <1>1, <3>2, <3>3 DEF Tape, Scores!EventAccepted
    <3> QED
      BY <1>1, <2>1, <3>1, <3>2, <3>4 DEF Tape, Entry, EventFee
  <2>4. Append(s, ev)[(n + 1) - 1].fee = Environment.fee
    BY <2>2, <2>3
  <2> DEFINE r == Append(s, ev)
  <2> HIDE DEF r
  <2>5. r[n + 1] = ev /\ Scores!PositionBefore(r, n + 1) = e.position
        /\ r[(n + 1) - 1].fee = Environment.fee
    BY <2>1, <2>2, <2>4 DEF r
  <2>6. ev.net_return = gross - ev.entry_fee - ev.close_fee - ev.swap_cost
    BY <1>4
  <2>7. /\ ev.entry_fee >= 0 /\ ev.close_fee >= 0
        /\ ev.swap_cost >= 0 /\ ev.swap_events >= 0 /\ ev.bars_held >= 1
    BY <1>1, <1>4, <1>5
  <2>8. Scores!EventAccepted(r, n + 1)
    BY <1>1, <1>3, <1>4, <2>5, <2>6, <2>7 DEF Scores!EventAccepted
  <2> QED
    BY <2>8 DEF r
<1>10. /\ Tape(t) /\ PositionAfter(t) = 0
      /\ SwapOf(s) \in Int /\ CountOf(s) \in Int
      /\ SwapOf(t) = SwapOf(s) + psc /\ CountOf(t) = CountOf(s) + pse
  BY <1>1, <1>3, <1>4, <1>7, <1>9, TapeGrows DEF n
<1>11. Ledger(g, costs, counts)
  BY <1>1, <1>2, <1>10 DEF Ledger, Positions, t
<1> QED
  BY <1>2, <1>11 DEF g

\* The action's target is entered.
LEMMA LedgerOfTarget ==
    ASSUME Terms, NEW c, SameTerms(c), NEW e, NEW costs \in Int, NEW counts \in Int,
           Ledger(e, costs, counts), Aged(e),
           NEW target \in Positions, NEW price \in Nat \ {0}, NEW i
    PROVE  LET g == ApplyTarget(e, c, target, price, i)
           IN  g.position = target /\ Ledger(g, costs, counts)
<1> DEFINE closed == IF e.position = 0 THEN e ELSE ClosePosition(e, c, price, i)
           g == ApplyTarget(e, c, target, price, i)
<1>1. CASE target = e.position
  BY <1>1 DEF ApplyTarget
<1>2. CASE target # e.position
  <2>1. closed.position = 0 /\ Ledger(closed, costs, counts)
    <3>1. CASE e.position = 0
      BY <3>1
    <3>2. CASE e.position # 0
      <4>1. price \in Nat
        OBVIOUS
      <4>2. LET p == ClosePosition(e, c, price, i)
            IN  p.position = 0 /\ Ledger(p, costs, counts)
        BY <3>2, <4>1, LedgerOfClose
      <4> QED
        BY <3>2, <4>2
    <3> QED
      BY <3>1, <3>2
  <2>2. g = IF target = 0 THEN closed ELSE OpenPosition(closed, c, target, price, i)
    BY <1>2 DEF ApplyTarget
  <2> HIDE DEF closed, g
  <2>3. CASE target = 0
    BY <2>1, <2>2, <2>3 DEF g
  <2>4. CASE target # 0
    <3>1. target \in {-1, 1}
      BY <2>4 DEF Positions
    <3>2. LET o == OpenPosition(closed, c, target, price, i)
          IN  o.position = target /\ Ledger(o, costs, counts)
      BY <2>1, <3>1, LedgerOfOpening
    <3> QED
      BY <2>2, <2>4, <3>2 DEF g
  <2> QED
    BY <2>3, <2>4
<1> QED
  BY <1>1, <1>2

\* The bar just passed ages a position.
LEMMA LedgerOfBar ==
    ASSUME NEW e, NEW costs, NEW counts, Ledger(e, costs, counts), NEW i
    PROVE  LET g == [e EXCEPT !.hold_bars = @ + AbsInt(e.position), !.current_index = i,
                              !.steps = @ + 1]
           IN  g.position = e.position /\ Ledger(g, costs, counts) /\ Aged(g)
<1> DEFINE g == [e EXCEPT !.hold_bars = @ + AbsInt(e.position), !.current_index = i,
                          !.steps = @ + 1]
<1>1. DOMAIN e = AgentFields /\ e.position \in Positions /\ e.hold_bars \in Nat
  BY DEF Ledger
<1>2. /\ DOMAIN g = AgentFields
      /\ g.hold_bars = e.hold_bars + AbsInt(e.position)
      /\ g.position_swap_cost = e.position_swap_cost
      /\ g.position_swap_events = e.position_swap_events
      /\ g.position = e.position /\ g.entry_price = e.entry_price
      /\ g.entry_fee_paid = e.entry_fee_paid /\ g.trade_events = e.trade_events
  BY <1>1, HeldFields
<1> HIDE DEF g
<1>3. AbsInt(e.position) \in Nat /\ (e.position # 0 => AbsInt(e.position) = 1)
  BY <1>1 DEF AbsInt, Positions
<1>4. g.hold_bars \in Nat /\ (g.position # 0 => g.hold_bars >= 1)
  BY <1>1, <1>2, <1>3
<1> QED
  BY <1>2, <1>4 DEF Ledger, Aged, g

\* The end of a step enters the close it may make.
LEMMA LedgerOfEnd ==
    ASSUME Terms, NEW c, SameTerms(c), NEW e, NEW costs \in Int, NEW counts \in Int,
           Ledger(e, costs, counts), Aged(e), NEW bar, bar.close \in Nat, NEW i, NEW done
    PROVE  LET g == Settled(e, c, bar, i, done)
           IN  Ledger(g, costs, counts) /\ Aged(g) /\ g.terminated = done
<1> DEFINE ends == done /\ c.forceClose /\ e.position # 0
           closed == IF ends THEN ClosePosition(e, c, bar.close, i) ELSE e
           peak == Max({closed.equity_peak, Equity(closed, bar.close)})
           g == [closed EXCEPT !.equity_peak = peak, !.terminated = done]
<1>1. Ledger(closed, costs, counts) /\ Aged(closed)
  <2>1. CASE ~ ends
    BY <2>1
  <2>2. CASE ends
    <3> DEFINE p == ClosePosition(e, c, bar.close, i)
    <3>1. p.position = 0 /\ Ledger(p, costs, counts)
      BY <2>2, LedgerOfClose
    <3>2. closed = p
      BY <2>2
    <3> HIDE DEF p, closed
    <3> QED
      BY <3>1, <3>2 DEF Aged
  <2> QED
    BY <2>1, <2>2
<1>2. Settled(e, c, bar, i, done) = g
  BY DEF Settled, AgentFields, Ledger
<1> HIDE DEF closed
<1>3. DOMAIN closed = AgentFields
  BY <1>1 DEF Ledger
<1>4. /\ DOMAIN g = AgentFields
      /\ g.position_swap_cost = closed.position_swap_cost
      /\ g.position_swap_events = closed.position_swap_events
      /\ g.position = closed.position /\ g.entry_price = closed.entry_price
      /\ g.entry_fee_paid = closed.entry_fee_paid
      /\ g.hold_bars = closed.hold_bars /\ g.trade_events = closed.trade_events
  <2> HIDE DEF peak
  <2> QED
    BY <1>3, EndFields
<1>5. g.terminated = done
  BY <1>3 DEF AgentFields
<1> HIDE DEF g
<1> QED
  BY <1>1, <1>2, <1>4, <1>5 DEF Ledger, Aged

\* A step of an environment, evaluated or benchmark, keeps its ledger.
LEMMA LedgerOfStep ==
    ASSUME Terms, NEW c, SameTerms(c), NEW e, NEW costs \in Int, NEW counts \in Int,
           Ledger(e, costs, counts), Aged(e), NEW n \in Int, e.current_index = n,
           NEW f, f[n].t \in Int, f[n + 1].t \in Int, f[n].t <= f[n + 1].t,
           {f[n + 1].open, f[n + 1].close} \subseteq Nat \ {0}, NEW rows, NEW action,
           PositionTargets(c.position_side)[action + 1] \in Positions
    PROVE  LET a == StepCore(e, c, f, rows, action)
           IN  /\ a.info.swap_cost = SwapRate(c, e.position) * a.info.swap_events_on_step
               /\ a.info.swap_events_on_step = SwapEvents(e, c, f[n].t, f[n + 1].t)
               /\ a.info.swap_cost \in Nat /\ a.info.swap_events_on_step \in Nat
               /\ a.info.fee_cost = FeesSince(a.environment, e)
               /\ a.info.execution_timestamp = f[n + 1].t
               /\ a.info.execution_price = f[n + 1].open
               /\ a.info.close_price = f[n + 1].close
               /\ a.info.execution_index = n + 1
               /\ a.info.terminated = (n + 1 >= rows - 1)
               /\ Ledger(a.environment, costs + a.info.swap_cost,
                         counts + a.info.swap_events_on_step)
               /\ Aged(a.environment)
<1> DEFINE i == n + 1
           bar == f[i]
           target == PositionTargets(c.position_side)[action + 1]
           count == SwapEvents(e, c, f[n].t, bar.t)
           cost == SwapRate(c, e.position) * count
           charged == ApplySwap(e, c, f[n].t, bar.t)
           traded == ApplyTarget(charged, c, target, bar.open, i)
           held == [traded EXCEPT !.hold_bars = @ + AbsInt(traded.position),
                                  !.current_index = i, !.steps = @ + 1]
           done == i >= rows - 1
           final == Settled(held, c, bar, i, done)
           a == StepCore(e, c, f, rows, action)
           k == costs + cost
           m == counts + count
<1>1. /\ a.environment = final
      /\ a.info = StepInfo(e, traded, final, c, Equity(e, f[n].close), bar, count, target)
  BY DEF StepCore
<1>2. /\ a.info.swap_cost = cost /\ a.info.swap_events_on_step = count
      /\ a.info.fee_cost = FeesSince(final, e)
      /\ a.info.execution_timestamp = bar.t /\ a.info.execution_price = bar.open
      /\ a.info.close_price = bar.close
      /\ a.info.execution_index = final.current_index
      /\ a.info.terminated = final.terminated
  <2> HIDE DEF traded, final, a, target, count, bar
  <2> QED
    BY <1>1 DEF StepInfo
<1>3. a.environment.current_index = i
  <2>1. DOMAIN e = AgentFields
    BY DEF Ledger
  <2> QED
    BY <2>1, StepMoves
<1> HIDE DEF a
<1>4. cost \in Nat /\ count \in Nat /\ Ledger(charged, k, m) /\ Aged(charged)
  <2>1. bar.t \in Int /\ f[n].t \in Int /\ f[n].t <= bar.t
    OBVIOUS
  <2> HIDE DEF bar
  <2> QED
    BY <2>1, LedgerOfSwap
<1> HIDE DEF charged, cost, count
<1>5. k \in Int /\ m \in Int
  BY <1>4
<1>6. bar.open \in Nat \ {0} /\ bar.close \in Nat /\ target \in Positions
  <2>1. bar.open \in Nat \ {0} /\ bar.close \in Nat \ {0}
    BY Zenon
  <2>2. target \in Positions
    OBVIOUS
  <2> HIDE DEF bar, target
  <2> QED
    BY <2>1, <2>2
<1> HIDE DEF i, bar, target, k, m
<1>7. traded.position = target /\ Ledger(traded, k, m)
  BY <1>4, <1>5, <1>6, LedgerOfTarget
<1> HIDE DEF traded
<1>8. Ledger(held, k, m) /\ Aged(held)
  BY <1>7, LedgerOfBar
<1> HIDE DEF held, done
<1>9. Ledger(final, k, m) /\ Aged(final) /\ final.terminated = done
  BY <1>5, <1>6, <1>8, LedgerOfEnd
<1> HIDE DEF final
<1> QED
  BY <1>1, <1>2, <1>3, <1>4, <1>9 DEF a, i, bar, k, m, cost, count, done

-----------------------------------------------------------------------------
(* What the runner checks of a step *)

\* The fees of the events after those of b.
NewFees(e, b) ==
    [k \in (Len(b.trade_events) + 1) .. Len(e.trade_events) |-> EventFee(e.trade_events[k])]

\* What a step says it paid in fees is what its new events paid.
LEMMA FeesAre ==
    ASSUME NEW e, NEW b
    PROVE  FeesSince(e, b) = Sum(NewFees(e, b))
BY DEF FeesSince, NewFees, EventFee, Sum, SumOver, MapThenSumSet, MapThenFoldSet

\* Environments that log as many events pay as many fees.
LEMMA FeesAgree ==
    ASSUME NEW e, NEW b, NEW f, NEW d, Tape(b.trade_events), Tape(e.trade_events),
           Tape(f.trade_events),
           Len(e.trade_events) = Len(f.trade_events), Len(b.trade_events) = Len(d.trade_events)
    PROVE  FeesSince(e, b) = FeesSince(f, d)
<1> DEFINE m == Len(b.trade_events)
           n == Len(e.trade_events)
<1>1. /\ m \in Nat /\ n \in Nat
      /\ DOMAIN e.trade_events = 1 .. n /\ DOMAIN f.trade_events = 1 .. n
  <2>1. PICK B : b.trade_events \in Seq(B)
    BY DEF Tape
  <2>2. PICK E : e.trade_events \in Seq(E)
    BY DEF Tape
  <2>3. PICK F : f.trade_events \in Seq(F)
    BY DEF Tape
  <2> QED
    BY <2>1, <2>2, <2>3
<1>2. \A k \in 1 .. n : /\ EventFee(e.trade_events[k]) = Environment.fee
                        /\ EventFee(f.trade_events[k]) = Environment.fee
  BY <1>1 DEF Tape, Entry
<1> HIDE DEF m, n
<1>3. \A k \in m + 1 .. n : k \in 1 .. n
  BY <1>1
<1>4. NewFees(e, b) = NewFees(f, d)
  BY <1>2, <1>3 DEF NewFees, m, n
<1> QED
  BY <1>4, FeesAre

\* The benchmarks hold a position or none together.
LEMMA BenchmarksMatch ==
    ASSUME BarsInv, BenchmarksInv, row.steps_expected \in Int, StepsDone < row.steps_expected
    PROVE  /\ always_long.position \in {0, 1} /\ always_short.position \in {0, -1}
           /\ always_long.position = 0 <=> always_short.position = 0
           /\ Len(always_long.trade_events) = Len(always_short.trade_events)
<1>1. CASE StepsDone = 0
  BY <1>1 DEF BenchmarksInv, ResetState
<1>2. CASE StepsDone # 0
  <2>1. StepsDone \in 1 .. row.steps_expected - 1
    BY <1>2 DEF BarsInv
  <2>2. Opened(always_long, 1) /\ Opened(always_short, -1)
    BY <2>1 DEF BenchmarksInv
  <2> QED
    BY <2>2 DEF Opened
<1> QED
  BY <1>1, <1>2

\* An environment has a ledger.
HasLedger(e) == \E costs, counts \in Int : Ledger(e, costs, counts) /\ Aged(e)

\* What the runner checks of an environment e that stepped to a.
InfoOf(a, e, market) ==
    /\ a.info.execution_timestamp = market[Now + 1].t
    /\ a.info.execution_price = market[Now + 1].open
    /\ a.info.close_price = market[Now + 1].close
    /\ a.info.execution_index = Now + 1
    /\ a.info.terminated = (Now + 1 >= LocalRows - 1)
    /\ a.info.swap_events_on_step \in Nat
    /\ a.info.fee_cost = FeesSince(a.environment, e)
    /\ Tape(e.trade_events) /\ Tape(a.environment.trade_events)

\* What the info of a benchmark says of its rollovers.
LEMMA BenchmarkInfo ==
    ASSUME Terms, BarsInv, NEW bar, IsNext(bar), NEW name,
           NEW c, SameTerms(c), NEW target \in {1, -1}, PositionTargets(c.position_side)[2] = target,
           NEW e \in {always_long, always_short}, HasLedger(e), e.position \in {0, target}
    PROVE  LET market == WithBar(bar)
               a      == StepCore(e, c, market, LocalRows, 1)
               rate   == IF target = 1 THEN Environment.swapLong ELSE Environment.swapShort
               due    == CountSwapBoundaries(market[Now].t, market[Now + 1].t, Environment.swapTime)
           IN  /\ InfoOf(a, e, market) /\ HasLedger(a.environment)
               /\ a.info.swap_cost = rate * a.info.swap_events_on_step
               /\ rate > 0 =>
                    a.info.swap_events_on_step = IF e.position = 0 THEN 0 ELSE due
<1> DEFINE market == WithBar(bar)
           n == Now
           rate == IF target = 1 THEN Environment.swapLong ELSE Environment.swapShort
           a == StepCore(e, c, market, LocalRows, 1)
           due == CountSwapBoundaries(market[n].t, market[n + 1].t, Environment.swapTime)
<1>1. /\ n \in Int /\ LocalObservation <= n
      /\ \A k \in LocalObservation .. n + 1 : market[k].t \in Int
      /\ market[n].t <= market[n + 1].t
      /\ {market[n + 1].open, market[n + 1].close} \subseteq Nat \ {0}
  BY MarketGrows
<1>2. e.current_index = n /\ LocalObservation \in Int
  BY DEF BarsInv
<1> HIDE DEF market, n
<1>3. market[n].t \in Int /\ market[n + 1].t \in Int
  <2>1. n \in LocalObservation .. n + 1 /\ n + 1 \in LocalObservation .. n + 1
    BY <1>1, <1>2
  <2> QED
    BY <1>1, <2>1
<1>4. PICK costs \in Int, counts \in Int : Ledger(e, costs, counts) /\ Aged(e)
  BY DEF HasLedger
<1>5. PositionTargets(c.position_side)[1 + 1] \in Positions
  BY DEF Positions
<1>6. /\ a.info.swap_cost = SwapRate(c, e.position) * a.info.swap_events_on_step
      /\ a.info.swap_events_on_step = SwapEvents(e, c, market[n].t, market[n + 1].t)
      /\ a.info.swap_cost \in Nat /\ a.info.swap_events_on_step \in Nat
      /\ a.info.fee_cost = FeesSince(a.environment, e)
      /\ a.info.execution_timestamp = market[n + 1].t
      /\ a.info.execution_price = market[n + 1].open
      /\ a.info.close_price = market[n + 1].close
      /\ a.info.execution_index = n + 1
      /\ a.info.terminated = (n + 1 >= LocalRows - 1)
      /\ Ledger(a.environment, costs + a.info.swap_cost,
                counts + a.info.swap_events_on_step)
      /\ Aged(a.environment)
  BY <1>1, <1>2, <1>3, <1>4, <1>5, LedgerOfStep
<1> HIDE DEF a
<1>7. HasLedger(a.environment)
  BY <1>6 DEF HasLedger
<1>8. InfoOf(a, e, market)
  BY <1>4, <1>6 DEF InfoOf, Ledger, n
<1>9. rate \in Nat
  BY DEF Terms
<1>10. CASE e.position = 0
  <2>1. a.info.swap_events_on_step = 0
    BY <1>6, <1>10 DEF SwapEvents
  <2>2. a.info.swap_cost = 0
    <3>1. SwapRate(c, e.position) \in Nat
      BY <1>10 DEF SwapRate, SameTerms, Terms
    <3> QED
      BY <1>6, <2>1, <3>1
  <2> HIDE DEF rate
  <2>3. rate * a.info.swap_events_on_step = 0
    BY <1>9, <2>1
  <2> QED
    BY <1>7, <1>8, <1>10, <2>1, <2>2, <2>3 DEF a, market, n, rate
<1>11. CASE e.position # 0
  <2>1. e.position = target
    BY <1>11
  <2>2. SwapRate(c, e.position) = rate
    BY <2>1 DEF SwapRate, SameTerms
  <2>3. rate > 0 => a.info.swap_events_on_step = due
    <3>1. c.swapTime = Environment.swapTime
      BY DEF SameTerms
    <3> QED
      BY <1>6, <1>9, <1>11, <2>2, <3>1 DEF SwapEvents
  <2> QED
    BY <1>6, <1>7, <1>8, <1>11, <2>2, <2>3 DEF a, market, n, rate, due
<1> QED
  BY <1>10, <1>11

\* The agent's info, and its ledger, after a turn.
LEMMA AgentInfo ==
    ASSUME Terms, BarsInv, NEW bar, IsNext(bar), NEW action,
           PositionTargets(Environment.position_side)[action + 1] \in Positions,
           NEW costs \in Int, NEW counts \in Int, Ledger(agent, costs, counts), Aged(agent)
    PROVE  LET market == WithBar(bar)
               a      == Agent(market, action)
           IN  /\ InfoOf(a, agent, market)
               /\ Ledger(a.environment, costs + a.info.swap_cost,
                         counts + a.info.swap_events_on_step)
               /\ Aged(a.environment)
<1> DEFINE market == WithBar(bar)
           n == Now
           a == StepCore(agent, Environment, market, LocalRows, action)
<1>1. /\ n \in Int /\ LocalObservation <= n
      /\ \A k \in LocalObservation .. n + 1 : market[k].t \in Int
      /\ market[n].t <= market[n + 1].t
      /\ {market[n + 1].open, market[n + 1].close} \subseteq Nat \ {0}
  BY MarketGrows
<1>2. agent.current_index = n /\ LocalObservation \in Int
  BY DEF BarsInv
<1> HIDE DEF market, n
<1>3. market[n].t \in Int /\ market[n + 1].t \in Int
  <2>1. n \in LocalObservation .. n + 1 /\ n + 1 \in LocalObservation .. n + 1
    BY <1>1, <1>2
  <2> QED
    BY <1>1, <2>1
<1>4. SameTerms(Environment)
  BY DEF SameTerms
<1>5. /\ a.info.swap_events_on_step \in Nat
      /\ a.info.fee_cost = FeesSince(a.environment, agent)
      /\ a.info.execution_timestamp = market[n + 1].t
      /\ a.info.execution_price = market[n + 1].open
      /\ a.info.close_price = market[n + 1].close
      /\ a.info.execution_index = n + 1
      /\ a.info.terminated = (n + 1 >= LocalRows - 1)
      /\ Ledger(a.environment, costs + a.info.swap_cost,
                counts + a.info.swap_events_on_step)
      /\ Aged(a.environment)
  BY <1>1, <1>2, <1>3, <1>4, LedgerOfStep
<1> HIDE DEF a
<1>6. InfoOf(a, agent, market)
  BY <1>5 DEF InfoOf, Ledger, n
<1> QED
  BY <1>5, <1>6 DEF a, market, Agent

\* Whatever the market shows and the policy selects, the runner accepts the step.
LEMMA RunnerAgrees ==
    ASSUME request \in Requests, Terms, BarsInv, BenchmarksInv, NEW bar, IsNext(bar), NEW action,
           PositionTargets(Environment.position_side)[action + 1] \in Positions,
           \E costs, counts \in Int : Ledger(agent, costs, counts) /\ Aged(agent),
           HasLedger(always_long), HasLedger(always_short),
           row.lookback_rows \in Int, row.steps_expected \in Int,
           row.evaluation_start_index \in Int, StepsDone < row.steps_expected
    PROVE  LET market == WithBar(bar)
               l == Long(market)
               s == Short(market)
           IN  /\ RunnerAccepts(Agent(market, action), l, s)
               /\ HasLedger(l.environment) /\ HasLedger(s.environment)
<1> DEFINE market == WithBar(bar)
           a == Agent(market, action)
           l == Long(market)
           s == Short(market)
           due == CountSwapBoundaries(market[Now].t, market[Now + 1].t, Environment.swapTime)
           cl == [Environment EXCEPT !.position_side = "long_only"]
           cs == [Environment EXCEPT !.position_side = "short_only"]
<1>1. InfoOf(a, agent, market)
  BY AgentInfo
<1>2. /\ cl.position_side = "long_only" /\ SameTerms(cl)
      /\ cs.position_side = "short_only" /\ SameTerms(cs)
  BY SideTerms
<1>3. /\ PositionTargets(cl.position_side)[2] = 1
      /\ PositionTargets(cs.position_side)[2] = -1
  BY <1>2, SidesOfBenchmarks
<1>4. /\ always_long.position \in {0, 1} /\ always_short.position \in {0, -1}
      /\ always_long.position = 0 <=> always_short.position = 0
      /\ Len(always_long.trade_events) = Len(always_short.trade_events)
  BY BenchmarksMatch
<1> DEFINE lc == StepCore(always_long, cl, market, LocalRows, 1)
           sc == StepCore(always_short, cs, market, LocalRows, 1)
<1>5. l = lc /\ s = sc
  BY DEF Long, Short
<1> HIDE DEF cl, cs
<1>6. /\ InfoOf(lc, always_long, market) /\ HasLedger(lc.environment)
      /\ lc.info.swap_cost = Environment.swapLong * lc.info.swap_events_on_step
      /\ Environment.swapLong > 0 =>
           lc.info.swap_events_on_step = IF always_long.position = 0 THEN 0 ELSE due
  <2>1. 1 \in {1, -1} /\ always_long \in {always_long, always_short}
    OBVIOUS
  <2> QED
    BY <1>2, <1>3, <1>4, <2>1, BenchmarkInfo
<1>7. /\ InfoOf(sc, always_short, market) /\ HasLedger(sc.environment)
      /\ sc.info.swap_cost = Environment.swapShort * sc.info.swap_events_on_step
      /\ Environment.swapShort > 0 =>
           sc.info.swap_events_on_step = IF always_short.position = 0 THEN 0 ELSE due
  <2>1. -1 \in {1, -1} /\ always_short \in {always_long, always_short} /\ -1 # 1
    OBVIOUS
  <2> DEFINE t == -1
  <2> HIDE DEF t
  <2>2. t \in {1, -1} /\ t # 1 /\ PositionTargets(cs.position_side)[2] = t
        /\ always_short.position \in {0, t}
    BY <1>3, <1>4, <2>1 DEF t
  <2> QED
    BY <1>2, <2>1, <2>2, BenchmarkInfo
<1>8. Len(s.environment.trade_events) = Len(l.environment.trade_events)
  BY BenchmarksTurn
<1> HIDE DEF market, a, l, s, lc, sc, due
<1>9. l.info.fee_cost = s.info.fee_cost
  BY <1>4, <1>5, <1>6, <1>7, <1>8, FeesAgree DEF InfoOf
<1> DEFINE back == row.lookback_rows
           index == LocalObservation + StepsDone + 1
           last == StepsDone + 1 = row.steps_expected
<1>10. /\ StepsDone \in Nat /\ LocalObservation = back - 1 /\ LocalRows = back + row.steps_expected
       /\ Now = (back - 1) + StepsDone /\ back \in Int
  BY DEF BarsInv, Now, LocalObservation, LocalRows
<1> HIDE DEF back
<1>11. index = Now + 1 /\ last = (Now + 1 >= LocalRows - 1)
  BY <1>10
<1>12. (row.evaluation_start_index - back) + (Now + 1) = row.evaluation_start_index + StepsDone
  BY <1>10
<1> HIDE DEF index, last
<1>13. \A i \in {a.info, l.info, s.info} : i.terminated = last /\ i.execution_index = index
  BY <1>1, <1>5, <1>6, <1>7, <1>11 DEF InfoOf
<1>14. (row.evaluation_start_index - row.lookback_rows) + a.info.execution_index
         = row.evaluation_start_index + StepsDone
  BY <1>1, <1>12 DEF InfoOf, back
<1>15. /\ a.info.execution_timestamp = l.info.execution_timestamp
       /\ l.info.execution_timestamp = s.info.execution_timestamp
       /\ l.info.execution_price = s.info.execution_price
       /\ l.info.close_price = s.info.close_price
       /\ l.info.swap_cost = Environment.swapLong * l.info.swap_events_on_step
       /\ s.info.swap_cost = Environment.swapShort * s.info.swap_events_on_step
       /\ Environment.swapLong > 0 /\ Environment.swapShort > 0 =>
              l.info.swap_events_on_step = s.info.swap_events_on_step
  BY <1>1, <1>4, <1>5, <1>6, <1>7 DEF InfoOf
<1>16. RunnerAccepts(a, l, s)
  BY <1>9, <1>13, <1>14, <1>15 DEF RunnerAccepts, index, last
<1>17. HasLedger(l.environment) /\ HasLedger(s.environment)
  BY <1>5, <1>6, <1>7
<1> QED
  BY <1>16, <1>17 DEF market, a, l, s

-----------------------------------------------------------------------------
(* The ledgers of an evaluation *)

\* The ledgers while the runner steps, and the lists the metrics add up.
Ledgers ==
    /\ trace.positions \in Seq(Positions) /\ trace.step_swap_costs \in Seq(Nat)
    /\ trace.step_swap_events \in Seq(Nat) /\ Len(trace.step_swap_events) = StepsDone
    /\ trace.shaped_rewards \in Seq(Int) /\ Len(trace.shaped_rewards) = StepsDone
    /\ Ledger(agent, Sum(trace.step_swap_costs), Sum(trace.step_swap_events)) /\ Aged(agent)
    /\ HasLedger(always_long) /\ HasLedger(always_short)

\* The greater of two numbers is a number.
LEMMA MaxOfTwo == \A a, b \in Int : Max({a, b}) \in Int
<1> SUFFICES ASSUME NEW a \in Int, NEW b \in Int PROVE Max({a, b}) \in Int
  OBVIOUS
<1>1. {a, b} \in SUBSET Int /\ a \in {a, b} /\ b \in {a, b}
  OBVIOUS
<1>2. CASE a <= b
  <2>1. \A y \in {a, b} : y <= b
    BY <1>2
  <2> QED
    BY <1>1, <2>1, MaxIs
<1>3. CASE ~ (a <= b)
  <2>1. \A y \in {a, b} : y <= a
    BY <1>3
  <2> QED
    BY <1>1, <2>1, MaxIs
<1> QED
  BY <1>2, <1>3

\* A shaped reward is a whole number.
LEMMA RewardIs ==
    ASSUME NEW c,
           {c.profitMult, c.lossMult, c.scale, c.exposurePenalty, c.turnoverPenalty,
            c.drawdownPenalty} \subseteq Int,
           NEW x \in Int, NEW y \in Int, NEW z \in Int, NEW w \in Int
    PROVE  RewardOf(c, x, y, z, w) \in Int
<1> DEFINE mult == IF x >= 0 THEN c.profitMult ELSE c.lossMult
           scale == c.scale
           gain == x * mult * scale
           exposure == c.exposurePenalty * y
           turnover == c.turnoverPenalty * z
           drawdown == c.drawdownPenalty * w * scale
<1>1. mult \in Int /\ scale \in Int
  OBVIOUS
<1>2. gain \in Int
  <2> HIDE DEF mult, scale
  <2>1. x * mult \in Int
    BY <1>1
  <2> QED
    BY <1>1, <2>1
<1>3. exposure \in Int /\ turnover \in Int
  OBVIOUS
<1>4. drawdown \in Int
  <2> HIDE DEF scale
  <2>1. c.drawdownPenalty * w \in Int
    OBVIOUS
  <2> QED
    BY <1>1, <2>1
<1>5. RewardOf(c, x, y, z, w) = gain - exposure - turnover - drawdown
  BY DEF RewardOf
<1> HIDE DEF gain, exposure, turnover, drawdown
<1> QED
  BY <1>2, <1>3, <1>4, <1>5

\* The reward of a turn is one.
LEMMA RewardIsWhole ==
    ASSUME request \in Requests, Terms, Books, NEW bar, IsNext(bar), NEW action,
           PositionTargets(Environment.position_side)[action + 1] \in Positions,
           Agent(WithBar(bar), action).info.drawdown \in Int
    PROVE  Agent(WithBar(bar), action).info.reward \in Int
<1> DEFINE market == WithBar(bar)
           target == PositionTargets(Environment.position_side)[action + 1]
           a == Agent(market, action)
           n == Now
           before == Equity(agent, market[n].close)
<1>1. BarsInv /\ ListsInv /\ AgentInv /\ PeaksInv
  BY DEF Books
<1>2. target \in Positions /\ target \in Int
  BY DEF Positions
<1>3. a.info.position_during_bar = target /\ a.info.equity \in Int
  <2> HIDE DEF target
  <2>1. PositionTargets(Environment.position_side)[action + 1] = target
    BY DEF target
  <2> QED
    BY <1>1, <1>2, <2>1, AgentTurns
<1>4. a.info.reward =
        RewardOf(Environment, a.info.equity - before, AbsInt(a.info.position_during_bar),
                 AbsInt(target - agent.position),
                 Max({0, a.info.drawdown - Drawdown(agent, before)}))
  <2> DEFINE i == agent.current_index + 1
             count == SwapEvents(agent, Environment, market[n].t, market[i].t)
             traded == ApplyTarget(ApplySwap(agent, Environment, market[n].t, market[i].t),
                                   Environment, target, market[i].open, i)
             held == [traded EXCEPT !.hold_bars = @ + AbsInt(traded.position),
                                    !.current_index = i, !.steps = @ + 1]
             final == Settled(held, Environment, market[i], i, i >= LocalRows - 1)
  <2>1. agent.current_index = n
    BY <1>1 DEF BarsInv
  <2>2. a.info = StepInfo(agent, traded, final, Environment, before, market[i], count, target)
    BY <2>1 DEF Agent, StepCore
  <2> HIDE DEF a, traded, final, count, target, before, market
  <2> QED
    BY <2>2 DEF StepInfo
<1>5. before \in Int
  <2>1. /\ n \in Int /\ LocalObservation <= n
        /\ \A k \in LocalObservation .. n + 1 : market[k].t \in Int /\ market[k].close \in Nat \ {0}
        /\ \A k \in LocalObservation .. n : market[k] = frame[k]
    BY <1>1, MarketGrows
  <2>2. LocalObservation \in Int
    BY <1>1 DEF BarsInv
  <2>3. market[n].close \in Nat
    BY <2>1, <2>2
  <2>4. /\ Book(agent, Sum(trace.step_swap_costs))
        /\ Holds(agent, frame, trace.positions, n, n)
    BY <1>1 DEF AgentInv
  <2> HIDE DEF market, n
  <2> QED
    BY <2>3, <2>4, EquityIsWhole
<1>6. agent.equity_peak \in Int /\ agent.position \in Int
  <2>1. /\ trace.agent_equity \in Seq(Int) /\ Len(trace.agent_equity) = StepsDone
    BY <1>1 DEF ListsInv, Lists
  <2>2. StepsDone \in Nat /\ \A i \in 1 .. StepsDone : trace.agent_equity[i] \in Int
    BY <2>1
  <2>3. agent.equity_peak \in Int
    BY <1>1, <2>2, PeakIs DEF PeaksInv
  <2> QED
    BY <1>1, <2>3 DEF AgentInv, Book, Positions
<1>7. Drawdown(agent, before) \in Int
  <2> HIDE DEF before
  <2>1. agent.equity_peak - before \in Int
    BY <1>5, <1>6
  <2> QED
    BY <2>1, MaxOfTwo DEF Drawdown
<1>8. {Environment.profitMult, Environment.lossMult, Environment.scale,
       Environment.exposurePenalty, Environment.turnoverPenalty,
       Environment.drawdownPenalty} \subseteq Int
  BY MarketAssumption DEF Environment
<1>9. a.info.drawdown \in Int
  OBVIOUS
<1> HIDE DEF a, target, before
<1>10. Max({0, a.info.drawdown - Drawdown(agent, before)}) \in Int
  <2>1. a.info.drawdown - Drawdown(agent, before) \in Int
    BY <1>7, <1>9
  <2> QED
    BY <2>1, MaxOfTwo
<1>11. AbsInt(a.info.position_during_bar) \in Int /\ AbsInt(target - agent.position) \in Int
       /\ a.info.equity - before \in Int
  BY <1>2, <1>3, <1>5, <1>6 DEF AbsInt
<1>12. a.info.reward \in Int
  BY <1>4, <1>8, <1>10, <1>11, RewardIs
<1> QED
  BY <1>12 DEF a, market

\* A list that grows keeps its kind, and its sum grows by the last.
LEMMA ListOfKindGrows ==
    ASSUME NEW S \in SUBSET Int, NEW s \in Seq(S), NEW x \in S
    PROVE  /\ Append(s, x) \in Seq(S) /\ Len(Append(s, x)) = Len(s) + 1
           /\ Sum(Append(s, x)) = Sum(s) + x /\ Sum(s) \in Int
<1> DEFINE n == Len(s)
           t == Append(s, x)
<1>1. t \in Seq(S) /\ Len(t) = n + 1 /\ n \in Nat
      /\ t[n + 1] = x /\ \A k \in 1 .. n : t[k] = s[k]
  OBVIOUS
<1>2. s \in [1 .. n -> Int] /\ t \in [1 .. n + 1 -> Int]
  <2>1. s \in [1 .. n -> S]
    OBVIOUS
  <2>2. s \in [1 .. n -> Int]
    <3> HIDE DEF n, t
    <3>1. S \subseteq Int
      OBVIOUS
    <3> QED
      BY <2>1, <3>1
  <2> HIDE DEF t
  <2> QED
    BY <1>1, <2>2
<1> HIDE DEF t, n
<1>3. Sum(t) = Sum(s) + t[n + 1] /\ Sum(s) \in Int
  BY <1>1, <1>2, SumGrows
<1> QED
  BY <1>1, <1>3 DEF t, n

\* A turn keeps the ledgers.
LEMMA TurnKeepsLedgers ==
    ASSUME request \in Requests, Terms, Books, Ledgers, NEW bar, IsNext(bar), NEW action,
           PositionTargets(Environment.position_side)[action + 1] \in Positions,
           row.lookback_rows \in Int, row.steps_expected \in Int,
           row.evaluation_start_index \in Int,
           StepsDone < row.steps_expected, Turn(WithBar(bar), action)
    PROVE  Ledgers'
<1> DEFINE market == WithBar(bar)
           target == PositionTargets(Environment.position_side)[action + 1]
           a == Agent(market, action)
           l == Long(market)
           s == Short(market)
           costs == Sum(trace.step_swap_costs)
           counts == Sum(trace.step_swap_events)
<1>1. BarsInv /\ ListsInv /\ AgentInv /\ PeaksInv /\ BenchmarksInv
  BY DEF Books
<1>2. /\ Environment' = Environment /\ StepsDone' = StepsDone + 1 /\ StepsDone \in Nat
  BY <1>1, TurnCounts
<1>3. /\ agent' = a.environment /\ always_long' = l.environment
      /\ always_short' = s.environment /\ trace' = Recorded(a, l, s)
  BY DEF Turn
<1>4. Nat \in SUBSET Int /\ Int \in SUBSET Int
  OBVIOUS
<1>5. costs \in Int /\ counts \in Int
  <2>1. 0 \in Nat /\ trace.step_swap_costs \in Seq(Nat) /\ trace.step_swap_events \in Seq(Nat)
    BY DEF Ledgers
  <2> QED
    BY <1>4, <2>1, ListOfKindGrows
<1>6. target \in Positions
  OBVIOUS
<1> HIDE DEF costs, counts
<1>7. /\ InfoOf(a, agent, market)
      /\ Ledger(a.environment, costs + a.info.swap_cost, counts + a.info.swap_events_on_step)
      /\ Aged(a.environment)
  BY <1>1, <1>5, AgentInfo DEF Ledgers, costs, counts
<1>8. HasLedger(l.environment) /\ HasLedger(s.environment)
  <2>1. HasLedger(agent) /\ HasLedger(always_long) /\ HasLedger(always_short)
    BY <1>5 DEF Ledgers, HasLedger, costs, counts
  <2> QED
    BY <1>1, <2>1, RunnerAgrees DEF HasLedger
<1>9. a.info.position_during_bar = target /\ a.info.swap_cost \in Nat
  <2> HIDE DEF target
  <2>1. PositionTargets(Environment.position_side)[action + 1] = target
    BY DEF target
  <2> QED
    BY <1>1, <1>6, <2>1, AgentTurns
<1>10. a.info.drawdown \in Int
  <2>1. Books'
    BY TurnKeepsBooks
  <2>2. trace'.drawdowns \in Seq(Int) /\ Len(trace'.drawdowns) = StepsDone + 1
    BY <1>2, <2>1 DEF Books, ListsInv, Lists
  <2>3. trace'.drawdowns[StepsDone + 1] \in Int
    BY <1>2, <2>2
  <2>4. trace'.drawdowns = Append(trace.drawdowns, a.info.drawdown)
    BY <1>3 DEF Recorded
  <2>5. trace.drawdowns \in Seq(Int) /\ Len(trace.drawdowns) = StepsDone
    BY <1>1 DEF ListsInv, Lists
  <2> HIDE DEF a
  <2>6. trace'.drawdowns[StepsDone + 1] = a.info.drawdown
    BY <2>4, <2>5
  <2> QED
    BY <2>3, <2>6
<1>11. a.info.reward \in Int
  BY <1>10, RewardIsWhole
<1>12. a.info.swap_events_on_step \in Nat
  BY <1>7 DEF InfoOf
<1>13. /\ trace'.positions = Append(trace.positions, target)
       /\ trace'.step_swap_costs = Append(trace.step_swap_costs, a.info.swap_cost)
       /\ trace'.step_swap_events = Append(trace.step_swap_events, a.info.swap_events_on_step)
       /\ trace'.shaped_rewards = Append(trace.shaped_rewards, a.info.reward)
  BY <1>3, <1>9 DEF Recorded
<1> HIDE DEF a, l, s, target, market
<1>14. /\ trace'.positions \in Seq(Positions)
       /\ trace'.step_swap_costs \in Seq(Nat) /\ Sum(trace'.step_swap_costs) = costs + a.info.swap_cost
       /\ trace'.step_swap_events \in Seq(Nat) /\ Len(trace'.step_swap_events) = StepsDone + 1
       /\ Sum(trace'.step_swap_events) = counts + a.info.swap_events_on_step
       /\ trace'.shaped_rewards \in Seq(Int) /\ Len(trace'.shaped_rewards) = StepsDone + 1
  <2>1. Positions \in SUBSET Int /\ trace.positions \in Seq(Positions)
    BY DEF Positions, Ledgers
  <2>2. /\ trace.step_swap_costs \in Seq(Nat) /\ trace.step_swap_events \in Seq(Nat)
        /\ Len(trace.step_swap_events) = StepsDone
        /\ trace.shaped_rewards \in Seq(Int) /\ Len(trace.shaped_rewards) = StepsDone
    BY DEF Ledgers
  <2>3. Append(trace.positions, target) \in Seq(Positions)
    BY <1>6, <2>1, ListOfKindGrows
  <2>4. /\ Append(trace.step_swap_costs, a.info.swap_cost) \in Seq(Nat)
        /\ Sum(Append(trace.step_swap_costs, a.info.swap_cost)) = costs + a.info.swap_cost
    BY <1>4, <1>9, <2>2, ListOfKindGrows DEF costs
  <2>5. /\ Append(trace.step_swap_events, a.info.swap_events_on_step) \in Seq(Nat)
        /\ Len(Append(trace.step_swap_events, a.info.swap_events_on_step))
             = Len(trace.step_swap_events) + 1
        /\ Sum(Append(trace.step_swap_events, a.info.swap_events_on_step))
             = counts + a.info.swap_events_on_step
    BY <1>4, <1>12, <2>2, ListOfKindGrows DEF counts
  <2>6. /\ Append(trace.shaped_rewards, a.info.reward) \in Seq(Int)
        /\ Len(Append(trace.shaped_rewards, a.info.reward)) = Len(trace.shaped_rewards) + 1
    BY <1>4, <1>11, <2>2, ListOfKindGrows
  <2>7. /\ Len(trace.step_swap_events) + 1 = StepsDone + 1
        /\ Len(trace.shaped_rewards) + 1 = StepsDone + 1
    BY <2>2
  <2> QED
    BY <1>13, <2>3, <2>4, <2>5, <2>6, <2>7
<1>15. Ledger(agent, Sum(trace.step_swap_costs), Sum(trace.step_swap_events))' /\ Aged(agent)'
  <2>1. Ledger(agent', Sum(trace'.step_swap_costs), Sum(trace'.step_swap_events)) /\ Aged(agent')
    BY <1>3, <1>7, <1>14
  <2> QED
    BY <1>2, <2>1 DEF Ledger, Aged, Tape, Entry
<1>16. HasLedger(always_long)' /\ HasLedger(always_short)'
  BY <1>2, <1>3, <1>8 DEF HasLedger, Ledger, Aged, Tape, Entry
<1> QED
  BY <1>2, <1>14, <1>15, <1>16 DEF Ledgers

\* A new environment has an empty ledger.
LEMMA NewLedger ==
    ASSUME NEW i
    PROVE  Ledger(ResetState(i), 0, 0) /\ Aged(ResetState(i))
<1> DEFINE e == ResetState(i)
<1>1. /\ DOMAIN e = AgentFields /\ e.position = 0
      /\ e.position_swap_cost = 0 /\ e.position_swap_events = 0 /\ e.hold_bars = 0
      /\ e.trade_events = <<>>
  BY DEF ResetState, AgentFields
<1> HIDE DEF e
<1>2. Tape(<<>>)
  <2>1. <<>> \in Seq({}) /\ DOMAIN <<>> = {}
    OBVIOUS
  <2> QED
    BY <2>1 DEF Tape
<1>3. PositionAfter(<<>>) = 0
  BY DEF PositionAfter, Scores!PositionBefore
<1>4. SwapOf(<<>>) = 0 /\ CountOf(<<>>) = 0
  <2>1. DOMAIN Scores!Closes(<<>>) = {}
    BY NoTotals
  <2>2. \A s : DOMAIN s = {} => Swaps(s) = <<>> /\ SwapCounts(s) = <<>>
    BY DEF Swaps, SwapCounts
  <2> QED
    BY <2>1, <2>2, NoSum DEF SwapOf, CountOf
<1>5. Ledger(e, 0, 0) /\ Aged(e)
  BY <1>1, <1>2, <1>3, <1>4 DEF Ledger, Aged, Positions
<1> QED
  BY <1>5 DEF e

\* The ledgers of a new evaluation are empty.
LEMMA LedgersBegin ==
    ASSUME request \in Requests, Terms, trace = EmptyTrace, Prepare
    PROVE  Ledgers'
<1> DEFINE new == ResetState(LocalObservation)
<1>1. Environment' = Environment
  BY TermsStay DEF Prepare, inputs, Terms
<1>2. /\ agent' = new /\ always_long' = new /\ always_short' = new /\ trace' = EmptyTrace
  BY DEF Prepare
<1>3. Ledger(new, 0, 0) /\ Aged(new)
  BY NewLedger
<1> HIDE DEF new
<1>4. /\ trace'.positions = <<>> /\ trace'.step_swap_costs = <<>>
      /\ trace'.step_swap_events = <<>> /\ trace'.shaped_rewards = <<>>
      /\ StepsDone' = 0
  BY <1>2 DEF EmptyTrace, StepsDone
<1>5. Ledger(agent', Sum(trace'.step_swap_costs), Sum(trace'.step_swap_events)) /\ Aged(agent')
  BY <1>2, <1>3, <1>4, NoSum
<1>6. Ledger(agent, Sum(trace.step_swap_costs), Sum(trace.step_swap_events))' /\ Aged(agent)'
  BY <1>1, <1>5 DEF Ledger, Aged, Tape, Entry
<1>7. HasLedger(always_long') /\ HasLedger(always_short')
  <2>1. 0 \in Int
    OBVIOUS
  <2> QED
    BY <1>2, <1>3, <2>1 DEF HasLedger
<1>8. HasLedger(always_long)' /\ HasLedger(always_short)'
  BY <1>1, <1>7 DEF HasLedger, Ledger, Aged, Tape, Entry
<1>9. /\ <<>> \in Seq(Positions) /\ <<>> \in Seq(Nat) /\ <<>> \in Seq(Int) /\ Len(<<>>) = 0
  OBVIOUS
<1> QED
  BY <1>4, <1>6, <1>8, <1>9 DEF Ledgers

\* The closed trades of a tape are those the metrics are about.
LEMMA TapeCloses ==
    ASSUME NEW s, Tape(s)
    PROVE  \E S : ClosedList(S, Scores!Closes(s))
<1>1. PICK S : s \in Seq(S)
  BY DEF Tape
<1> DEFINE old == Scores!Closes(s)
<1>2. PICK c \in Nat :
        /\ DOMAIN old = 1 .. c
        /\ \A i \in 1 .. c : \E k \in DOMAIN s : old[i] = s[k] /\ s[k].event = "CLOSE"
  BY <1>1, ClosesGrow
<1>3. old = [i \in DOMAIN old |-> old[i]]
  BY ClosesOf DEF Scores!At
<1> HIDE DEF old
<1>4. \A i \in 1 .. c : Closed(old[i]) /\ \E k \in DOMAIN s : old[i] = s[k]
  BY <1>2 DEF Tape, Entry
<1>5. \A k \in DOMAIN s : s[k] \in S
  BY <1>1
<1>6. old \in [1 .. c -> S]
  BY <1>2, <1>3, <1>4, <1>5
<1>7. old \in Seq(S)
  BY <1>6
<1>8. ClosedList(S, old)
  BY <1>2, <1>4, <1>7 DEF ClosedList
<1> QED
  BY <1>8 DEF old

\* The fees of logged events add up to a number.
LEMMA FeesAreWhole ==
    ASSUME NEW s, Logged(s)
    PROVE  FeeOf(s) \in Int
<1>1. PICK S : s \in Seq(S)
  BY DEF Logged
<1> DEFINE n == Len(s)
<1>2. n \in Nat /\ DOMAIN s = 1 .. n
  BY <1>1
<1>3. \A k \in DOMAIN s : EventFee(s[k]) \in Int
  BY DEF Logged, Priced, EventFee
<1> HIDE DEF n
<1>4. Fees(s) \in [1 .. n -> Int]
  BY <1>2, <1>3 DEF Fees
<1> QED
  BY <1>2, <1>4, SumIsWhole DEF FeeOf

\* What a finished loop has collected can be scored.
LEMMA CollectedIsScorable ==
    ASSUME Terms, Books, Ledgers, StepsDone > 0
    PROVE  Scorable(Collected)
<1> DEFINE c == Collected
           n == StepsDone
           close == frame[agent.current_index].close
<1>1. BarsInv /\ ListsInv /\ AgentInv
  BY DEF Books
<1>2. /\ c.agent_equity = trace.agent_equity
      /\ c.always_long_equity = trace.always_long_equity
      /\ c.always_short_equity = trace.always_short_equity
      /\ c.positions = trace.positions /\ c.shaped_rewards = trace.shaped_rewards
      /\ c.step_swap_costs = trace.step_swap_costs
      /\ c.step_swap_events = trace.step_swap_events
      /\ c.trade_events = agent.trade_events
      /\ c.open_position_return_at_end = UnrealizedReturn(agent, close)
  BY DEF Collected
<1>3. UnrealizedReturn(agent, close) \in Int
  <2>1. agent.current_index = Now /\ close \in Nat
    BY <1>1 DEF BarsInv, Now
  <2>2. /\ Book(agent, Sum(trace.step_swap_costs))
        /\ Holds(agent, frame, trace.positions, Now, Now)
    BY <1>1 DEF AgentInv
  <2> HIDE DEF close
  <2> QED
    BY <2>1, <2>2, EquityIsWhole
<1> HIDE DEF c, close
<1>4. Tape(agent.trade_events)
  BY DEF Ledgers, Ledger
<1>5. /\ \E S : c.trade_events \in Seq(S)
      /\ \E S : ClosedList(S, Scores!Closes(c.trade_events))
  BY <1>2, <1>4, TapeCloses DEF Tape
<1>6. FeeOf(c.trade_events) \in Int
  <2>1. Logged(agent.trade_events)
    BY <1>1 DEF AgentInv, Book
  <2> QED
    BY <1>2, <2>1, FeesAreWhole
<1>7. /\ trace.agent_equity \in Seq(Int) /\ Len(trace.agent_equity) = n
      /\ trace.always_long_equity \in Seq(Int) /\ Len(trace.always_long_equity) = n
      /\ trace.always_short_equity \in Seq(Int) /\ Len(trace.always_short_equity) = n
      /\ Len(trace.positions) = n /\ Len(trace.step_swap_costs) = n
  BY <1>1 DEF ListsInv, Lists
<1>8. /\ trace.positions \in Seq(Positions) /\ trace.step_swap_costs \in Seq(Nat)
      /\ trace.step_swap_events \in Seq(Nat) /\ Len(trace.step_swap_events) = n
      /\ trace.shaped_rewards \in Seq(Int) /\ Len(trace.shaped_rewards) = n
  BY DEF Ledgers
<1>9. trace.agent_equity # <<>>
  BY <1>7
<1> HIDE DEF n
<1>10. /\ c.agent_equity # <<>> /\ c.agent_equity \in Seq(Int) /\ Len(c.agent_equity) = n
       /\ c.always_long_equity \in Seq(Int) /\ Len(c.always_long_equity) = n
       /\ c.always_short_equity \in Seq(Int) /\ Len(c.always_short_equity) = n
  BY <1>2, <1>7, <1>9
<1>11. /\ c.positions \in Seq(Positions) /\ Len(c.positions) = n
       /\ c.shaped_rewards \in Seq(Int) /\ Len(c.shaped_rewards) = n
       /\ c.step_swap_costs \in Seq(Nat) /\ Len(c.step_swap_costs) = n
       /\ c.step_swap_events \in Seq(Nat) /\ Len(c.step_swap_events) = n
  BY <1>2, <1>7, <1>8
<1>12. c.open_position_return_at_end \in Int
  BY <1>2, <1>3
<1>13. Scorable(c)
  BY <1>5, <1>6, <1>10, <1>11, <1>12 DEF Scorable
<1> QED
  BY <1>13 DEF c

\* The metrics raise no error about it.
LEMMA CollectedIsAccepted ==
    ASSUME Terms, Books, Ledgers, StepsDone > 0
    PROVE  Scores!Accepted(Collected)
<1> DEFINE c == Collected
           n == Len(c.agent_equity)
           costs == Sum(trace.step_swap_costs)
           counts == Sum(trace.step_swap_events)
<1>1. Scorable(c)
  BY CollectedIsScorable
<1>2. /\ c.trade_events = agent.trade_events /\ c.step_swap_costs = trace.step_swap_costs
      /\ c.step_swap_events = trace.step_swap_events
  BY DEF Collected
<1>3. Ledger(agent, costs, counts)
  BY DEF Ledgers
<1>4. Tape(agent.trade_events)
  BY <1>3 DEF Ledger
<1> HIDE DEF c
<1>5. Scores!LengthsAgree(c)
  BY <1>1 DEF Scores!LengthsAgree, Scorable
<1>6. Scores!ValuesInRange(c)
  <2>1. /\ c.positions \in Seq(Positions) /\ Len(c.positions) = n
        /\ c.step_swap_costs \in Seq(Nat) /\ Len(c.step_swap_costs) = n
        /\ c.step_swap_events \in Seq(Nat) /\ Len(c.step_swap_events) = n
    BY <1>1 DEF Scorable
  <2> HIDE DEF n
  <2>2. DOMAIN c.positions = 1 .. n
        /\ \A k \in 1 .. n : c.positions[k] \in Positions
    BY <2>1
  <2>3. \A k \in 1 .. n : c.step_swap_costs[k] \in Nat
    BY <2>1
  <2>4. \A k \in 1 .. n : c.step_swap_events[k] \in Nat
    BY <2>1
  <2> QED
    BY <2>2, <2>3, <2>4 DEF Scores!ValuesInRange, Positions
<1>7. \A k \in DOMAIN c.trade_events : Scores!EventAccepted(c.trade_events, k)
  BY <1>2, <1>4 DEF Tape
<1>8. Scores!SwapsAgree(c)
  <2> DEFINE closes == Scores!Closes(c.trade_events)
  <2>1. /\ SwapOf(agent.trade_events) + agent.position_swap_cost = costs
        /\ CountOf(agent.trade_events) + agent.position_swap_events = counts
        /\ agent.position_swap_cost \in Nat /\ agent.position_swap_events \in Nat
    BY <1>3 DEF Ledger
  <2>2. SwapOf(agent.trade_events) \in Int /\ CountOf(agent.trade_events) \in Int
    BY <1>4, TapeIsWhole
  <2>3. SwapOf(agent.trade_events) <= costs /\ CountOf(agent.trade_events) <= counts
    <3> HIDE DEF costs, counts
    <3> QED
      BY <2>1, <2>2
  <2>4. /\ Scores!Total(LAMBDA ev : ev.swap_cost, closes) = SwapOf(agent.trade_events)
        /\ Scores!Total(LAMBDA ev : ev.swap_events, closes) = CountOf(agent.trade_events)
    BY <1>2, OpsOnCosts DEF SwapOf, CountOf
  <2>5. /\ Scores!Total(Scores!Itself, c.step_swap_costs) = costs
        /\ Scores!Total(Scores!Itself, c.step_swap_events) = counts
    <3>1. trace.step_swap_costs \in Seq(Int) /\ trace.step_swap_events \in Seq(Int)
      BY DEF Ledgers
    <3> QED
      BY <1>2, <3>1, TotalIs
  <2> HIDE DEF costs, counts
  <2> QED
    BY <2>3, <2>4, <2>5 DEF Scores!SwapsAgree
<1>9. Scores!Accepted(c)
  BY <1>5, <1>6, <1>7, <1>8 DEF Scores!Accepted
<1> QED
  BY <1>9 DEF c

-----------------------------------------------------------------------------
(* The row of the evaluation *)

\* The columns of the policy.
PolicyColumns == {"policy_mode", "threshold_action", "probability_threshold"}

RowFits ==
    /\ row # NoValue \/ Scoring => RowAllowed(row)
    /\ phase \in {"pending", "running", "stepping"} =>
           /\ row.status = IF phase = "pending" THEN "pending" ELSE "running"
           /\ \A f \in PolicyColumns : row[f] = PendingRow[f]

\* A row keeps to the constraints if its progress does.
LEMMA RowProgresses ==
    ASSUME NEW r, NEW q, RowAllowed(r),
           \A f \in PolicyColumns \cup {"data_scope", "data_sha256", "data_rows",
                    "evaluation_start_index", "evaluation_end_index", "lookback_rows",
                    "steps_expected"} : q[f] = r[f],
           q.steps_completed \in 0 .. q.steps_expected, ~ Null(q.steps_completed),
           StatusFields(q),
           q.status = "completed" =>
               \E a : Scorable(a) /\ q.metrics = Scores!Metrics(a)
    PROVE  RowAllowed(q)
<1>1. /\ q.policy_mode = r.policy_mode /\ q.threshold_action = r.threshold_action
      /\ q.probability_threshold = r.probability_threshold
      /\ q.data_scope = r.data_scope /\ q.data_sha256 = r.data_sha256
      /\ q.data_rows = r.data_rows
      /\ q.evaluation_start_index = r.evaluation_start_index
      /\ q.evaluation_end_index = r.evaluation_end_index
      /\ q.lookback_rows = r.lookback_rows /\ q.steps_expected = r.steps_expected
  BY DEF PolicyColumns
<1>2. DefinitionColumns(r) /\ PolicyFields(r) /\ RangeChecks(r)
  BY DEF RowAllowed
<1>3. DefinitionColumns(q)
  <2>1. q.status \in EvaluationStatuses
    BY DEF StatusFields, EvaluationStatuses
  <2>2. q.data_scope \in DataScopes
    BY <1>1, <1>2 DEF DefinitionColumns
  <2>3. \A f \in {"data_sha256", "data_rows", "evaluation_start_index", "evaluation_end_index",
                  "lookback_rows", "steps_expected"} : ~ Null(q[f])
    BY <1>2 DEF DefinitionColumns
  <2> QED
    BY <2>1, <2>2, <2>3 DEF DefinitionColumns
<1>4. PolicyFields(q)
  BY <1>1, <1>2 DEF PolicyFields
<1>5. RangeChecks(q)
  BY <1>1, <1>2 DEF RangeChecks
<1>6. CASE q.status # "completed"
  BY <1>3, <1>4, <1>5, <1>6 DEF RowAllowed
<1>7. CASE q.status = "completed"
  <2>1. PICK a : Scorable(a) /\ q.metrics = Scores!Metrics(a)
    BY <1>7
  <2> DEFINE m == q.metrics
  <2>2. /\ MetricColumns(m) /\ CompletedCoreMetrics(m) /\ MetricRanges(m)
        /\ MetricCountsNonnegative(m) /\ TradeCountConsistency(m)
        /\ RoundTripNullability(m) /\ SideNullability(m) /\ WinLossNullability(m)
        /\ HoldingPeriodOrder(m) /\ StreakConsistency(m)
    BY <2>1, MetricsAllowed
  <2> QED
    BY <1>3, <1>4, <1>5, <2>2 DEF RowAllowed
<1> QED
  BY <1>6, <1>7

\* The row once the runner is called.
StartedRow == [row EXCEPT !.status = "running", !.started = TRUE]

\* The rows that an evaluation writes.
LEMMA RowsAllowed ==
    ASSUME DOMAIN row = DOMAIN PendingRow, RowAllowed(row)
    PROVE  /\ row.status = "pending" =>
                  /\ RowAllowed(StartedRow) /\ StartedRow.status = "running"
                  /\ \A f \in PolicyColumns : StartedRow[f] = row[f]
           /\ RowAllowed(Failed)
           /\ row.status = "running" /\ row.steps_expected \in Nat
                 /\ StepsDone = row.steps_expected /\ Scorable(Collected) =>
                  RowAllowed(CompletedRow)
<1> DEFINE shared == PolicyColumns \cup {"data_scope", "data_sha256", "data_rows",
                        "evaluation_start_index", "evaluation_end_index", "lookback_rows",
                        "steps_expected"}
<1>1. /\ shared \cup {"status", "started", "finished", "error", "steps_completed", "metrics"}
           \subseteq DOMAIN row
      /\ shared \cap {"status", "started", "finished", "error", "steps_completed", "metrics"} = {}
  BY DEF PendingRow, PolicyColumns
<1>2. /\ row.steps_completed \in 0 .. row.steps_expected /\ ~ Null(row.steps_completed)
      /\ StatusFields(row)
  BY DEF RowAllowed, RangeChecks, DefinitionColumns
<1>3. ASSUME row.status = "pending"
      PROVE  /\ RowAllowed(StartedRow) /\ StartedRow.status = "running"
             /\ \A f \in PolicyColumns : StartedRow[f] = row[f]
  <2> DEFINE q == StartedRow
  <2>1. /\ \A f \in shared : q[f] = row[f]
        /\ q.status = "running" /\ q.started = TRUE /\ q.finished = row.finished
        /\ q.error = row.error /\ q.steps_completed = row.steps_completed
    BY <1>1 DEF StartedRow
  <2>2. q.steps_expected = row.steps_expected /\ \A f \in PolicyColumns : q[f] = row[f]
    BY <2>1
  <2> HIDE DEF q, shared
  <2>3. StatusFields(q)
    BY <1>2, <1>3, <2>1 DEF StatusFields
  <2>4. RowAllowed(q)
    BY <1>2, <2>1, <2>2, <2>3, RowProgresses DEF shared
  <2> QED
    BY <2>1, <2>2, <2>4 DEF q
<1>4. RowAllowed(Failed)
  <2> DEFINE q == Failed
  <2>1. /\ \A f \in shared : q[f] = row[f]
        /\ q.status = "failed" /\ q.started = TRUE /\ q.finished = TRUE /\ q.error = TRUE
        /\ q.steps_completed = row.steps_completed
    BY <1>1 DEF Failed
  <2>2. q.steps_expected = row.steps_expected
    BY <2>1
  <2> HIDE DEF q, shared
  <2>3. StatusFields(q)
    BY <2>1 DEF StatusFields
  <2>4. RowAllowed(q)
    BY <1>2, <2>1, <2>2, <2>3, RowProgresses DEF shared
  <2> QED
    BY <2>4 DEF q
<1>5. ASSUME row.status = "running", row.steps_expected \in Nat,
             StepsDone = row.steps_expected, Scorable(Collected)
      PROVE  RowAllowed(CompletedRow)
  <2> DEFINE q == CompletedRow
  <2>1. /\ \A f \in shared : q[f] = row[f]
        /\ q.status = "completed" /\ q.started = row.started /\ q.finished = TRUE
        /\ q.error = row.error /\ q.steps_completed = StepsDone
        /\ q.metrics = Scores!Metrics(Collected)
    BY <1>1 DEF CompletedRow
  <2>2. q.steps_expected = row.steps_expected
    BY <2>1
  <2> HIDE DEF q, shared
  <2>3. StatusFields(q)
    BY <1>2, <1>5, <2>1, <2>2 DEF StatusFields
  <2>4. q.steps_completed \in 0 .. q.steps_expected /\ ~ Null(q.steps_completed)
    <3>1. q.steps_completed \in Nat /\ q.steps_completed = q.steps_expected
      BY <1>5, <2>1, <2>2
    <3> QED
      BY <3>1, NullIs
  <2>5. RowAllowed(q)
    BY <1>5, <2>1, <2>3, <2>4, RowProgresses DEF shared
  <2> QED
    BY <2>5 DEF q
<1> QED
  BY <1>3, <1>4, <1>5

-----------------------------------------------------------------------------
(* The evaluations that complete *)

\* What lets an evaluation go on to its end.
CompletesInv ==
    /\ ~ Uncommitted => Table!RunAllowed(run)
    /\ FitInv
    /\ RowFits
    /\ phase = "stepping" => Ledgers
    /\ Completable /\ phase \in {"refused", "failed"} => SourceDamaged

\* The runner prepares what fits the run.
LEMMA RunnerIsPrepared ==
    ASSUME DiskInv, DataInv, RunInv, RowInv, TrainingInv, ScoringInv, FitInv, RowFits,
           Completable, phase = "running"
    PROVE  RunnerPrepares
<1> DEFINE side == Environment.position_side
           e == request.evaluation
<1>1. /\ request \in Requests /\ side \in Sides
      /\ row.lookback_rows = Lookback /\ Lookback \in Nat \ {0}
      /\ row.steps_expected \in Nat \ {0}
  BY Parameters DEF Scoring
<1>2. model.spaces = Spaces(Environment)
  BY DEF FitInv, Fits, HasModel
<1>3. AcceptsStart(LocalRows, LocalObservation, Lookback)
  BY <1>1 DEF AcceptsStart, LocalRows, LocalObservation
<1>4. /\ row.policy_mode = e.policy_mode /\ row.threshold_action = e.threshold_action
      /\ row.probability_threshold = e.probability_threshold
  <2>1. \A f \in PolicyColumns : row[f] = PendingRow[f]
    BY DEF RowFits
  <2> QED
    BY <2>1 DEF PolicyColumns, PendingRow
<1>5. SelectorAccepts(e.policy_mode, Len(PositionTargets(side)), e.threshold_action,
                      e.probability_threshold)
  <2>1. Config!PolicyFieldsValid(e, ProbabilityUnit) /\ Config!ActionSpaceValid(e, side)
    BY DEF Completable, DefinitionAccepted
  <2>2. Len(PositionTargets(side)) = IF side = "long_short" THEN 3 ELSE 2
    BY <1>1 DEF Sides, PositionTargets
  <2> HIDE DEF e, side
  <2> QED
    BY <2>1, <2>2 DEF SelectorAccepts, Config!PolicyFieldsValid, Config!ActionSpaceValid,
       Config!Present
<1> QED
  BY <1>2, <1>3, <1>4, <1>5 DEF RunnerPrepares

\* What an evaluation starts from, with the range as numbers.
LEMMA EvaluationStarts ==
    ASSUME DiskInv, DataInv, RunInv, RowInv, TrainingInv, ScoringInv, Scoring
    PROVE  /\ row.evaluation_start_index \in Int
           /\ DOMAIN row = DOMAIN PendingRow
<1>1. /\ request \in Requests /\ Prepared /\ Rows \in Int
      /\ run.window_metadata = Split.window_metadata /\ run.split_index = Split.split_index
  BY ScoringRun DEF Scoring, Uncommitted
<1>2. /\ \A f \in RowColumns : row[f] = PendingRow[f]
      /\ ScopeAccepted /\ reader.frame = start.data /\ DOMAIN row = DOMAIN PendingRow
  BY DEF ScoringInv, RowInv, DataAgrees, Scoring
<1>3. row.evaluation_start_index = EvaluationRange.start
  BY <1>2, RowIs DEF RowColumns
<1> QED
  BY <1>1, <1>2, <1>3, ScoredRange

\* A step is a turn that the runner accepts.
LEMMA StepsAreTurns ==
    ASSUME DiskInv, DataInv, RunInv, RowInv, TrainingInv, ScoringInv, Books, Ledgers,
           row.policy_mode \in PolicyModes, Step
    PROVE  UNCHANGED <<startVars, row>> /\ Ledgers'
<1>1. phase = "stepping" /\ Scoring /\ StepsDone < row.steps_expected
  BY DEF Step, Scoring
<1>2. /\ request \in Requests /\ Terms
      /\ Environment.position_side \in Sides
      /\ row.lookback_rows \in Int /\ row.steps_expected \in Int
      /\ row.evaluation_start_index \in Int
  BY <1>1, Parameters, EvaluationStarts
<1>3. PICK bar, action :
          /\ IsNext(bar)
          /\ PositionTargets(Environment.position_side)[action + 1] \in Positions
          /\ StepOn(bar, action)
  BY <1>2, StepTakes DEF Books
<1> DEFINE market == WithBar(bar)
<1>4. RunnerAccepts(Agent(market, action), Long(market), Short(market))
  <2>1. /\ \E costs, counts \in Int : Ledger(agent, costs, counts) /\ Aged(agent)
        /\ HasLedger(always_long) /\ HasLedger(always_short)
    <3>1. Sum(trace.step_swap_costs) \in Int /\ Sum(trace.step_swap_events) \in Int
      <4>1. Nat \in SUBSET Int /\ 0 \in Nat
        OBVIOUS
      <4>2. trace.step_swap_costs \in Seq(Nat) /\ trace.step_swap_events \in Seq(Nat)
        BY DEF Ledgers
      <4> QED
        BY <4>1, <4>2, ListOfKindGrows
    <3> QED
      BY <3>1 DEF Ledgers
  <2> HIDE DEF market
  <2> QED
    BY <1>1, <1>2, <1>3, <2>1, RunnerAgrees DEF Books, market
<1>5. Turn(market, action) /\ UNCHANGED <<startVars, row>>
  BY <1>3, <1>4, StepIsTurn DEF StepOn, Agent, Long, Short
<1>6. Ledgers'
  BY <1>1, <1>2, <1>3, <1>5, TurnKeepsLedgers
<1> QED
  BY <1>5, <1>6

\* Whether an evaluation can be completed, and its run, stay as they are.
LEMMA RunStays ==
    ASSUME UNCHANGED <<request, start, run>>
    PROVE  /\ Completable' <=> Completable
           /\ SourceDamaged' <=> SourceDamaged
           /\ Table!RunAllowed(run)' <=> Table!RunAllowed(run)
<1>1. (Completable' <=> Completable) /\ (SourceDamaged' <=> SourceDamaged)
  BY CompletableStays, ParametersStay
<1>2. Table!RunAllowed(run') <=> Table!RunAllowed(run)
  OBVIOUS
<1> QED
  BY <1>1, <1>2

\* An evaluation of a request that fits the run goes on.
LEMMA EvaluationCompletesInv ==
    ASSUME SInv, BooksInv, CompletesInv, FitInv', Evaluate
    PROVE  CompletesInv'
<1>1. /\ DiskInv /\ ReaderInv /\ DataInv /\ RunInv /\ RowInv /\ TrainingInv
      /\ ScoringInv /\ TraceInv /\ FitInv /\ RowFits
  BY DEF SInv, TInv, IInv, ScoringInv, CompletesInv
<1>2. /\ UNCHANGED <<request, start, run, reader>>
      /\ phase \in {"requested", "pending", "running", "stepping"}
      /\ ~ Uncommitted
      /\ PendingRow' = PendingRow
      /\ (Completable' <=> Completable)
      /\ (SourceDamaged' <=> SourceDamaged)
      /\ (Table!RunAllowed(run)' <=> Table!RunAllowed(run))
  <2>1. UNCHANGED <<request, start, run, reader>>
    BY EvaluateFrame DEF inputs
  <2>2. phase \in {"requested", "pending", "running", "stepping"} /\ ~ Uncommitted
    BY EvaluateFrame DEF Uncommitted
  <2> QED
    BY <2>1, <2>2, RunStays, RangeStays
<1>3. Table!RunAllowed(run)'
  BY <1>2 DEF CompletesInv
<1>4. ASSUME RowFits', phase' = "stepping" => Ledgers',
             Completable => phase' \notin {"refused", "failed"}
      PROVE  CompletesInv'
  BY <1>2, <1>3, <1>4 DEF CompletesInv
<1>5. ASSUME phase \in {"pending", "running", "stepping"}
      PROVE  /\ Scoring /\ RowAllowed(row) /\ DOMAIN row = DOMAIN PendingRow
             /\ request \in Requests /\ Terms /\ row.steps_expected \in Nat \ {0}
  <2>1. Scoring
    BY <1>5 DEF Scoring
  <2> QED
    BY <1>1, <2>1, Parameters, EvaluationStarts DEF RowFits
<1>6. ASSUME Fail, phase \in {"pending", "running", "stepping"}, ~ Completable
      PROVE  CompletesInv'
  <2>1. phase' = "failed" /\ row' = Failed
    BY <1>6 DEF Fail
  <2>2. RowAllowed(Failed)
    BY <1>5, <1>6, RowsAllowed
  <2>3. RowFits'
    BY <2>1, <2>2 DEF RowFits
  <2> QED
    BY <1>4, <1>6, <2>1, <2>3
<1>7. CASE Unreadable
  <2>1. phase' = "unreadable" /\ row' = row
    BY <1>7 DEF Unreadable, evaluationVars
  <2>2. RowFits'
    BY <1>1, <2>1 DEF RowFits, Scoring
  <2> QED
    BY <1>4, <2>1, <2>2
<1>8. CASE Refuse
  <2>1. /\ phase = "requested" /\ phase' = "refused" /\ row' = row
        /\ reader.stage = "loaded" /\ SourceDataMatches /\ ~ RequestAccepted
    BY <1>8 DEF Refuse, Answered, evaluationVars
  <2>2. ~ Completable
    BY <1>1, <1>2, <2>1, RequestIsAccepted DEF CompletesInv
  <2>3. RowFits'
    BY <1>1, <2>1 DEF RowFits, Scoring
  <2> QED
    BY <1>4, <2>1, <2>2, <2>3
<1>9. CASE CreatePending
  <2>1. /\ phase' = "pending" /\ row' = PendingRow /\ RowAllowed(PendingRow)
    BY <1>9 DEF CreatePending, Answered, RequestAccepted
  <2>2. PendingRow.status = "pending"
    BY DEF PendingRow
  <2>3. RowFits'
    BY <1>2, <2>1, <2>2 DEF RowFits
  <2> QED
    BY <1>4, <2>1, <2>3
<1>10. CASE MarkRunning
  <2>1. /\ phase = "pending" /\ phase' = "running" /\ row' = StartedRow
        /\ row.status = "pending"
    BY <1>10 DEF MarkRunning, StartedRow
  <2>2. /\ RowAllowed(StartedRow) /\ StartedRow.status = "running"
        /\ \A f \in PolicyColumns : StartedRow[f] = row[f]
    BY <1>5, <2>1, RowsAllowed
  <2>3. \A f \in PolicyColumns : row[f] = PendingRow[f]
    BY <1>1, <2>1 DEF RowFits
  <2>4. RowFits'
    BY <1>2, <2>1, <2>2, <2>3 DEF RowFits
  <2> QED
    BY <1>4, <2>1, <2>4
<1>11. CASE Prepare
  <2>1. phase = "running" /\ phase' = "stepping" /\ row' = row
    BY <1>11 DEF Prepare
  <2>2. trace = EmptyTrace
    BY <1>1, <2>1 DEF TraceInv
  <2>3. Ledgers'
    BY <1>5, <1>11, <2>1, <2>2, LedgersBegin
  <2>4. RowFits'
    BY <1>1, <1>2, <2>1 DEF RowFits, Scoring
  <2> QED
    BY <1>4, <2>1, <2>3, <2>4
<1>12. CASE PrepareFails
  <2>1. phase = "running" /\ ~ RunnerPrepares /\ Fail
    BY <1>12 DEF PrepareFails
  <2>2. ~ Completable
    BY <1>1, <2>1, RunnerIsPrepared
  <2> QED
    BY <1>6, <2>1, <2>2
<1>13. CASE Step
  <2>1. phase = "stepping" /\ Books /\ Ledgers /\ row.policy_mode \in PolicyModes
    BY <1>13 DEF Step, BooksInv, CompletesInv
  <2>2. UNCHANGED <<startVars, row>> /\ Ledgers'
    BY <1>1, <1>13, <2>1, StepsAreTurns
  <2>3. phase' = phase /\ row' = row
    BY <2>2 DEF startVars
  <2>4. RowFits'
    BY <1>1, <1>2, <2>3 DEF RowFits, Scoring
  <2> QED
    BY <1>4, <2>1, <2>2, <2>3, <2>4
<1>14. CASE Finish
  <2>1. /\ phase = "stepping" /\ StepsDone = row.steps_expected
        /\ Books /\ Ledgers /\ row.status = "running"
    BY <1>1, <1>14 DEF Finish, BooksInv, CompletesInv, RowFits
  <2>2. StepsDone > 0 /\ Terms
    BY <1>5, <2>1
  <2>3. Scores!Accepted(Collected) /\ Scorable(Collected)
    BY <2>1, <2>2, CollectedIsAccepted, CollectedIsScorable
  <2>4. RowAllowed(CompletedRow)
    BY <1>5, <2>1, <2>3, RowsAllowed
  <2>5. phase' = "completed" /\ row' = CompletedRow
    BY <1>14, <2>1, <2>3, <2>4 DEF Finish, ResultAccepted
  <2>6. RowFits'
    BY <2>4, <2>5 DEF RowFits
  <2> QED
    BY <1>4, <2>5, <2>6
<1> QED
  BY <1>7, <1>8, <1>9, <1>10, <1>11, <1>12, <1>13, <1>14 DEF Evaluate

\* The other steps leave the evaluation alone.
LEMMA CompletesKept == SInv /\ BooksInv /\ CompletesInv /\ [Next]_vars => CompletesInv'
<1> SUFFICES ASSUME SInv, BooksInv, CompletesInv, [Next]_vars PROVE CompletesInv'
  OBVIOUS
<1>1. /\ DiskInv /\ DataInv /\ RunInv /\ TrainingInv /\ ModelInv /\ FitInv /\ RowFits
      /\ CatalogInv /\ SourceInv
  BY DEF SInv, TInv, IInv, CompletesInv
<1>2. FitInv'
  BY <1>1, FitKept
<1>3. CASE Evaluate
  BY <1>2, <1>3, EvaluationCompletesInv
<1>4. ASSUME UNCHANGED evaluationVars, ~ Scoring', phase # "stepping"
      PROVE  RowFits' /\ phase' # "stepping"
  <2>1. row' = row
    BY <1>4 DEF evaluationVars
  <2> QED
    BY <1>1, <1>4, <2>1 DEF RowFits, Scoring
<1>5. CASE Train /\ UNCHANGED evaluationVars
  <2>1. /\ UNCHANGED <<request, start>>
        /\ phase \in {"creating", "created", "training"}
        /\ phase' \in {"created", "rejected", "training", "failed", "requested"}
    BY <1>5, TrainFrame
  <2>2. RowFits' /\ phase' # "stepping"
    BY <1>4, <1>5, <2>1 DEF Scoring
  <2>3. /\ ~ Uncommitted' => Table!RunAllowed(run)'
        /\ phase' = "failed" => run'.status = "failed"
    BY <1>1, <1>5, RunStaysAllowed DEF CompletesInv
  <2>4. phase' = "failed" => SourceDamaged'
    <3>1. TrainingInv'
      BY <1>1, TrainingKept
    <3> QED
      BY <2>3, <3>1 DEF TrainingInv, Uncommitted
  <2> QED
    BY <1>2, <2>1, <2>2, <2>3, <2>4 DEF CompletesInv
<1>6. CASE /\ UNCHANGED evaluationVars
           /\ Configure \/ Read \/ ReadingFails \/ KeepEntry \/ KeepFrame \/ Resolve
  <2>1. \/ /\ UNCHANGED <<phase, request, start, run>>
        \/ /\ phase \in {"given", "verifying", "loading", "resolving"}
           /\ phase' \in {"verifying", "loading", "resolving", "creating", "rejected"}
    BY <1>6 DEF Configure, Read, ReadingFails, KeepEntry, KeepFrame, Resolve
  <2>2. CASE /\ phase \in {"given", "verifying", "loading", "resolving"}
             /\ phase' \in {"verifying", "loading", "resolving", "creating", "rejected"}
    <3>1. Uncommitted'
      BY <2>2 DEF Uncommitted
    <3>2. RowFits' /\ phase' # "stepping"
      BY <1>4, <1>6, <2>2 DEF Scoring
    <3> QED
      BY <1>2, <2>2, <3>1, <3>2 DEF CompletesInv
  <2>3. CASE UNCHANGED <<phase, request, start, run>>
    <3>1. phase \in {"given", "verifying", "loading", "resolving", "requested"}
      BY <1>6 DEF Configure, Read, ReadingFails, KeepEntry, KeepFrame, Resolve
    <3>2. RowFits' /\ phase' # "stepping"
      BY <1>4, <1>6, <2>3, <3>1 DEF Scoring
    <3>3. Table!RunAllowed(run)' <=> Table!RunAllowed(run)
      BY <2>3, RunStays
    <3> QED
      BY <1>2, <2>3, <3>1, <3>2, <3>3 DEF CompletesInv, Uncommitted
  <2> QED
    BY <2>1, <2>2, <2>3
<1>7. CASE ((Import \/ CleanSource) /\ UNCHANGED evaluationVars) \/ UNCHANGED vars
  <2>1. UNCHANGED <<phase, request, start, run, evaluationVars>>
    BY <1>7 DEF Import, CleanSource, Data!ImportFile, Data!ImportManifest, vars, startVars
  <2>2. UNCHANGED <<row, frame, agent, always_long, always_short, trace>>
    BY <2>1 DEF evaluationVars, environments
  <2>3. /\ (Completable' <=> Completable) /\ (SourceDamaged' <=> SourceDamaged)
        /\ (Table!RunAllowed(run)' <=> Table!RunAllowed(run))
    BY <2>1, RunStays
  <2>4. Scoring => UNCHANGED reader
    BY <1>7, <2>1 DEF Import, CleanSource, Data!ImportFile, Data!ImportManifest, vars,
       startVars, Scoring
  <2>5. RowFits'
    <3>1. CASE Scoring
      <4>1. PendingRow' = PendingRow
        BY <2>1, <2>4, <3>1, RangeStays
      <4> QED
        BY <1>1, <2>1, <2>2, <4>1 DEF RowFits, Scoring
    <3>2. CASE ~ Scoring
      BY <1>1, <2>1, <2>2, <3>2 DEF RowFits, Scoring
    <3> QED
      BY <3>1, <3>2
  <2>6. Ledgers' <=> Ledgers
    <3>1. StepsDone' = StepsDone /\ Environment' = Environment
      BY <2>1, <2>2 DEF StepsDone, Environment
    <3>2. \A s : Tape(s)' <=> Tape(s)
      BY <3>1 DEF Tape, Entry
    <3>3. \A e, costs, counts : Ledger(e, costs, counts)' <=> Ledger(e, costs, counts)
      BY <3>1, <3>2 DEF Ledger
    <3> QED
      BY <2>2, <3>1, <3>3 DEF Ledgers, HasLedger, Aged
  <2> QED
    BY <1>2, <2>1, <2>3, <2>5, <2>6 DEF CompletesInv, Uncommitted
<1> QED
  BY <1>3, <1>5, <1>6, <1>7, Steps

\* Nothing is evaluated at the start.
LEMMA CompletesInit == Init => CompletesInv
BY DEF Init, StartInit, CompletesInv, Uncommitted, FitInv, HasModel, RowFits, Scoring

\* While the runner steps, the ledgers of the three environments (every event
\* of the trades and what was charged for it) agree with the lists of the
\* loop, the two rows keep to the constraints of their tables, and a request
\* that fits its run is never refused.
THEOREM CompletesInvariant == Spec => [](SInv /\ BooksInv /\ CompletesInv)
<1>1. Init => SInv /\ BooksInv /\ CompletesInv
  BY InvariantInit, TrainingInit, ScoringInit, BooksInit, CompletesInit DEF SInv, TInv
<1>2. SInv /\ BooksInv /\ CompletesInv /\ [Next]_vars => (SInv /\ BooksInv /\ CompletesInv)'
  BY InvariantKept, TrainingKept, ScoringKept, BooksKept, CompletesKept DEF SInv, TInv, IInv
<1> QED
  BY <1>1, <1>2, PTL DEF Spec

\* What the components accept agrees: whatever passes the validators satisfies
\* the constraints of runs and trains; and the service, its runner, its metrics
\* and the constraints of evaluations refuse nothing about such a run for a
\* definition the validators accept, whatever the market and the policy do.
THEOREM EvaluationsComplete == Spec => []EvaluationCompletes
<1>1. SInv /\ BooksInv /\ CompletesInv => EvaluationCompletes
  <2> SUFFICES ASSUME SInv, CompletesInv PROVE EvaluationCompletes
    OBVIOUS
  <2>1. /\ DiskInv /\ DataInv /\ SourceInv /\ RunInv /\ TrainingInv /\ FitInv /\ RowFits
    BY DEF SInv, TInv, IInv, CompletesInv
  <2>2. phase = "creating" => Table!RunAllowed(PendingRun)
    BY <2>1, PendingRunAllowed
  <2>3. ~ Null(run) => Trainable /\ Table!RunAllowed(run)
    <3>1. ~ Null(run) => ~ Uncommitted
      BY <2>1 DEF RunInv, Null
    <3> QED
      BY <2>1, <3>1, RunIsTrainable DEF CompletesInv
  <2>4. ~ Null(model) /\ ~ Null(model.favoured) =>
            PositionTargets(Environment.position_side)[model.favoured + 1] = 1
    BY <2>1 DEF FitInv, Fits, Null
  <2>5. ~ Null(row) => RowAllowed(row)
    BY <2>1 DEF RowFits, Null
  <2>6. Completable /\ phase \in {"refused", "failed"} => SourceDamaged
    BY DEF CompletesInv
  <2> QED
    BY <2>2, <2>3, <2>4, <2>5, <2>6 DEF EvaluationCompletes, Completable
<1> QED
  BY <1>1, CompletesInvariant, PTL
=============================================================================
