--------------------------- MODULE StakingProofs ---------------------------
(***************************************************************************)
(* Theorems about the staking program, for every number of stakers, every  *)
(* table of locks, every word size and every fee, after the facts about    *)
(* finite sums that they rest on; and, from "An ideal ledger" on, about    *)
(* what stakers are paid and owed against the ledger of StakingShares.     *)
(*                                                                         *)
(* The library's induction theorems take the induction predicate as an     *)
(* operator, which the installed provers cannot instantiate.  The proofs   *)
(* by induction here go through IntervalInduction instead, where the       *)
(* predicate is a set; it rests on strict inclusion of the finite sets     *)
(* 0..i being well founded.                                                *)
(***************************************************************************)
EXTENDS StakingShares, FiniteSetTheorems, TLAPS

-----------------------------------------------------------------------------
(* Induction over a set *)

\* A set that holds 0 and is closed under successor up to n holds 0..n.
LEMMA IntervalInduction ==
  ASSUME NEW n \in Nat, NEW T,
         0 \in T,
         \A i \in 0..n : i # 0 /\ i - 1 \in T => i \in T
  PROVE  0..n \subseteq T
<1> DEFINE Bad == {i \in 0..n : i \notin T}
<1> DEFINE Prefixes == {0..i : i \in Bad}
<1>1. SUFFICES ASSUME Prefixes # {} PROVE FALSE
  OBVIOUS
<1>2. Prefixes \subseteq FiniteSubsetsOf(Nat)
  <2>1. ASSUME NEW i \in Bad PROVE 0..i \in FiniteSubsetsOf(Nat)
    <3>1. i \in Int /\ i \in Nat
      OBVIOUS
    <3>2. IsFiniteSet(0..i)
      BY <3>1, FS_Interval
    <3>3. 0..i \subseteq Nat
      BY <3>1
    <3> QED BY <3>2, <3>3 DEF FiniteSubsetsOf
  <2> QED BY <2>1
<1>3. IsWellFoundedOn(StrictSubsetOrdering(Nat), FiniteSubsetsOf(Nat))
  BY FS_StrictSubsetOrderingWellFounded
<1>4. PICK P \in Prefixes :
        \A Q \in Prefixes : ~(<<Q, P>> \in StrictSubsetOrdering(Nat))
  <2> HIDE DEF Prefixes
  <2> QED BY <1>1, <1>2, <1>3, WFMin
<1>5. PICK m \in Bad : P = 0..m
  OBVIOUS
<1>6. m \in 0..n /\ m \notin T /\ m # 0
  OBVIOUS
<1>7. m - 1 \in T
  <2>1. SUFFICES ASSUME m - 1 \notin T PROVE FALSE
    OBVIOUS
  <2>2. m - 1 \in Bad
    BY <1>6, <2>1
  <2>3. 0..(m - 1) \in Prefixes
    BY <2>2
  <2>4. /\ 0..(m - 1) \in SUBSET Nat /\ 0..m \in SUBSET Nat
        /\ 0..(m - 1) \subseteq 0..m
    BY <1>6
  <2>5. m \in 0..m /\ m \notin 0..(m - 1)
    BY <1>6
  <2>6. <<0..(m - 1), P>> \in StrictSubsetOrdering(Nat)
    <3> DEFINE A == 0..(m - 1)
               B == 0..m
    <3>1. A \in SUBSET Nat /\ B \in SUBSET Nat /\ A \subseteq B /\ A # B
      BY <2>4, <2>5
    <3> HIDE DEF A, B
    <3>2. <<A, B>> \in StrictSubsetOrdering(Nat)
      BY <3>1 DEF StrictSubsetOrdering
    <3> QED BY <3>2, <1>5 DEF A, B
  <2> QED BY <1>4, <2>3, <2>6
<1> QED BY <1>6, <1>7

-----------------------------------------------------------------------------
(* The recursive function exists *)

LEMMA PrefixSumFacts ==
  ASSUME NEW n \in Nat, NEW f \in [1..n -> Int]
  PROVE  /\ PrefixSum(f, n) \in [0..n -> Int]
         /\ PrefixSum(f, n)[0] = 0
         /\ \A i \in 1..n : PrefixSum(f, n)[i] = PrefixSum(f, n)[i - 1] + f[i]
<1> DEFINE Sums(g, k) == /\ g[0] = 0
                         /\ \A i \in 1..k : g[i] = g[i - 1] + f[i]
           T == {k \in 0..n : \E g \in [0..k -> Int] : Sums(g, k)}
<1>1. 0 \in T
  <2> DEFINE z == [i \in 0..0 |-> 0]
  <2>1. z \in [0..0 -> Int]
    OBVIOUS
  <2>2. Sums(z, 0)
    OBVIOUS
  <2>3. 0 \in 0..n
    OBVIOUS
  <2> HIDE DEF z
  <2> QED BY <2>1, <2>2, <2>3
<1>2. ASSUME NEW k \in 0..n, k # 0, k - 1 \in T PROVE k \in T
  <2>1. PICK g \in [0..(k - 1) -> Int] : Sums(g, k - 1)
    BY <1>2
  <2> DEFINE h == [i \in 0..k |-> IF i = k THEN g[k - 1] + f[k] ELSE g[i]]
  <2>2. k \in 1..n /\ k - 1 \in 0..(k - 1) /\ f[k] \in Int
    BY <1>2
  <2>3. h \in [0..k -> Int]
    BY <2>2
  <2>4. h[0] = 0
    BY <2>1, <2>2
  <2>5. ASSUME NEW i \in 1..k PROVE h[i] = h[i - 1] + f[i]
    <3>1. i - 1 \in 0..k /\ i - 1 # k /\ i \in 0..k
      BY <2>2
    <3>2. CASE i = k
      BY <3>1, <3>2
    <3>3. CASE i # k
      <4>1. i \in 1..(k - 1)
        BY <3>3, <2>2
      <4> QED BY <3>1, <3>3, <4>1, <2>1
    <3> QED BY <3>2, <3>3
  <2> HIDE DEF h
  <2> QED BY <2>3, <2>4, <2>5
<1>3. n \in T
  <2>1. n \in 0..n
    OBVIOUS
  <2> HIDE DEF T
  <2>2. 0..n \subseteq T
    BY <1>1, <1>2, IntervalInduction
  <2> QED BY <2>1, <2>2
<1>4. PICK g \in [0..n -> Int] : Sums(g, n)
  BY <1>3
<1> DEFINE Step(p) == [i \in 0..n |-> IF i = 0 THEN 0 ELSE p[i - 1] + f[i]]
<1>5. g = Step(g)
  <2>1. ASSUME NEW i \in 0..n PROVE g[i] = Step(g)[i]
    <3>1. CASE i = 0
      BY <3>1, <1>4
    <3>2. CASE i # 0
      <4>1. i \in 1..n
        BY <3>2
      <4> QED BY <3>2, <4>1, <1>4
    <3> QED BY <3>1, <3>2
  <2> QED BY <2>1
<1>6. PrefixSum(f, n) = CHOOSE p : p = Step(p)
  BY DEF PrefixSum
<1> DEFINE q == PrefixSum(f, n)
<1>7. q = Step(q)
  <2> HIDE DEF Step
  <2> QED BY <1>5, <1>6
<1> HIDE DEF q
<1>8. q[0] = 0
  BY <1>7
<1>9. \A i \in 1..n : q[i] = q[i - 1] + f[i]
  <2> SUFFICES ASSUME NEW i \in 1..n PROVE q[i] = q[i - 1] + f[i]
    OBVIOUS
  <2>1. i \in 0..n /\ i # 0
    OBVIOUS
  <2> QED BY <1>7, <2>1
<1>10. q \in [0..n -> Int]
  <2> DEFINE U == {i \in 0..n : q[i] \in Int}
  <2>1. 0 \in U
    BY <1>8
  <2>2. ASSUME NEW i \in 0..n, i # 0, i - 1 \in U PROVE i \in U
    <3>1. i \in 1..n /\ f[i] \in Int
      BY <2>2
    <3> QED BY <3>1, <1>9, <2>2
  <2>3. 0..n \subseteq U
    <3> HIDE DEF U
    <3> QED BY <2>1, <2>2, IntervalInduction
  <2>4. \A i \in 0..n : Step(q)[i] \in Int
    BY <2>3, <1>7
  <2>5. Step(q) \in [0..n -> Int]
    BY <2>4
  <2> QED BY <2>5, <1>7
<1> QED BY <1>8, <1>9, <1>10 DEF q

-----------------------------------------------------------------------------
(* Sums *)

\* The sum of integers is an integer.
LEMMA SumType ==
  ASSUME NEW n \in Nat, NEW f \in [1..n -> Int]
  PROVE  Sum(f, n) \in Int
<1>1. n \in 0..n
  OBVIOUS
<1> QED BY <1>1, PrefixSumFacts DEF Sum

\* A sum is monotonic in its terms.
LEMMA SumMono ==
  ASSUME NEW n \in Nat, NEW f \in [1..n -> Int], NEW g \in [1..n -> Int],
         \A i \in 1..n : f[i] <= g[i]
  PROVE  Sum(f, n) <= Sum(g, n)
<1> DEFINE p == PrefixSum(f, n)
           q == PrefixSum(g, n)
           T == {i \in 0..n : p[i] <= q[i]}
<1>1. /\ p \in [0..n -> Int] /\ p[0] = 0
      /\ \A i \in 1..n : p[i] = p[i - 1] + f[i]
  BY PrefixSumFacts
<1>2. /\ q \in [0..n -> Int] /\ q[0] = 0
      /\ \A i \in 1..n : q[i] = q[i - 1] + g[i]
  BY PrefixSumFacts
<1> HIDE DEF p, q
<1>3. 0 \in T
  BY <1>1, <1>2
<1>4. ASSUME NEW i \in 0..n, i # 0, i - 1 \in T PROVE i \in T
  <2>1. i \in 1..n /\ i - 1 \in 0..n
    BY <1>4
  <2>2. /\ p[i - 1] \in Int /\ q[i - 1] \in Int
        /\ f[i] \in Int /\ g[i] \in Int /\ f[i] <= g[i]
    BY <2>1, <1>1, <1>2
  <2>3. p[i] = p[i - 1] + f[i] /\ q[i] = q[i - 1] + g[i]
    BY <2>1, <1>1, <1>2
  <2>4. p[i - 1] <= q[i - 1]
    BY <1>4
  <2>5. p[i] <= q[i]
    BY <2>2, <2>3, <2>4
  <2> QED BY <2>5
<1>5. 0..n \subseteq T
  <2> HIDE DEF T
  <2> QED BY <1>3, <1>4, IntervalInduction
<1>6. n \in 0..n
  OBVIOUS
<1> QED BY <1>5, <1>6 DEF Sum, p, q

\* Multiplication of integers, stated once for terms the provers do not type.
LEMMA Products ==
  \A c, x, y \in Int : c * x \in Int /\ c * (x + y) = c * x + c * y
OBVIOUS

\* Sums add term by term.
LEMMA SumPlus ==
  ASSUME NEW n \in Nat,
         NEW f \in [1..n -> Int], NEW g \in [1..n -> Int],
         NEW h \in [1..n -> Int],
         \A i \in 1..n : h[i] = f[i] + g[i]
  PROVE  Sum(h, n) = Sum(f, n) + Sum(g, n)
<1> DEFINE p == PrefixSum(f, n)
           q == PrefixSum(g, n)
           r == PrefixSum(h, n)
           T == {i \in 0..n : r[i] = p[i] + q[i]}
<1>1. /\ p \in [0..n -> Int] /\ p[0] = 0
      /\ \A i \in 1..n : p[i] = p[i - 1] + f[i]
  BY PrefixSumFacts
<1>2. /\ q \in [0..n -> Int] /\ q[0] = 0
      /\ \A i \in 1..n : q[i] = q[i - 1] + g[i]
  BY PrefixSumFacts
<1>3. /\ r \in [0..n -> Int] /\ r[0] = 0
      /\ \A i \in 1..n : r[i] = r[i - 1] + h[i]
  BY PrefixSumFacts
<1> HIDE DEF p, q, r
<1>4. 0 \in T
  BY <1>1, <1>2, <1>3
<1>5. ASSUME NEW i \in 0..n, i # 0, i - 1 \in T PROVE i \in T
  <2>1. i \in 1..n /\ i - 1 \in 0..n
    BY <1>5
  <2>2. /\ p[i - 1] \in Int /\ q[i - 1] \in Int
        /\ f[i] \in Int /\ g[i] \in Int
    BY <2>1, <1>1, <1>2
  <2>3. r[i] = (p[i - 1] + q[i - 1]) + (f[i] + g[i])
    BY <2>1, <1>3, <1>5
  <2>4. p[i] = p[i - 1] + f[i] /\ q[i] = q[i - 1] + g[i]
    BY <2>1, <1>1, <1>2
  <2>5. \A a, b, c, d \in Int : (a + b) + (c + d) = (a + c) + (b + d)
    OBVIOUS
  <2>6. r[i] = (p[i - 1] + f[i]) + (q[i - 1] + g[i])
    BY <2>2, <2>3, <2>5
  <2>7. r[i] = p[i] + q[i]
    BY <2>4, <2>6
  <2> QED BY <2>7
<1>6. 0..n \subseteq T
  <2> HIDE DEF T
  <2> QED BY <1>4, <1>5, IntervalInduction
<1>7. n \in 0..n
  OBVIOUS
<1> QED BY <1>6, <1>7 DEF Sum, p, q, r

\* A common factor of the terms is a factor of the sum.
LEMMA SumScaled ==
  ASSUME NEW n \in Nat, NEW c \in Int,
         NEW f \in [1..n -> Int], NEW h \in [1..n -> Int],
         \A i \in 1..n : h[i] = c * f[i]
  PROVE  Sum(h, n) = c * Sum(f, n)
<1> DEFINE p == PrefixSum(f, n)
           r == PrefixSum(h, n)
           T == {i \in 0..n : r[i] = c * p[i]}
<1>1. /\ p \in [0..n -> Int] /\ p[0] = 0
      /\ \A i \in 1..n : p[i] = p[i - 1] + f[i]
  BY PrefixSumFacts
<1>2. /\ r \in [0..n -> Int] /\ r[0] = 0
      /\ \A i \in 1..n : r[i] = r[i - 1] + h[i]
  BY PrefixSumFacts
<1> HIDE DEF p, r
<1>3. 0 \in T
  BY <1>1, <1>2
<1>4. ASSUME NEW i \in 0..n, i # 0, i - 1 \in T PROVE i \in T
  <2>1. i \in 1..n /\ i - 1 \in 0..n
    BY <1>4
  <2>2. p[i - 1] \in Int /\ f[i] \in Int
    BY <2>1, <1>1
  <2>3. r[i] = c * p[i - 1] + c * f[i]
    BY <2>1, <1>2, <1>4
  <2>4. c * (p[i - 1] + f[i]) = c * p[i - 1] + c * f[i]
    BY <2>2, Products
  <2>5. p[i] = p[i - 1] + f[i]
    BY <2>1, <1>1
  <2>6. r[i] = c * p[i]
    BY <2>3, <2>4, <2>5
  <2> QED BY <2>6
<1>5. 0..n \subseteq T
  <2> HIDE DEF T
  <2> QED BY <1>3, <1>4, IntervalInduction
<1>6. n \in 0..n
  OBVIOUS
<1> QED BY <1>5, <1>6 DEF Sum, p, r

\* Terms that are all zero add up to zero.
LEMMA SumZero ==
  ASSUME NEW n \in Nat, NEW f \in [1..n -> Int],
         \A i \in 1..n : f[i] = 0
  PROVE  Sum(f, n) = 0
<1>1. \A i \in 1..n : f[i] = f[i] + f[i]
  OBVIOUS
<1>2. Sum(f, n) = Sum(f, n) + Sum(f, n)
  BY <1>1, SumPlus
<1> QED BY <1>2, SumType

\* Natural terms have a natural sum.
LEMMA SumOfNaturals ==
  ASSUME NEW n \in Nat, NEW f \in [1..n -> Nat]
  PROVE  Sum(f, n) \in Nat
<1> DEFINE z == [i \in 1..n |-> 0]
<1>1. f \in [1..n -> Int] /\ z \in [1..n -> Int]
  OBVIOUS
<1>2. \A i \in 1..n : z[i] = 0 /\ z[i] <= f[i]
  OBVIOUS
<1> HIDE DEF z
<1>3. Sum(z, n) = 0
  BY <1>1, <1>2, SumZero
<1>4. Sum(z, n) <= Sum(f, n)
  BY <1>1, <1>2, SumMono
<1> QED BY <1>1, <1>3, <1>4, SumType

\* ... at least as large as any of them.
LEMMA TermBelowSum ==
  ASSUME NEW n \in Nat, NEW f \in [1..n -> Nat], NEW k \in 1..n
  PROVE  f[k] <= Sum(f, n)
<1> DEFINE p == PrefixSum(f, n)
           T == {i \in 0..n : p[i] >= 0 /\ (k <= i => f[k] <= p[i])}
<1>1. f \in [1..n -> Int] /\ k \in Nat /\ k > 0 /\ f[k] \in Nat
  OBVIOUS
<1>2. /\ p \in [0..n -> Int] /\ p[0] = 0
      /\ \A i \in 1..n : p[i] = p[i - 1] + f[i]
  BY <1>1, PrefixSumFacts
<1> HIDE DEF p
<1>3. 0 \in T
  BY <1>1, <1>2
<1>4. ASSUME NEW i \in 0..n, i # 0, i - 1 \in T PROVE i \in T
  <2>1. i \in 1..n /\ i - 1 \in 0..n
    BY <1>4
  <2>2. p[i - 1] \in Int /\ f[i] \in Nat
    BY <2>1, <1>2
  <2>3. p[i] = p[i - 1] + f[i]
    BY <2>1, <1>2
  <2>4. p[i - 1] >= 0 /\ (k <= i - 1 => f[k] <= p[i - 1])
    BY <1>4
  <2>5. p[i] >= 0
    BY <2>2, <2>3, <2>4
  <2>6. k <= i => f[k] <= p[i]
    <3>1. CASE k = i
      BY <3>1, <2>2, <2>3, <2>4
    <3>2. CASE k # i
      BY <3>2, <1>1, <2>1, <2>2, <2>3, <2>4
    <3> QED BY <3>1, <3>2
  <2> QED BY <2>5, <2>6
<1>5. 0..n \subseteq T
  <2> HIDE DEF T
  <2> QED BY <1>3, <1>4, IntervalInduction
<1>6. n \in 0..n /\ k <= n
  OBVIOUS
<1> QED BY <1>5, <1>6 DEF Sum, p

\* Replacing one term changes the sum by the difference.
LEMMA SumUpdate ==
  ASSUME NEW n \in Nat, NEW f \in [1..n -> Int], NEW k \in 1..n,
         NEW v \in Int
  PROVE  Sum([f EXCEPT ![k] = v], n) = Sum(f, n) + v - f[k]
<1> DEFINE h == [f EXCEPT ![k] = v]
           p == PrefixSum(f, n)
           r == PrefixSum(h, n)
           T == {i \in 0..n : r[i] = IF k <= i THEN p[i] + v - f[k] ELSE p[i]}
<1>1. /\ h \in [1..n -> Int] /\ h[k] = v
      /\ \A i \in 1..n : i # k => h[i] = f[i]
  OBVIOUS
<1>2. k \in Nat /\ k > 0 /\ f[k] \in Int
  OBVIOUS
<1>3. /\ p \in [0..n -> Int] /\ p[0] = 0
      /\ \A i \in 1..n : p[i] = p[i - 1] + f[i]
  BY PrefixSumFacts
<1> HIDE DEF h
<1>4. /\ r \in [0..n -> Int] /\ r[0] = 0
      /\ \A i \in 1..n : r[i] = r[i - 1] + h[i]
  BY <1>1, PrefixSumFacts
<1> HIDE DEF p, r
<1>5. 0 \in T
  BY <1>2, <1>3, <1>4
<1>6. ASSUME NEW i \in 0..n, i # 0, i - 1 \in T PROVE i \in T
  <2>1. i \in 1..n /\ i - 1 \in 0..n
    BY <1>6
  <2>2. /\ p[i - 1] \in Int /\ f[i] \in Int
        /\ p[i] = p[i - 1] + f[i] /\ r[i] = r[i - 1] + h[i]
    BY <2>1, <1>3, <1>4
  <2>3. r[i - 1] = IF k <= i - 1 THEN p[i - 1] + v - f[k] ELSE p[i - 1]
    BY <1>6
  <2>4. CASE k = i
    <3>1. ~(k <= i - 1) /\ h[i] = v /\ f[i] = f[k]
      BY <2>4, <1>1, <1>2
    <3>2. r[i] = p[i] + v - f[k]
      BY <3>1, <2>2, <2>3, <1>2
    <3> QED BY <3>2, <2>4, <1>2
  <2>5. CASE k # i
    <3>1. h[i] = f[i] /\ (k <= i - 1 <=> k <= i)
      BY <2>5, <1>1, <1>2, <2>1
    <3>2. r[i] = IF k <= i THEN p[i] + v - f[k] ELSE p[i]
      BY <3>1, <2>2, <2>3, <1>2
    <3> QED BY <3>2
  <2> QED BY <2>4, <2>5
<1>7. 0..n \subseteq T
  <2> HIDE DEF T
  <2> QED BY <1>5, <1>6, IntervalInduction
<1>8. n \in 0..n /\ k <= n
  OBVIOUS
<1> QED BY <1>7, <1>8 DEF Sum, p, r, h

-----------------------------------------------------------------------------
(* What the accounting helpers return *)

\* The quotient and remainder of naturals by a positive natural.
LEMMA DivisionFacts ==
  \A x \in Nat, y \in Nat \ {0} :
    /\ x \div y \in Nat
    /\ y * (x \div y) <= x
    /\ x % y \in Nat
    /\ x % y <= x
OBVIOUS

LEMMA NaturalProducts ==
  \A x, y \in Nat : x * y \in Nat
OBVIOUS

LEMMA WeightOfType ==
  ASSUME NEW a \in Nat, NEW days \in LockOptions
  PROVE  WeightOf(a, days) \in Nat
<1>1. Multiplier[days] \in Nat
  BY LockAssumption
<1>2. a * Multiplier[days] \in Nat
  BY <1>1, NaturalProducts
<1> QED BY <1>2, DivisionFacts DEF WeightOf

LEMMA FreshFeesType ==
  ASSUME TypeOK
  PROVE  FreshFees \in Nat
BY DEF TypeOK, FreshFees

\* Syncing the pool never lowers the accumulator.
LEMMA SyncedAccType ==
  ASSUME TypeOK
  PROVE  SyncedAcc \in Nat /\ acc <= SyncedAcc
<1>1. acc \in Nat /\ totalWeight \in Nat
  BY DEF TypeOK
<1>2. CASE totalWeight > 0
  <2>1. FreshFees * SCALE \in Nat
    BY FreshFeesType, NaturalProducts, UnitsAssumption
  <2>2. Increment \in Nat
    BY <1>1, <1>2, <2>1, DivisionFacts DEF Increment
  <2> QED BY <1>1, <1>2, <2>2 DEF SyncedAcc
<1>3. CASE ~(totalWeight > 0)
  BY <1>1, <1>3 DEF SyncedAcc
<1> QED BY <1>2, <1>3

LEMMA PendingType ==
  ASSUME TypeOK, NEW s \in Stakers, NEW a \in Nat, a > lastAcc[s]
  PROVE  /\ Pending(s, a) \in Nat
         /\ SCALE * Pending(s, a) <= (a - lastAcc[s]) * weight[s]
<1> DEFINE product == (a - lastAcc[s]) * weight[s]
           capped  == Min2(product, U128 - 1)
           whole   == capped \div SCALE
<1>1. a - lastAcc[s] \in Nat /\ weight[s] \in Nat
  BY DEF TypeOK
<1>2. product \in Nat
  BY <1>1, NaturalProducts
<1>3. capped \in Nat /\ capped <= product
  BY <1>2, UnitsAssumption DEF Min2
<1>4. whole \in Nat /\ SCALE * whole <= capped
  <2> HIDE DEF capped
  <2> QED BY <1>3, UnitsAssumption, DivisionFacts
<1>5. whole % U64 \in Nat /\ whole % U64 <= whole
  <2> HIDE DEF whole
  <2> QED BY <1>4, UnitsAssumption, DivisionFacts
<1>6. \A x, y \in Nat : x <= y => SCALE * x <= SCALE * y
  BY UnitsAssumption
<1>7. SCALE * (whole % U64) <= SCALE * whole
  <2> HIDE DEF whole
  <2> QED BY <1>4, <1>5, <1>6
<1>8. SCALE * (whole % U64) \in Nat /\ SCALE * whole \in Nat
  <2> HIDE DEF whole
  <2> QED BY <1>4, <1>5, NaturalProducts, UnitsAssumption
<1>9. SCALE * (whole % U64) <= product
  <2> HIDE DEF whole, capped, product
  <2> QED BY <1>2, <1>3, <1>4, <1>7, <1>8
<1> QED BY <1>5, <1>9 DEF Pending

\* A staker's bucket never shrinks when it accrues.
LEMMA AccruedType ==
  ASSUME TypeOK, NEW s \in Stakers, NEW a \in Nat
  PROVE  Accrued(s, a) \in Nat
<1>1. unclaimed[s] \in Nat /\ weight[s] \in Nat /\ lastAcc[s] \in Nat
  BY DEF TypeOK
<1>2. CASE weight[s] = 0 \/ a <= lastAcc[s]
  BY <1>1, <1>2 DEF Accrued
<1>3. CASE ~(weight[s] = 0 \/ a <= lastAcc[s])
  <2>1. Pending(s, a) \in Nat
    BY <1>1, <1>3, PendingType
  <2>2. Min2(unclaimed[s] + Pending(s, a), U64 - 1) \in Nat
    BY <1>1, <2>1, UnitsAssumption DEF Min2
  <2> QED BY <1>3, <2>2 DEF Accrued
<1> QED BY <1>2, <1>3

-----------------------------------------------------------------------------
(* Type correctness *)

LEMMA InitType == Init => TypeOK
<1> SUFFICES ASSUME Init PROVE TypeOK
  OBVIOUS
<1>1. feeVault \in Nat
  <2>1. PICK p \in Prefunding : feeVault = FeeVaultFloor + p
    BY DEF Init
  <2> QED BY <2>1, FundsAssumption
<1>2. [s \in Stakers |-> 0] \in [Stakers -> Nat]
  OBVIOUS
<1>3. wallet \in [Stakers -> Nat]
  BY FundsAssumption DEF Init
<1> QED BY <1>1, <1>2, <1>3 DEF Init, TypeOK

\* A payout the vault can make leaves a natural balance.
LEMMA PayoutType ==
  ASSUME TypeOK, NEW lamports \in Nat, VaultCanPay(lamports)
  PROVE  feeVault - lamports \in Nat
BY FundsAssumption DEF TypeOK, VaultCanPay

LEMMA StakeType ==
  ASSUME TypeOK, NEW s \in Stakers, NEW amt \in StakeAmounts,
         NEW days \in LockOptions, Stake(s, amt, days)
  PROVE  TypeOK'
<1> DEFINE newAmount == amount[s] + amt
           newWeight == WeightOf(newAmount, days)
           oldWeight == OldWeight(s)
<1>1. /\ amt \in Nat /\ days \in Nat /\ amount[s] \in Nat
      /\ weight[s] \in Nat /\ wallet[s] \in Nat
      /\ totalWeight \in Nat /\ kiriteVault \in Nat
  BY FundsAssumption, LockAssumption DEF TypeOK
<1>2. newAmount \in Nat
  BY <1>1
<1>3. newWeight \in Nat
  BY <1>2, WeightOfType
<1>4. oldWeight \in Nat /\ oldWeight <= totalWeight
  BY <1>1 DEF Stake, Settle, Holds, OldWeight
<1>5. totalWeight' \in Nat
  <2>1. totalWeight' = totalWeight - oldWeight + newWeight
    BY DEF Stake, Settle, Holds
  <2> HIDE DEF oldWeight, newWeight
  <2> QED BY <2>1, <1>1, <1>3, <1>4
<1>6. acc' \in Nat /\ lastAcc' \in [Stakers -> Nat]
  BY SyncedAccType DEF Stake, Settle, Holds, TypeOK
<1>7. unclaimed' \in [Stakers -> Nat]
  <2>1. Accrued(s, SyncedAcc) \in Nat
    BY SyncedAccType, AccruedType
  <2> QED BY <2>1 DEF Stake, Settle, Holds, TypeOK
<1>8. /\ weight' \in [Stakers -> Nat] /\ amount' \in [Stakers -> Nat]
      /\ lockDays' \in [Stakers -> Nat] /\ stakeAt' \in [Stakers -> Nat]
  <2>1. /\ weight' = [weight EXCEPT ![s] = newWeight]
        /\ amount' = [amount EXCEPT ![s] = newAmount]
    BY DEF Stake, Settle, Holds
  <2> HIDE DEF newWeight, newAmount
  <2> QED BY <2>1, <1>1, <1>2, <1>3 DEF Stake, Settle, Holds, TypeOK
<1>9. wallet' \in [Stakers -> Nat] /\ kiriteVault' \in Nat
  <2>1. wallet[s] - amt \in Nat
    BY <1>1 DEF Stake, Settle, Holds
  <2> QED BY <1>1, <2>1 DEF Stake, Settle, Holds, TypeOK
<1>10. UNCHANGED <<switchVars, feeVault, deposited, now>> /\ lastAccounted' = feeVault
  BY DEF Stake, Settle, Holds
<1> QED BY <1>5, <1>6, <1>7, <1>8, <1>9, <1>10 DEF TypeOK, switchVars

LEMMA ClaimType ==
  ASSUME TypeOK, NEW s \in Stakers, Claim(s)
  PROVE  TypeOK'
<1>1. acc' \in Nat /\ lastAcc' \in [Stakers -> Nat]
  BY SyncedAccType DEF Claim, Settle, PayOut, TypeOK
<1>2. unclaimed' \in [Stakers -> Nat]
  BY DEF Claim, Settle, PayOut, TypeOK
<1>3. feeVault' \in Nat /\ lastAccounted' \in Nat
  <2>1. Accrued(s, SyncedAcc) \in Nat
    BY SyncedAccType, AccruedType
  <2> QED BY <2>1, PayoutType DEF Claim, Settle, PayOut
<1> QED BY <1>1, <1>2, <1>3 DEF Claim, Settle, PayOut, TypeOK, switchVars

LEMMA UnstakeType ==
  ASSUME TypeOK, NEW s \in Stakers, Unstake(s)
  PROVE  TypeOK'
<1> DEFINE payout == Accrued(s, SyncedAcc)
           out    == IF claimEnabled THEN payout ELSE 0
<1>1. payout \in Nat /\ out \in Nat /\ payout - out \in Nat
  <2>1. payout \in Nat
    BY SyncedAccType, AccruedType
  <2> HIDE DEF payout
  <2> QED BY <2>1
<1>2. acc' \in Nat /\ lastAcc' \in [Stakers -> Nat]
  BY SyncedAccType DEF Unstake, ExitOpen, Settle, PayOut, Holds, ClosePosition, TypeOK
<1>3. unclaimed' \in [Stakers -> Nat]
  <2>1. unclaimed' = [unclaimed EXCEPT ![s] = payout - out]
    BY DEF Unstake, ExitOpen, Settle, PayOut, Holds, ClosePosition
  <2> HIDE DEF payout, out
  <2> QED BY <2>1, <1>1 DEF TypeOK
<1>4. feeVault' \in Nat /\ lastAccounted' \in Nat
  <2>1. /\ VaultCanPay(out) /\ feeVault' = feeVault - out
        /\ lastAccounted' = feeVault'
    BY DEF Unstake, ExitOpen, Settle, PayOut, Holds, ClosePosition
  <2> HIDE DEF out
  <2> QED BY <2>1, <1>1, PayoutType
<1>5. kiriteVault' \in Nat /\ wallet' \in [Stakers -> Nat]
  <2>1. /\ amount[s] \in Nat /\ kiriteVault \in Nat /\ wallet[s] \in Nat
        /\ amount[s] <= kiriteVault
    BY DEF TypeOK, Unstake, ExitOpen, Settle, PayOut, Holds, ClosePosition
  <2> QED BY <2>1 DEF Unstake, ExitOpen, Settle, PayOut, Holds, ClosePosition, TypeOK
<1>6. totalWeight' \in Nat
  BY DEF Unstake, ExitOpen, Settle, PayOut, Holds, ClosePosition, TypeOK
<1>7. /\ amount' \in [Stakers -> Nat] /\ weight' \in [Stakers -> Nat]
      /\ lockDays' \in [Stakers -> Nat] /\ stakeAt' \in [Stakers -> Nat]
  BY DEF Unstake, ExitOpen, Settle, PayOut, Holds, ClosePosition, TypeOK
<1>8. UNCHANGED <<switchVars, deposited, now>>
  BY DEF Unstake, ExitOpen, Settle, PayOut, Holds, ClosePosition
<1> QED BY <1>2, <1>3, <1>4, <1>5, <1>6, <1>7, <1>8 DEF TypeOK, switchVars

\* Every step keeps the types.
LEMMA NextType ==
  ASSUME TypeOK, [Next]_vars
  PROVE  TypeOK'
<1>1. ASSUME NEW enable \in BOOLEAN, SetClaimEnabled(enable) PROVE TypeOK'
  BY <1>1 DEF SetClaimEnabled, TypeOK, poolVars, stakeVars, chainVars
<1>2. ASSUME NEW enable \in BOOLEAN, SetDrainMode(enable) PROVE TypeOK'
  BY <1>2 DEF SetDrainMode, TypeOK, poolVars, stakeVars, chainVars
<1>3. ASSUME NEW s \in Stakers, NEW amt \in StakeAmounts,
             NEW days \in LockOptions, Stake(s, amt, days)
      PROVE  TypeOK'
  BY <1>3, StakeType
<1>4. ASSUME NEW s \in Stakers, Claim(s) PROVE TypeOK'
  BY <1>4, ClaimType
<1>5. ASSUME NEW s \in Stakers, Unstake(s) PROVE TypeOK'
  BY <1>5, UnstakeType
<1>6. ASSUME NEW d \in DepositSizes, DepositFees(d) PROVE TypeOK'
  BY <1>6, FundsAssumption
     DEF DepositFees, TypeOK, poolVars, switchVars, stakeVars
<1>7. CASE Tick
  BY <1>7 DEF Tick, TypeOK, poolVars, switchVars, stakeVars
<1>8. CASE UNCHANGED vars
  BY <1>8 DEF TypeOK, vars, poolVars, switchVars, stakeVars, chainVars
<1> QED BY <1>1, <1>2, <1>3, <1>4, <1>5, <1>6, <1>7, <1>8 DEF Next

\* No balance, weight or time of the staking program ever goes below zero.
THEOREM TypeCorrect == Spec => []TypeOK
<1>1. Init => TypeOK
  BY InitType
<1>2. TypeOK /\ [Next]_vars => TypeOK'
  BY NextType
<1> QED BY <1>1, <1>2, PTL DEF Spec

-----------------------------------------------------------------------------
(* The weights add up *)

\* The sum of naturals, one per staker, after one of them changes.
LEMMA OneChanges ==
  ASSUME NEW f \in [Stakers -> Nat], NEW s \in Stakers, NEW v \in Nat
  PROVE  /\ Sum(f, NumStakers) \in Nat
         /\ f[s] <= Sum(f, NumStakers)
         /\ Sum([f EXCEPT ![s] = v], NumStakers)
              = Sum(f, NumStakers) + v - f[s]
<1>1. NumStakers \in Nat
  BY StakersAssumption
<1>2. /\ f \in [1..NumStakers -> Nat] /\ f \in [1..NumStakers -> Int]
      /\ s \in 1..NumStakers /\ v \in Int
  BY DEF Stakers
<1> QED BY <1>1, <1>2, SumOfNaturals, TermBelowSum, SumUpdate

LEMMA InitWeights == Init => WeightsAddUp
<1> SUFFICES ASSUME Init PROVE WeightsAddUp
  OBVIOUS
<1>1. /\ NumStakers \in Nat /\ weight \in [1..NumStakers -> Int]
      /\ \A i \in 1..NumStakers : weight[i] = 0
  BY StakersAssumption DEF Init, Stakers
<1>2. Sum(weight, NumStakers) = 0
  BY <1>1, SumZero
<1> QED BY <1>2 DEF Init, WeightsAddUp

LEMMA NextWeights ==
  ASSUME TypeOK, WeightsAddUp, [Next]_vars
  PROVE  WeightsAddUp'
<1>1. ASSUME NEW s \in Stakers, NEW amt \in StakeAmounts,
             NEW days \in LockOptions, Stake(s, amt, days)
      PROVE  WeightsAddUp'
  <2> DEFINE newAmount == amount[s] + amt
             newWeight == WeightOf(newAmount, days)
             oldWeight == OldWeight(s)
  <2>1. /\ amount[s] \in Nat /\ amt \in Nat /\ amt > 0 /\ newAmount \in Nat
        /\ newAmount # 0 /\ newWeight \in Nat
    <3>1. amount[s] \in Nat /\ amt \in Nat /\ amt > 0
      BY <1>1, FundsAssumption, UnitsAssumption DEF Stake, Settle, Holds, TypeOK
    <3> QED BY <3>1, WeightOfType
  <2>2. oldWeight = weight[s]
    BY <2>1 DEF WeightsAddUp, OldWeight
  <2>3. /\ weight' = [weight EXCEPT ![s] = newWeight]
        /\ totalWeight' = totalWeight - oldWeight + newWeight
        /\ amount' = [amount EXCEPT ![s] = newAmount]
        /\ lockDays' = [lockDays EXCEPT ![s] = days]
    BY <1>1 DEF Stake, Settle, Holds
  <2> HIDE DEF newWeight, oldWeight, newAmount
  <2>4. Sum(weight', NumStakers) = Sum(weight, NumStakers) + newWeight - weight[s]
    BY <2>1, <2>3, OneChanges DEF TypeOK
  <2>5. totalWeight' = Sum(weight', NumStakers)
    <3>1. /\ totalWeight = Sum(weight, NumStakers) /\ totalWeight \in Nat
          /\ weight[s] \in Nat
      BY DEF WeightsAddUp, TypeOK
    <3> QED BY <3>1, <2>1, <2>2, <2>3, <2>4
  <2>6. ASSUME NEW t \in Stakers
        PROVE  IF amount'[t] = 0 THEN weight'[t] = 0
               ELSE /\ lockDays'[t] \in LockOptions
                    /\ weight'[t] = WeightOf(amount'[t], lockDays'[t])
    <3>1. CASE t = s
      BY <3>1, <2>1, <2>3 DEF TypeOK, newWeight, newAmount
    <3>2. CASE t # s
      BY <3>2, <2>3 DEF TypeOK, WeightsAddUp
    <3> QED BY <3>1, <3>2
  <2> QED BY <2>5, <2>6 DEF WeightsAddUp, WeightOf
<1>2. ASSUME NEW s \in Stakers, Unstake(s) PROVE WeightsAddUp'
  <2>1. /\ weight' = [weight EXCEPT ![s] = 0]
        /\ amount' = [amount EXCEPT ![s] = 0]
        /\ lockDays' = [lockDays EXCEPT ![s] = 0]
        /\ totalWeight' = totalWeight - weight[s]
    BY <1>2 DEF Unstake, ExitOpen, Settle, PayOut, Holds, ClosePosition
  <2>2. Sum(weight', NumStakers) = Sum(weight, NumStakers) + 0 - weight[s]
    BY <2>1, OneChanges DEF TypeOK
  <2>3. totalWeight' = Sum(weight', NumStakers)
    <3>1. /\ totalWeight = Sum(weight, NumStakers) /\ totalWeight \in Nat
          /\ weight[s] \in Nat
      BY DEF WeightsAddUp, TypeOK
    <3> QED BY <3>1, <2>1, <2>2
  <2>4. ASSUME NEW t \in Stakers
        PROVE  IF amount'[t] = 0 THEN weight'[t] = 0
               ELSE /\ lockDays'[t] \in LockOptions
                    /\ weight'[t] = WeightOf(amount'[t], lockDays'[t])
    BY <2>1 DEF TypeOK, WeightsAddUp
  <2> QED BY <2>3, <2>4 DEF WeightsAddUp, WeightOf
<1>3. CASE UNCHANGED <<totalWeight, amount, lockDays, weight>>
  BY <1>3 DEF WeightsAddUp, WeightOf
<1>4. ASSUME NEW s \in Stakers, Claim(s) PROVE WeightsAddUp'
  BY <1>3, <1>4 DEF Claim, Settle, PayOut
<1>5. ASSUME NEW enable \in BOOLEAN,
             SetClaimEnabled(enable) \/ SetDrainMode(enable)
      PROVE  WeightsAddUp'
  BY <1>3, <1>5 DEF SetClaimEnabled, SetDrainMode, poolVars, stakeVars
<1>6. ASSUME NEW d \in DepositSizes, DepositFees(d) PROVE WeightsAddUp'
  BY <1>3, <1>6 DEF DepositFees, poolVars, stakeVars
<1>7. CASE Tick
  BY <1>3, <1>7 DEF Tick, poolVars, stakeVars
<1>8. CASE UNCHANGED vars
  BY <1>3, <1>8 DEF vars, poolVars, stakeVars
<1> QED BY <1>1, <1>2, <1>4, <1>5, <1>6, <1>7, <1>8 DEF Next

\* The divisor of every reward share stays the sum of the positions' weights.
THEOREM WeightsCorrect == Spec => []WeightsAddUp
<1>1. Init => TypeOK /\ WeightsAddUp
  BY InitType, InitWeights
<1>2. TypeOK /\ WeightsAddUp /\ [Next]_vars => TypeOK' /\ WeightsAddUp'
  BY NextType, NextWeights
<1> QED BY <1>1, <1>2, PTL DEF Spec

-----------------------------------------------------------------------------
(* The principal is backed *)

LEMMA InitPrincipal == Init => PrincipalBacked
<1> SUFFICES ASSUME Init PROVE PrincipalBacked
  OBVIOUS
<1>1. /\ NumStakers \in Nat /\ amount \in [1..NumStakers -> Int]
      /\ \A i \in 1..NumStakers : amount[i] = 0
  BY StakersAssumption DEF Init, Stakers
<1>2. Sum(amount, NumStakers) = 0
  BY <1>1, SumZero
<1> QED BY <1>2, FundsAssumption DEF Init, PrincipalBacked

LEMMA NextPrincipal ==
  ASSUME TypeOK, PrincipalBacked, [Next]_vars
  PROVE  PrincipalBacked'
<1>1. ASSUME NEW s \in Stakers, NEW amt \in StakeAmounts,
             NEW days \in LockOptions, Stake(s, amt, days)
      PROVE  PrincipalBacked'
  <2>1. /\ amount' = [amount EXCEPT ![s] = amount[s] + amt]
        /\ wallet' = [wallet EXCEPT ![s] = wallet[s] - amt]
        /\ kiriteVault' = kiriteVault + amt
    BY <1>1 DEF Stake, Settle, Holds
  <2>2. /\ amt \in Nat /\ amount[s] \in Nat /\ wallet[s] \in Nat
        /\ amount[s] + amt \in Nat
    BY FundsAssumption DEF TypeOK
  <2>3. Sum(amount', NumStakers)
          = Sum(amount, NumStakers) + (amount[s] + amt) - amount[s]
    BY <2>1, <2>2, OneChanges DEF TypeOK
  <2>4. kiriteVault' = Sum(amount', NumStakers)
    <3>1. kiriteVault = Sum(amount, NumStakers) /\ kiriteVault \in Nat
      BY DEF PrincipalBacked, TypeOK
    <3> QED BY <3>1, <2>1, <2>2, <2>3
  <2>5. \A t \in Stakers : wallet'[t] + amount'[t] = Supply
    <3> SUFFICES ASSUME NEW t \in Stakers
                 PROVE  wallet'[t] + amount'[t] = Supply
      OBVIOUS
    <3>1. wallet[t] + amount[t] = Supply
      BY DEF PrincipalBacked
    <3>2. CASE t = s
      BY <3>1, <3>2, <2>1, <2>2 DEF TypeOK
    <3>3. CASE t # s
      BY <3>1, <3>3, <2>1 DEF TypeOK
    <3> QED BY <3>2, <3>3
  <2> QED BY <2>4, <2>5 DEF PrincipalBacked
<1>2. ASSUME NEW s \in Stakers, Unstake(s) PROVE PrincipalBacked'
  <2>1. /\ amount' = [amount EXCEPT ![s] = 0]
        /\ wallet' = [wallet EXCEPT ![s] = wallet[s] + amount[s]]
        /\ kiriteVault' = kiriteVault - amount[s]
    BY <1>2 DEF Unstake, ExitOpen, Settle, PayOut, Holds, ClosePosition
  <2>2. amount[s] \in Nat /\ wallet[s] \in Nat
    BY DEF TypeOK
  <2>3. Sum(amount', NumStakers) = Sum(amount, NumStakers) + 0 - amount[s]
    BY <2>1, OneChanges DEF TypeOK
  <2>4. kiriteVault' = Sum(amount', NumStakers)
    <3>1. kiriteVault = Sum(amount, NumStakers) /\ kiriteVault \in Nat
      BY DEF PrincipalBacked, TypeOK
    <3> QED BY <3>1, <2>1, <2>2, <2>3
  <2>5. \A t \in Stakers : wallet'[t] + amount'[t] = Supply
    <3> SUFFICES ASSUME NEW t \in Stakers
                 PROVE  wallet'[t] + amount'[t] = Supply
      OBVIOUS
    <3>1. wallet[t] + amount[t] = Supply
      BY DEF PrincipalBacked
    <3>2. CASE t = s
      BY <3>1, <3>2, <2>1, <2>2 DEF TypeOK
    <3>3. CASE t # s
      BY <3>1, <3>3, <2>1 DEF TypeOK
    <3> QED BY <3>2, <3>3
  <2> QED BY <2>4, <2>5 DEF PrincipalBacked
<1>3. CASE UNCHANGED <<amount, wallet, kiriteVault>>
  BY <1>3 DEF PrincipalBacked
<1>4. ASSUME NEW s \in Stakers, Claim(s) PROVE PrincipalBacked'
  BY <1>3, <1>4 DEF Claim, Settle, PayOut
<1>5. ASSUME NEW enable \in BOOLEAN,
             SetClaimEnabled(enable) \/ SetDrainMode(enable)
      PROVE  PrincipalBacked'
  BY <1>3, <1>5 DEF SetClaimEnabled, SetDrainMode, stakeVars, chainVars
<1>6. ASSUME NEW d \in DepositSizes, DepositFees(d) PROVE PrincipalBacked'
  BY <1>3, <1>6 DEF DepositFees, stakeVars
<1>7. CASE Tick
  BY <1>3, <1>7 DEF Tick, stakeVars
<1>8. CASE UNCHANGED vars
  BY <1>3, <1>8 DEF vars, stakeVars, chainVars
<1> QED BY <1>1, <1>2, <1>4, <1>5, <1>6, <1>7, <1>8 DEF Next

\* The token vault always holds exactly what the stakers put in.
THEOREM PrincipalSafe == Spec => []PrincipalBacked
<1>1. Init => TypeOK /\ PrincipalBacked
  BY InitType, InitPrincipal
<1>2. TypeOK /\ PrincipalBacked /\ [Next]_vars => TypeOK' /\ PrincipalBacked'
  BY NextType, NextPrincipal
<1> QED BY <1>1, <1>2, PTL DEF Spec

-----------------------------------------------------------------------------
(* The fees cover the rewards *)

\* Due once the accumulator stands at a.
DueAt(a) ==
  [s \in Stakers |-> SCALE * unclaimed[s] + weight[s] * (a - lastAcc[s])]

Covering == TypeOK /\ WeightsAddUp /\ FeesCover

LEMMA DueType ==
  ASSUME TypeOK, NEW a \in Nat, \A s \in Stakers : lastAcc[s] <= a
  PROVE  DueAt(a) \in [Stakers -> Nat]
<1> SUFFICES ASSUME NEW s \in Stakers
             PROVE  SCALE * unclaimed[s] + weight[s] * (a - lastAcc[s]) \in Nat
  BY DEF DueAt
<1>1. /\ unclaimed[s] \in Nat /\ weight[s] \in Nat /\ a - lastAcc[s] \in Nat
      /\ SCALE \in Nat
  BY UnitsAssumption DEF TypeOK
<1>2. SCALE * unclaimed[s] \in Nat /\ weight[s] * (a - lastAcc[s]) \in Nat
  BY <1>1, NaturalProducts
<1> QED BY <1>2

\* A sync adds to what is due the rise of the accumulator, for every unit of
\* weight.
LEMMA SyncedDue ==
  ASSUME TypeOK, WeightsAddUp, \A s \in Stakers : lastAcc[s] <= acc
  PROVE  /\ Due \in [Stakers -> Nat] /\ DueAt(SyncedAcc) \in [Stakers -> Nat]
         /\ SyncedAcc - acc \in Nat /\ \A s \in Stakers : lastAcc[s] <= SyncedAcc
         /\ Sum(DueAt(SyncedAcc), NumStakers)
              = Sum(Due, NumStakers) + totalWeight * (SyncedAcc - acc)
<1> DEFINE rise == SyncedAcc - acc
           gain == [s \in Stakers |-> rise * weight[s]]
<1>1. /\ acc \in Nat /\ SyncedAcc \in Nat /\ rise \in Nat
      /\ \A s \in Stakers : lastAcc[s] \in Nat /\ lastAcc[s] <= SyncedAcc
  <2>1. acc \in Nat /\ SyncedAcc \in Nat /\ acc <= SyncedAcc
    BY SyncedAccType DEF TypeOK
  <2> QED BY <2>1 DEF TypeOK
<1>2. Due = DueAt(acc) /\ Due \in [Stakers -> Nat] /\ DueAt(SyncedAcc) \in [Stakers -> Nat]
  <2>1. Due = DueAt(acc)
    BY DEF Due, DueAt
  <2> QED BY <1>1, <2>1, DueType
<1>3. NumStakers \in Nat /\ Stakers = 1..NumStakers
  BY StakersAssumption DEF Stakers
<1>4. gain \in [1..NumStakers -> Int] /\ \A i \in 1..NumStakers : gain[i] = rise * weight[i]
  <2> HIDE DEF rise
  <2> QED BY <1>1, <1>3, NaturalProducts DEF TypeOK
<1>5. Sum(gain, NumStakers) = totalWeight * rise
  <2> HIDE DEF gain, rise
  <2>1. weight \in [1..NumStakers -> Int] /\ totalWeight \in Nat
    BY <1>3 DEF TypeOK
  <2>2. NumStakers \in Nat /\ rise \in Int
    BY <1>1, <1>3
  <2>3. Sum(gain, NumStakers) = rise * Sum(weight, NumStakers)
    BY <1>4, <2>1, <2>2, SumScaled
  <2> QED BY <2>1, <2>2, <2>3 DEF WeightsAddUp
<1>6. ASSUME NEW s \in Stakers
      PROVE  DueAt(SyncedAcc)[s] = Due[s] + gain[s]
  <2>1. /\ unclaimed[s] \in Nat /\ weight[s] \in Nat /\ lastAcc[s] \in Nat
        /\ SCALE * unclaimed[s] \in Nat
    BY UnitsAssumption, NaturalProducts DEF TypeOK
  <2>2. SyncedAcc - lastAcc[s] = (acc - lastAcc[s]) + rise
    BY <1>1, <2>1
  <2> HIDE DEF rise
  <2>3. weight[s] * (SyncedAcc - lastAcc[s])
          = weight[s] * (acc - lastAcc[s]) + weight[s] * rise
    <3>1. weight[s] \in Int /\ acc - lastAcc[s] \in Int /\ rise \in Int
      BY <1>1, <2>1
    <3> QED BY <3>1, <2>2, Products
  <2>4. /\ weight[s] * (acc - lastAcc[s]) \in Int
        /\ weight[s] * rise \in Int /\ weight[s] * rise = rise * weight[s]
    BY <1>1, <2>1
  <2> QED BY <2>1, <2>3, <2>4 DEF DueAt, Due
<1>7. Sum(DueAt(SyncedAcc), NumStakers) = Sum(Due, NumStakers) + Sum(gain, NumStakers)
  <2>1. /\ Due \in [1..NumStakers -> Int]
        /\ DueAt(SyncedAcc) \in [1..NumStakers -> Int]
    BY <1>2, <1>3
  <2>2. \A i \in 1..NumStakers : DueAt(SyncedAcc)[i] = Due[i] + gain[i]
    BY <1>3, <1>6
  <2> HIDE DEF gain
  <2> QED BY <1>3, <1>4, <2>1, <2>2, SumPlus
<1> HIDE DEF gain
<1> QED BY <1>1, <1>2, <1>5, <1>7

\* Folding fresh fees into the accumulator adds no more to what is due than
\* the fees that arrived.
LEMMA SyncCovered ==
  ASSUME Covering
  PROVE  /\ \A s \in Stakers : lastAcc[s] <= SyncedAcc
         /\ DueAt(SyncedAcc) \in [Stakers -> Nat]
         /\ Sum(DueAt(SyncedAcc), NumStakers) <= SCALE * (feeVault - FeeVaultFloor)
<1>1. TypeOK /\ WeightsAddUp /\ FeesCover
  BY DEF Covering
<1>2. acc \in Nat /\ SyncedAcc \in Nat /\ acc <= SyncedAcc
  BY <1>1, SyncedAccType DEF TypeOK
<1>3. \A s \in Stakers : lastAcc[s] \in Nat /\ lastAcc[s] <= SyncedAcc
  BY <1>1, <1>2 DEF TypeOK, FeesCover
<1>4. DueAt(SyncedAcc) \in [Stakers -> Nat]
  BY <1>1, <1>2, <1>3, DueType
<1>5. Due \in [Stakers -> Nat] /\ Due = DueAt(acc)
  <2>1. Due = DueAt(acc)
    BY DEF Due, DueAt
  <2> QED BY <2>1, <1>1, <1>2, DueType DEF FeesCover
<1>6. /\ NumStakers \in Nat /\ Stakers = 1..NumStakers
      /\ Sum(Due, NumStakers) \in Int
  BY <1>5, StakersAssumption, SumType DEF Stakers
<1>7. /\ feeVault \in Nat /\ lastAccounted \in Nat /\ FeeVaultFloor \in Nat
      /\ SCALE \in Nat /\ lastAccounted <= feeVault
      /\ FreshFees = feeVault - lastAccounted
      /\ Sum(Due, NumStakers) <= SCALE * (lastAccounted - FeeVaultFloor)
  BY <1>1, FundsAssumption, UnitsAssumption DEF TypeOK, FeesCover, FreshFees
<1>8. SCALE * (feeVault - FeeVaultFloor)
        = SCALE * (lastAccounted - FeeVaultFloor) + SCALE * FreshFees
  <2>1. /\ lastAccounted - FeeVaultFloor \in Int /\ FreshFees \in Int
        /\ SCALE \in Int
        /\ feeVault - FeeVaultFloor = (lastAccounted - FeeVaultFloor) + FreshFees
    BY <1>7
  <2> QED BY <2>1, Products
<1>9. /\ SCALE * FreshFees \in Nat /\ SCALE * FreshFees = FreshFees * SCALE
      /\ SCALE * (lastAccounted - FeeVaultFloor) \in Int
  BY <1>7
<1>10. Sum(DueAt(SyncedAcc), NumStakers) <= Sum(Due, NumStakers) + SCALE * FreshFees
  <2>1. CASE totalWeight > 0
    <3>1. /\ Increment \in Nat /\ totalWeight * Increment <= FreshFees * SCALE
          /\ totalWeight \in Nat /\ totalWeight * Increment \in Nat
      <4>1. totalWeight \in Nat \ {0} /\ FreshFees * SCALE \in Nat
        BY <2>1, <1>1, <1>9 DEF TypeOK
      <4> QED BY <4>1, DivisionFacts, NaturalProducts DEF Increment
    <3>2. SyncedAcc - acc = Increment
      BY <1>2, <2>1, <3>1 DEF SyncedAcc
    <3>3. Sum(DueAt(SyncedAcc), NumStakers)
            = Sum(Due, NumStakers) + totalWeight * Increment
      BY <1>1, <3>2, SyncedDue DEF FeesCover
    <3> QED BY <3>1, <3>3, <1>6, <1>9
  <2>2. CASE ~(totalWeight > 0)
    <3>1. DueAt(SyncedAcc) = Due
      BY <2>2, <1>5 DEF SyncedAcc
    <3> QED BY <3>1, <1>6, <1>9
  <2> QED BY <2>1, <2>2
<1>11. Sum(DueAt(SyncedAcc), NumStakers) \in Int
  BY <1>4, <1>6, SumType
<1> QED BY <1>3, <1>4, <1>6, <1>7, <1>8, <1>9, <1>10, <1>11

\* What a position settles to is covered by what was due to it.
LEMMA AccruedCovered ==
  ASSUME TypeOK, NEW s \in Stakers, NEW a \in Nat, lastAcc[s] <= a
  PROVE  SCALE * Accrued(s, a) <= DueAt(a)[s]
<1>1. /\ unclaimed[s] \in Nat /\ weight[s] \in Nat /\ lastAcc[s] \in Nat
      /\ SCALE \in Nat
  BY UnitsAssumption DEF TypeOK
<1>2. /\ SCALE * unclaimed[s] \in Nat
      /\ weight[s] * (a - lastAcc[s]) \in Nat
      /\ weight[s] * (a - lastAcc[s]) = (a - lastAcc[s]) * weight[s]
  <2>1. a - lastAcc[s] \in Nat
    BY <1>1
  <2> QED BY <2>1, <1>1, NaturalProducts
<1>3. DueAt(a)[s] = SCALE * unclaimed[s] + weight[s] * (a - lastAcc[s])
  BY DEF DueAt
<1>4. CASE weight[s] = 0 \/ a <= lastAcc[s]
  BY <1>1, <1>2, <1>3, <1>4 DEF Accrued
<1>5. CASE ~(weight[s] = 0 \/ a <= lastAcc[s])
  <2>1. /\ Pending(s, a) \in Nat
        /\ SCALE * Pending(s, a) <= (a - lastAcc[s]) * weight[s]
    BY <1>1, <1>5, PendingType
  <2> DEFINE both == unclaimed[s] + Pending(s, a)
  <2>2. both \in Nat
    BY <1>1, <2>1
  <2>3. Accrued(s, a) \in Nat /\ Accrued(s, a) <= both
    BY <1>5, <2>2, UnitsAssumption DEF Accrued, Min2
  <2>4. SCALE * both = SCALE * unclaimed[s] + SCALE * Pending(s, a)
    BY <1>1, <2>1, Products
  <2>5. SCALE * Accrued(s, a) <= SCALE * both
    <3>1. \A x, y \in Nat : x <= y => SCALE * x <= SCALE * y
      BY UnitsAssumption
    <3> HIDE DEF both
    <3> QED BY <2>2, <2>3, <3>1
  <2>6. SCALE * both \in Nat /\ SCALE * Accrued(s, a) \in Nat
        /\ SCALE * Pending(s, a) \in Nat
    <3> HIDE DEF both
    <3> QED BY <1>1, <2>1, <2>2, <2>3, NaturalProducts
  <2> HIDE DEF both
  <2> QED BY <1>2, <1>3, <2>1, <2>4, <2>5, <2>6
<1> QED BY <1>4, <1>5

\* A call that settles a position leaves it with its bucket due, and the
\* others with what was due to them.
LEMMA SettledDue ==
  ASSUME TypeOK, NEW s \in Stakers, NEW kept \in Nat, NEW w \in Nat,
         DueAt(SyncedAcc) \in [Stakers -> Nat],
         acc' = SyncedAcc,
         lastAcc' = [lastAcc EXCEPT ![s] = SyncedAcc],
         unclaimed' = [unclaimed EXCEPT ![s] = kept],
         weight' = [weight EXCEPT ![s] = w]
  PROVE  Due' = [DueAt(SyncedAcc) EXCEPT ![s] = SCALE * kept]
<1> DEFINE D == DueAt(SyncedAcc)
           E == [D EXCEPT ![s] = SCALE * kept]
<1>1. SyncedAcc \in Nat /\ SCALE \in Nat /\ SCALE * kept \in Nat
  BY SyncedAccType, UnitsAssumption, NaturalProducts
<1>2. Due' = [t \in Stakers |->
                SCALE * unclaimed'[t] + weight'[t] * (acc' - lastAcc'[t])]
  BY DEF Due
<1>3. E \in [Stakers -> Nat] /\ E[s] = SCALE * kept
      /\ \A t \in Stakers : t # s => E[t] = D[t]
  <2> HIDE DEF D
  <2> QED BY <1>1 DEF D
<1>4. ASSUME NEW t \in Stakers
      PROVE  SCALE * unclaimed'[t] + weight'[t] * (acc' - lastAcc'[t]) = E[t]
  <2> HIDE DEF E
  <2>1. CASE t = s
    <3>1. unclaimed'[t] = kept /\ weight'[t] = w /\ acc' - lastAcc'[t] = 0
      BY <2>1, <1>1 DEF TypeOK
    <3> QED BY <3>1, <2>1, <1>1, <1>3
  <2>2. CASE t # s
    <3>1. /\ unclaimed'[t] = unclaimed[t] /\ weight'[t] = weight[t]
          /\ lastAcc'[t] = lastAcc[t]
      BY <2>2 DEF TypeOK
    <3> QED BY <3>1, <2>2, <1>3 DEF DueAt
  <2> QED BY <2>1, <2>2
<1>5. E = [t \in Stakers |-> E[t]]
  <2> HIDE DEF E
  <2> QED BY <1>3
<1>6. Due' = E
  <2> HIDE DEF E
  <2> QED BY <1>2, <1>4, <1>5
<1> QED BY <1>6 DEF E

\* Stake, claim and unstake all settle one position after a sync: part of
\* what it accrued is paid out, the rest is kept, and its weight may change.
LEMMA SettleCovers ==
  ASSUME Covering, NEW s \in Stakers,
         NEW out \in Nat, NEW kept \in Nat, NEW w \in Nat,
         out + kept = Accrued(s, SyncedAcc),
         acc' = SyncedAcc,
         lastAcc' = [lastAcc EXCEPT ![s] = SyncedAcc],
         unclaimed' = [unclaimed EXCEPT ![s] = kept],
         weight' = [weight EXCEPT ![s] = w],
         feeVault' = feeVault - out,
         lastAccounted' = feeVault'
  PROVE  FeesCover'
<1> DEFINE D == DueAt(SyncedAcc)
<1>1. TypeOK
  BY DEF Covering
<1>2. /\ \A t \in Stakers : lastAcc[t] <= SyncedAcc
      /\ D \in [Stakers -> Nat]
      /\ Sum(D, NumStakers) <= SCALE * (feeVault - FeeVaultFloor)
  BY SyncCovered
<1>3. /\ SyncedAcc \in Nat /\ SCALE \in Nat /\ SCALE > 0
      /\ feeVault \in Nat /\ FeeVaultFloor \in Nat
  BY <1>1, SyncedAccType, UnitsAssumption, FundsAssumption DEF TypeOK
<1>4. SCALE * (out + kept) <= D[s]
  BY <1>1, <1>2, <1>3, AccruedCovered
<1>5. /\ SCALE * (out + kept) = SCALE * out + SCALE * kept
      /\ SCALE * out \in Nat /\ SCALE * kept \in Nat
  BY <1>3, Products, NaturalProducts
<1>6. Due' = [D EXCEPT ![s] = SCALE * kept]
  BY <1>1, <1>2, SettledDue
<1> HIDE DEF D
<1>7. /\ Sum(D, NumStakers) \in Nat /\ D[s] \in Nat
      /\ D[s] <= Sum(D, NumStakers)
      /\ Sum(Due', NumStakers) = Sum(D, NumStakers) + SCALE * kept - D[s]
  BY <1>2, <1>5, <1>6, OneChanges
<1>8. /\ SCALE * (feeVault - FeeVaultFloor) \in Int
      /\ SCALE * (feeVault' - FeeVaultFloor)
           = SCALE * (feeVault - FeeVaultFloor) - SCALE * out
  <2>1. \A c, x, y \in Int : c * (x - y) = c * x - c * y
    OBVIOUS
  <2>2. /\ feeVault - FeeVaultFloor \in Int /\ out \in Int /\ SCALE \in Int
        /\ feeVault' - FeeVaultFloor = (feeVault - FeeVaultFloor) - out
    BY <1>3
  <2> QED BY <2>1, <2>2, Products
<1>9. Sum(Due', NumStakers) <= SCALE * (feeVault' - FeeVaultFloor)
  BY <1>2, <1>4, <1>5, <1>7, <1>8
<1>10. FeeVaultFloor <= feeVault'
  <2>1. SCALE * out <= SCALE * (feeVault - FeeVaultFloor)
    BY <1>2, <1>4, <1>5, <1>7, <1>8
  <2>2. \A x, y \in Int : SCALE * x <= SCALE * y => x <= y
    BY <1>3
  <2>3. out <= feeVault - FeeVaultFloor
    <3>1. out \in Int /\ feeVault - FeeVaultFloor \in Int
      BY <1>3
    <3> QED BY <2>1, <2>2, <3>1
  <2> QED BY <2>3, <1>3
<1>11. \A t \in Stakers : lastAcc'[t] <= acc'
  BY <1>1, <1>2, <1>3 DEF TypeOK
<1>12. feeVault' \in Int
  BY <1>3
<1> QED BY <1>9, <1>10, <1>11, <1>12 DEF FeesCover

LEMMA InitCovers == Init => FeesCover
<1> SUFFICES ASSUME Init PROVE FeesCover
  OBVIOUS
<1>1. PICK p \in Prefunding : feeVault = FeeVaultFloor + p
  BY DEF Init
<1>2. p \in Nat /\ FeeVaultFloor \in Nat /\ SCALE \in Nat
  BY FundsAssumption, UnitsAssumption
<1>3. /\ Due \in [1..NumStakers -> Int]
      /\ \A i \in 1..NumStakers : Due[i] = 0
  BY <1>2 DEF Due, Init, Stakers
<1>4. Sum(Due, NumStakers) = 0
  BY <1>3, StakersAssumption, SumZero
<1>5. /\ lastAccounted = feeVault
      /\ lastAccounted - FeeVaultFloor = p
      /\ FeeVaultFloor <= lastAccounted
  BY <1>1, <1>2 DEF Init
<1>6. SCALE * p \in Nat
  BY <1>2, NaturalProducts
<1>7. \A s \in Stakers : lastAcc[s] <= acc
  BY DEF Init
<1>8. lastAccounted <= feeVault
  BY <1>1, <1>2, <1>5
<1> QED BY <1>4, <1>5, <1>6, <1>7, <1>8 DEF FeesCover

LEMMA NextCovers ==
  ASSUME Covering, [Next]_vars
  PROVE  FeesCover'
<1>1. TypeOK /\ FeesCover
  BY DEF Covering
<1>2. /\ \A s \in Stakers : Accrued(s, SyncedAcc) \in Nat
      /\ feeVault \in Nat
  BY <1>1, SyncedAccType, AccruedType DEF TypeOK
<1>3. ASSUME NEW s \in Stakers, NEW amt \in StakeAmounts,
             NEW days \in LockOptions, Stake(s, amt, days)
      PROVE  FeesCover'
  <2> DEFINE w == WeightOf(amount[s] + amt, days)
  <2>1. w \in Nat
    <3>1. amount[s] + amt \in Nat
      BY <1>1, FundsAssumption DEF TypeOK
    <3> QED BY <3>1, WeightOfType
  <2>2. /\ acc' = SyncedAcc /\ weight' = [weight EXCEPT ![s] = w]
        /\ lastAcc' = [lastAcc EXCEPT ![s] = SyncedAcc]
        /\ unclaimed' = [unclaimed EXCEPT ![s] = Accrued(s, SyncedAcc)]
        /\ feeVault' = feeVault /\ lastAccounted' = feeVault'
    BY <1>3 DEF Stake, Settle, Holds
  <2>3. /\ 0 + Accrued(s, SyncedAcc) = Accrued(s, SyncedAcc)
        /\ feeVault' = feeVault - 0
    BY <1>2, <2>2
  <2> HIDE DEF w
  <2> QED BY <1>2, <2>1, <2>2, <2>3, SettleCovers
<1>4. ASSUME NEW s \in Stakers, Claim(s) PROVE FeesCover'
  <2>1. /\ acc' = SyncedAcc
        /\ lastAcc' = [lastAcc EXCEPT ![s] = SyncedAcc]
        /\ unclaimed' = [unclaimed EXCEPT ![s] = 0]
        /\ feeVault' = feeVault - Accrued(s, SyncedAcc)
        /\ lastAccounted' = feeVault'
    BY <1>4 DEF Claim, Settle, PayOut
  <2>2. weight[s] \in Nat /\ weight' = [weight EXCEPT ![s] = weight[s]]
    BY <1>1, <1>4 DEF Claim, Settle, PayOut, TypeOK
  <2>3. Accrued(s, SyncedAcc) + 0 = Accrued(s, SyncedAcc)
    BY <1>2
  <2> QED BY <1>2, <2>1, <2>2, <2>3, SettleCovers
<1>5. ASSUME NEW s \in Stakers, Unstake(s) PROVE FeesCover'
  <2> DEFINE payout == Accrued(s, SyncedAcc)
             out    == IF claimEnabled THEN payout ELSE 0
             kept   == payout - out
  <2>1. out \in Nat /\ kept \in Nat /\ out + kept = payout
    <3>1. payout \in Nat
      BY <1>2
    <3> HIDE DEF payout
    <3> QED BY <3>1
  <2>2. /\ acc' = SyncedAcc /\ weight' = [weight EXCEPT ![s] = 0]
        /\ lastAcc' = [lastAcc EXCEPT ![s] = SyncedAcc]
        /\ unclaimed' = [unclaimed EXCEPT ![s] = kept]
        /\ feeVault' = feeVault - out /\ lastAccounted' = feeVault'
    BY <1>5 DEF Unstake, ExitOpen, Settle, PayOut, Holds, ClosePosition
  <2>3. out + kept = Accrued(s, SyncedAcc)
    BY <2>1
  <2> HIDE DEF payout, out, kept
  <2> QED BY <2>1, <2>2, <2>3, SettleCovers
<1>6. ASSUME NEW d \in DepositSizes, DepositFees(d) PROVE FeesCover'
  <2>1. /\ UNCHANGED <<lastAcc, acc, lastAccounted, unclaimed, weight>>
        /\ feeVault' = feeVault + d /\ d \in Nat
    BY <1>6, FundsAssumption DEF DepositFees, poolVars, stakeVars
  <2>2. lastAccounted' <= feeVault'
    BY <2>1, <1>1 DEF FeesCover, TypeOK
  <2> QED BY <2>1, <2>2, <1>1 DEF FeesCover, Due
<1>7. CASE UNCHANGED <<lastAcc, acc, lastAccounted, unclaimed, weight, feeVault>>
  BY <1>1, <1>7 DEF FeesCover, Due
<1>8. ASSUME NEW enable \in BOOLEAN,
             SetClaimEnabled(enable) \/ SetDrainMode(enable)
      PROVE  FeesCover'
  BY <1>7, <1>8
     DEF SetClaimEnabled, SetDrainMode, poolVars, stakeVars, chainVars
<1>9. CASE Tick
  BY <1>7, <1>9 DEF Tick, poolVars, stakeVars
<1>10. CASE UNCHANGED vars
  BY <1>7, <1>10 DEF vars, poolVars, stakeVars, chainVars
<1> QED BY <1>3, <1>4, <1>5, <1>6, <1>8, <1>9, <1>10 DEF Next

\* The inductive invariant implies that the vault can pay everybody at once.
LEMMA CoveringSolvent ==
  ASSUME Covering
  PROVE  Solvent
<1> DEFINE scaled == [s \in Stakers |-> SCALE * Owed[s]]
<1>1. /\ TypeOK
      /\ \A s \in Stakers : lastAcc[s] <= SyncedAcc
      /\ DueAt(SyncedAcc) \in [Stakers -> Nat]
      /\ Sum(DueAt(SyncedAcc), NumStakers) <= SCALE * (feeVault - FeeVaultFloor)
  BY SyncCovered DEF Covering
<1>2. /\ SyncedAcc \in Nat /\ SCALE \in Nat /\ SCALE > 0
      /\ feeVault \in Nat /\ FeeVaultFloor \in Nat
  BY <1>1, SyncedAccType, UnitsAssumption, FundsAssumption DEF TypeOK
<1>3. Owed \in [Stakers -> Nat]
  BY <1>1, <1>2, AccruedType DEF Owed
<1>4. \A s \in Stakers : SCALE * Owed[s] \in Nat
  BY <1>2, <1>3, NaturalProducts
<1>5. \A s \in Stakers : scaled[s] <= DueAt(SyncedAcc)[s]
  BY <1>1, <1>2, AccruedCovered DEF Owed
<1>6. /\ NumStakers \in Nat /\ Stakers = 1..NumStakers
      /\ Owed \in [1..NumStakers -> Int]
      /\ scaled \in [1..NumStakers -> Int]
      /\ DueAt(SyncedAcc) \in [1..NumStakers -> Int]
  BY <1>1, <1>3, <1>4, StakersAssumption DEF Stakers
<1>7. \A i \in 1..NumStakers : scaled[i] = SCALE * Owed[i]
  BY <1>6
<1> HIDE DEF scaled
<1>8. Sum(scaled, NumStakers) <= Sum(DueAt(SyncedAcc), NumStakers)
  BY <1>5, <1>6, SumMono
<1>9. Sum(scaled, NumStakers) = SCALE * Sum(Owed, NumStakers)
  <2>1. SCALE \in Int
    BY <1>2
  <2> QED BY <2>1, <1>6, <1>7, SumScaled
<1>10. /\ Sum(Owed, NumStakers) \in Int
       /\ Sum(DueAt(SyncedAcc), NumStakers) \in Int
       /\ Sum(scaled, NumStakers) \in Int
  BY <1>6, SumType
<1>11. SCALE * Sum(Owed, NumStakers) <= SCALE * (feeVault - FeeVaultFloor)
  <2>1. SCALE * (feeVault - FeeVaultFloor) \in Int
    BY <1>2
  <2> QED BY <2>1, <1>1, <1>8, <1>9, <1>10
<1>12. Sum(Owed, NumStakers) <= feeVault - FeeVaultFloor
  <2>1. \A x, y \in Int : SCALE * x <= SCALE * y => x <= y
    BY <1>2
  <2>2. feeVault - FeeVaultFloor \in Int
    BY <1>2
  <2> QED BY <2>1, <2>2, <1>10, <1>11
<1> QED BY <1>2, <1>10, <1>12 DEF Solvent

LEMMA InitCovering == Init => Covering
BY InitType, InitWeights, InitCovers DEF Covering

LEMMA NextCovering == Covering /\ [Next]_vars => Covering'
BY NextType, NextWeights, NextCovers DEF Covering

\* What the positions can draw is covered by the fees accounted for.
THEOREM FeesAlwaysCover == Spec => []FeesCover
<1>1. Covering => FeesCover
  BY DEF Covering
<1> QED BY <1>1, InitCovering, NextCovering, PTL DEF Spec

\* The fee vault can pay every staker everything owed, at every moment, and
\* keep its rent-exempt floor.
THEOREM AlwaysSolvent == Spec => []Solvent
<1>1. Covering => Solvent
  BY CoveringSolvent
<1> QED BY <1>1, InitCovering, NextCovering, PTL DEF Spec

-----------------------------------------------------------------------------
(* The casts of accrue lose nothing *)

\* The vault never holds more than was ever sent to it.
VaultBounded ==
  /\ deposited <= MaxFees
  /\ \E p \in Prefunding : feeVault <= FeeVaultFloor + p + deposited

LEMMA InitBounded == Init => VaultBounded
<1> SUFFICES ASSUME Init PROVE VaultBounded
  OBVIOUS
<1>1. PICK p \in Prefunding : feeVault = FeeVaultFloor + p
  BY DEF Init
<1>2. feeVault <= FeeVaultFloor + p + deposited
  BY <1>1, FundsAssumption DEF Init
<1> QED BY <1>2, FundsAssumption DEF Init, VaultBounded

LEMMA NextBounded ==
  ASSUME TypeOK, VaultBounded, [Next]_vars
  PROVE  VaultBounded'
<1>1. PICK p \in Prefunding : feeVault <= FeeVaultFloor + p + deposited
  BY DEF VaultBounded
<1>2. /\ feeVault \in Nat /\ deposited \in Nat /\ FeeVaultFloor \in Nat
      /\ p \in Nat /\ MaxFees \in Nat /\ deposited <= MaxFees
  BY FundsAssumption DEF TypeOK, VaultBounded
<1>3. CASE /\ deposited' = deposited
           /\ feeVault' \in Int /\ feeVault' <= feeVault
  <2>1. feeVault' <= FeeVaultFloor + p + deposited'
    BY <1>1, <1>2, <1>3
  <2> QED BY <1>2, <1>3, <2>1 DEF VaultBounded
<1>4. ASSUME NEW d \in DepositSizes, DepositFees(d) PROVE VaultBounded'
  <2>1. /\ deposited' = deposited + d /\ deposited' <= MaxFees
        /\ feeVault' = feeVault + d /\ d \in Nat
    BY <1>4, FundsAssumption DEF DepositFees
  <2>2. feeVault' <= FeeVaultFloor + p + deposited'
    BY <1>1, <1>2, <2>1
  <2> QED BY <2>1, <2>2 DEF VaultBounded
<1>5. ASSUME NEW s \in Stakers, Claim(s) PROVE VaultBounded'
  <2>1. Accrued(s, SyncedAcc) \in Nat
    BY SyncedAccType, AccruedType
  <2> QED BY <1>2, <1>3, <1>5, <2>1 DEF Claim, Settle, PayOut
<1>6. ASSUME NEW s \in Stakers, Unstake(s) PROVE VaultBounded'
  <2> DEFINE out == IF claimEnabled THEN Accrued(s, SyncedAcc) ELSE 0
  <2>1. out \in Nat
    BY SyncedAccType, AccruedType
  <2>2. feeVault' = feeVault - out /\ deposited' = deposited
    BY <1>6 DEF Unstake, ExitOpen, Settle, PayOut, Holds, ClosePosition
  <2> HIDE DEF out
  <2> QED BY <1>2, <1>3, <2>1, <2>2
<1>7. CASE UNCHANGED <<feeVault, deposited>>
  BY <1>2, <1>3, <1>7
<1>8. ASSUME NEW s \in Stakers, NEW amt \in StakeAmounts,
             NEW days \in LockOptions, Stake(s, amt, days)
      PROVE  VaultBounded'
  BY <1>7, <1>8 DEF Stake, Settle, Holds
<1>9. ASSUME NEW enable \in BOOLEAN,
             SetClaimEnabled(enable) \/ SetDrainMode(enable)
      PROVE  VaultBounded'
  BY <1>7, <1>9 DEF SetClaimEnabled, SetDrainMode, chainVars
<1>10. CASE Tick
  BY <1>7, <1>10 DEF Tick
<1>11. CASE UNCHANGED vars
  BY <1>7, <1>11 DEF vars, chainVars
<1> QED BY <1>4, <1>5, <1>6, <1>8, <1>9, <1>10, <1>11 DEF Next

LEMMA BoundedExact ==
  ASSUME Covering, VaultBounded
  PROVE  ExactOwed
<1> SUFFICES ASSUME NEW s \in Stakers
             PROVE  Owed[s] = unclaimed[s]
                      + ((SyncedAcc - lastAcc[s]) * weight[s]) \div SCALE
  BY DEF ExactOwed
<1> DEFINE product == (SyncedAcc - lastAcc[s]) * weight[s]
           q       == product \div SCALE
           D       == DueAt(SyncedAcc)
<1>1. /\ TypeOK /\ lastAcc[s] <= SyncedAcc
      /\ D \in [Stakers -> Nat]
      /\ Sum(D, NumStakers) <= SCALE * (feeVault - FeeVaultFloor)
  BY SyncCovered DEF Covering
<1>2. /\ SyncedAcc \in Nat /\ unclaimed[s] \in Nat /\ weight[s] \in Nat
      /\ lastAcc[s] \in Nat /\ feeVault \in Nat /\ FeeVaultFloor \in Nat
      /\ SCALE \in Nat \ {0} /\ U64 \in Nat \ {0} /\ U128 \in Nat \ {0}
  BY <1>1, SyncedAccType, UnitsAssumption, FundsAssumption DEF TypeOK
<1>3. feeVault < U64 /\ SCALE * U64 <= U128
  <2>1. PICK p \in Prefunding : feeVault <= FeeVaultFloor + p + deposited
    BY DEF VaultBounded
  <2>2. FeeVaultFloor + p + MaxFees < U64 /\ SCALE * U64 <= U128
    BY WordsAssumption
  <2>3. p \in Nat /\ MaxFees \in Nat /\ deposited \in Nat /\ deposited <= MaxFees
    BY <1>1, FundsAssumption DEF TypeOK, VaultBounded
  <2> QED BY <1>2, <2>1, <2>2, <2>3
<1>4. /\ product \in Nat /\ SCALE * unclaimed[s] \in Nat
      /\ D[s] = SCALE * unclaimed[s] + product
  <2>1. SyncedAcc - lastAcc[s] \in Nat
    BY <1>1, <1>2
  <2>2. product \in Nat /\ SCALE * unclaimed[s] \in Nat
    BY <1>2, <2>1, NaturalProducts
  <2>3. weight[s] * (SyncedAcc - lastAcc[s]) = product
    BY <1>2, <2>1
  <2> QED BY <2>2, <2>3 DEF DueAt
<1> HIDE DEF product
<1>5. q \in Nat /\ SCALE * q <= product
  BY <1>2, <1>4, DivisionFacts
<1>6. D[s] <= SCALE * (feeVault - FeeVaultFloor)
  <2>1. D[s] <= Sum(D, NumStakers) /\ D[s] \in Nat /\ Sum(D, NumStakers) \in Nat
    <3> HIDE DEF D
    <3> QED BY <1>1, OneChanges
  <2>2. SCALE * (feeVault - FeeVaultFloor) \in Int
    BY <1>2
  <2> HIDE DEF D
  <2> QED BY <1>1, <2>1, <2>2
<1> HIDE DEF D
<1>7. unclaimed[s] + q <= feeVault - FeeVaultFloor
  <2>1. SCALE * (unclaimed[s] + q) = SCALE * unclaimed[s] + SCALE * q
    BY <1>2, <1>5, Products
  <2>2. SCALE * q \in Nat /\ SCALE * (feeVault - FeeVaultFloor) \in Int
    BY <1>2, <1>5, NaturalProducts
  <2> HIDE DEF q
  <2>3. SCALE * (unclaimed[s] + q) <= SCALE * (feeVault - FeeVaultFloor)
    BY <1>4, <1>5, <1>6, <2>1, <2>2
  <2>4. \A x, y \in Int : SCALE * x <= SCALE * y => x <= y
    BY <1>2
  <2>5. unclaimed[s] + q \in Int /\ feeVault - FeeVaultFloor \in Int
    BY <1>2, <1>5
  <2> QED BY <2>3, <2>4, <2>5
<1>8. product < U128
  <2>1. feeVault - FeeVaultFloor \in Int /\ U64 \in Int
        /\ feeVault - FeeVaultFloor <= U64 - 1
    BY <1>2, <1>3
  <2>2. \A x, y \in Int : x <= y => SCALE * x <= SCALE * y
    BY <1>2
  <2>3. SCALE * (feeVault - FeeVaultFloor) <= SCALE * (U64 - 1)
    BY <2>1, <2>2
  <2>4. SCALE * (U64 - 1) = SCALE * U64 - SCALE
    BY <1>2
  <2>5. /\ SCALE * (feeVault - FeeVaultFloor) \in Int /\ SCALE * U64 \in Int
        /\ SCALE * (U64 - 1) \in Int
    BY <1>2
  <2>6. product <= SCALE * (feeVault - FeeVaultFloor)
    BY <1>4, <1>6, <2>5
  <2>7. SCALE * (U64 - 1) < SCALE * U64
    BY <1>2, <2>4, <2>5
  <2> QED BY <1>2, <1>3, <1>4, <2>3, <2>5, <2>6, <2>7
<1>9. Owed[s] = Accrued(s, SyncedAcc)
  BY DEF Owed
<1>10. CASE weight[s] = 0 \/ SyncedAcc <= lastAcc[s]
  <2>1. product = 0
    BY <1>1, <1>2, <1>10 DEF product
  <2>2. q = 0
    BY <2>1, <1>2
  <2> HIDE DEF q
  <2>3. Accrued(s, SyncedAcc) = unclaimed[s]
    BY <1>10 DEF Accrued
  <2>4. Owed[s] = unclaimed[s] + q
    BY <1>2, <1>9, <2>2, <2>3
  <2> QED BY <2>4 DEF q, product
<1>11. CASE ~(weight[s] = 0 \/ SyncedAcc <= lastAcc[s])
  <2>1. Min2(product, U128 - 1) = product
    BY <1>2, <1>4, <1>8 DEF Min2
  <2>2. q % U64 = q
    <3>1. q < U64
      BY <1>2, <1>3, <1>5, <1>7
    <3> HIDE DEF q
    <3> QED BY <3>1, <1>2, <1>5
  <2>3. Pending(s, SyncedAcc) = q
    BY <2>1, <2>2 DEF Pending, product
  <2> HIDE DEF q
  <2>4. Min2(unclaimed[s] + q, U64 - 1) = unclaimed[s] + q
    BY <1>2, <1>3, <1>5, <1>7 DEF Min2
  <2>5. Accrued(s, SyncedAcc) = unclaimed[s] + q
    BY <1>11, <2>3, <2>4 DEF Accrued
  <2> QED BY <1>9, <2>5 DEF q, product
<1> QED BY <1>10, <1>11

\* As long as lamports fit in a u64, the cast in accrue never drops a bit.
THEOREM OwedIsExact == Spec => []ExactOwed
<1>1. Init => Covering /\ VaultBounded
  BY InitCovering, InitBounded
<1>2. Covering /\ VaultBounded /\ [Next]_vars => Covering' /\ VaultBounded'
  BY NextCovering, NextBounded DEF Covering
<1>3. Covering /\ VaultBounded => ExactOwed
  BY BoundedExact
<1> QED BY <1>1, <1>2, <1>3, PTL DEF Spec

-----------------------------------------------------------------------------
(* What a staker is owed *)

LEMMA DivMonotone ==
  ASSUME NEW x \in Nat, NEW y \in Nat, NEW d \in Nat \ {0}, x <= y
  PROVE  x \div d <= y \div d
<1> DEFINE q == x \div d
           r == y \div d
<1>1. /\ q \in Nat /\ r \in Nat
      /\ d * q <= x /\ y < d * r + d
  OBVIOUS
<1> SUFFICES ASSUME r + 1 <= q PROVE FALSE
  BY <1>1
<1> HIDE DEF q, r
<1>2. d * (r + 1) <= d * q
  BY <1>1
<1>3. d * (r + 1) = d * r + d /\ d * (r + 1) \in Nat /\ d * q \in Nat
  BY <1>1
<1> QED BY <1>1, <1>2, <1>3

\* Right after a call that synced the pool nothing is fresh.
LEMMA SyncedIsQuiet ==
  ASSUME TypeOK, TypeOK', acc' = SyncedAcc, lastAccounted' = feeVault'
  PROVE  FreshFees' = 0 /\ SyncedAcc' = SyncedAcc
<1>1. FreshFees' = 0
  <2>1. feeVault' \in Nat /\ lastAccounted' = feeVault'
    BY DEF TypeOK
  <2>2. ~(feeVault' > lastAccounted')
    BY <2>1
  <2> QED BY <2>2 DEF FreshFees
<1>2. totalWeight' > 0 => Increment' = 0
  <2>1. (FreshFees * SCALE)' = 0
    BY <1>1, UnitsAssumption
  <2>2. \A d \in Nat \ {0} : 0 \div d = 0
    OBVIOUS
  <2> QED BY <2>1, <2>2 DEF Increment, TypeOK
<1>3. acc' \in Nat
  BY DEF TypeOK
<1> QED BY <1>1, <1>2, <1>3 DEF SyncedAcc

LEMMA UntouchedOwed ==
  ASSUME NEW s \in Stakers, SyncedAcc' = SyncedAcc, weight'[s] = weight[s],
         lastAcc'[s] = lastAcc[s], unclaimed'[s] = unclaimed[s]
  PROVE  Owed'[s] = Owed[s]
BY DEF Owed, Accrued, Pending, Min2

\* A call leaves the caller with the bucket and the others with what they had.
LEMMA SettledOwed ==
  ASSUME TypeOK, TypeOK', NEW t \in Stakers, NEW kept \in Nat, NEW s \in Stakers,
         acc' = SyncedAcc, lastAcc' = [lastAcc EXCEPT ![t] = SyncedAcc],
         unclaimed' = [unclaimed EXCEPT ![t] = kept],
         \A u \in Stakers \ {t} : weight'[u] = weight[u],
         lastAccounted' = feeVault'
  PROVE  Owed'[s] = IF s = t THEN kept ELSE Owed[s]
<1>1. SyncedAcc' = SyncedAcc /\ SyncedAcc \in Nat
  BY SyncedIsQuiet, SyncedAccType
<1>2. CASE s = t
  <2>1. lastAcc'[s] = SyncedAcc /\ unclaimed'[s] = kept
    BY <1>2 DEF TypeOK
  <2> QED BY <1>1, <1>2, <2>1 DEF Owed, Accrued
<1>3. CASE s # t
  <2>1. lastAcc'[s] = lastAcc[s] /\ unclaimed'[s] = unclaimed[s]
    BY <1>3 DEF TypeOK
  <2> QED BY <1>1, <1>3, <2>1, UntouchedOwed
<1> QED BY <1>2, <1>3

\* Fees that arrive take nothing from anybody.
LEMMA FeesRaiseOwed ==
  ASSUME TypeOK, FeesCover, ExactOwed, ExactOwed', NEW d \in DepositSizes, DepositFees(d),
         NEW s \in Stakers
  PROVE  (Owed'[s] = Owed[s] \/ Owed'[s] > Owed[s]) /\ deposited' > deposited
<1>1. /\ d \in Nat /\ d > 0 /\ feeVault' = feeVault + d
      /\ deposited' = deposited + d
      /\ UNCHANGED <<totalWeight, acc, lastAccounted, weight, lastAcc, unclaimed>>
  BY FundsAssumption DEF DepositFees, poolVars, stakeVars
<1>2. /\ feeVault \in Nat /\ lastAccounted \in Nat /\ totalWeight \in Nat /\ acc \in Nat
      /\ weight[s] \in Nat /\ lastAcc[s] \in Nat /\ unclaimed[s] \in Nat
      /\ deposited \in Nat /\ lastAcc[s] <= acc /\ SCALE \in Nat \ {0}
  BY UnitsAssumption DEF TypeOK, FeesCover
<1>3. SyncedAcc \in Nat /\ SyncedAcc' \in Nat /\ SyncedAcc <= SyncedAcc' /\ acc <= SyncedAcc
  <2>1. SyncedAcc \in Nat /\ acc <= SyncedAcc
    BY SyncedAccType
  <2>2. CASE totalWeight > 0
    <3>1. FreshFees \in Nat /\ FreshFees' \in Nat /\ FreshFees <= FreshFees'
      BY <1>1, <1>2 DEF FreshFees
    <3>2. /\ FreshFees * SCALE \in Nat /\ (FreshFees * SCALE)' \in Nat
          /\ FreshFees * SCALE <= (FreshFees * SCALE)'
      <4>1. \A a, b \in Nat :
              a <= b => a * SCALE \in Nat /\ b * SCALE \in Nat /\ a * SCALE <= b * SCALE
        BY <1>2
      <4> QED BY <3>1, <4>1
    <3>3. Increment <= Increment' /\ Increment \in Nat /\ Increment' \in Nat
      BY <1>1, <1>2, <2>2, <3>2, DivMonotone, DivisionFacts DEF Increment
    <3>4. SyncedAcc = acc + Increment /\ SyncedAcc' = acc + Increment'
      BY <1>1, <2>2 DEF SyncedAcc
    <3>5. acc + Increment <= acc + Increment' /\ acc + Increment' \in Nat
      <4>1. \A a, b, c \in Nat : b <= c => a + b <= a + c /\ a + c \in Nat
        OBVIOUS
      <4>2. acc \in Nat
        BY <1>2
      <4> QED BY <3>3, <4>1, <4>2
    <3> QED BY <2>1, <3>4, <3>5
  <2>3. CASE ~(totalWeight > 0)
    BY <1>1, <1>2, <2>1, <2>3 DEF SyncedAcc
  <2> QED BY <2>2, <2>3, <2>1
<1> DEFINE x == (SyncedAcc - lastAcc[s]) * weight[s]
           y == (SyncedAcc' - lastAcc[s]) * weight[s]
<1>4. x \in Nat /\ y \in Nat /\ x <= y
  <2>1. /\ SyncedAcc - lastAcc[s] \in Nat /\ SyncedAcc' - lastAcc[s] \in Nat
        /\ SyncedAcc - lastAcc[s] <= SyncedAcc' - lastAcc[s]
    BY <1>2, <1>3
  <2>2. \A a, b, c \in Nat : a <= b => a * c <= b * c /\ a * c \in Nat /\ b * c \in Nat
    OBVIOUS
  <2> QED BY <1>2, <2>1, <2>2
<1>5. x \div SCALE <= y \div SCALE /\ x \div SCALE \in Nat /\ y \div SCALE \in Nat
  <2> HIDE DEF x, y
  <2> QED BY <1>2, <1>4, DivMonotone, DivisionFacts
<1>6. Owed[s] = unclaimed[s] + x \div SCALE /\ Owed'[s] = unclaimed[s] + y \div SCALE
  BY <1>1 DEF ExactOwed
<1> QED BY <1>1, <1>2, <1>5, <1>6

LEMMA OwedMoves ==
  ASSUME TypeOK, TypeOK', FeesCover, ExactOwed, ExactOwed', [Next]_vars,
         NEW s \in Stakers
  PROVE  \/ Owed'[s] = Owed[s]
         \/ deposited' > deposited /\ Owed'[s] > Owed[s]
         \/ Owed'[s] = 0 /\ feeVault' = feeVault - Owed[s]
<1>1. ASSUME NEW t \in Stakers PROVE Owed[t] = Accrued(t, SyncedAcc) /\ Owed[t] \in Nat
  BY SyncedAccType, AccruedType DEF Owed
<1>2. ASSUME NEW t \in Stakers, NEW amt \in StakeAmounts,
             NEW days \in LockOptions, Stake(t, amt, days)
      PROVE  Owed'[s] = Owed[s]
  <2>1. /\ acc' = SyncedAcc /\ lastAcc' = [lastAcc EXCEPT ![t] = SyncedAcc]
        /\ unclaimed' = [unclaimed EXCEPT ![t] = Owed[t]]
        /\ lastAccounted' = feeVault'
    BY <1>1, <1>2 DEF Stake, Settle
  <2>2. \A u \in Stakers \ {t} : weight'[u] = weight[u]
    BY <1>2 DEF Stake, TypeOK
  <2> QED BY <1>1, <2>1, <2>2, SettledOwed
<1>3. ASSUME NEW t \in Stakers, Claim(t)
      PROVE  Owed'[s] = Owed[s] \/ (Owed'[s] = 0 /\ feeVault' = feeVault - Owed[s])
  <2>1. /\ acc' = SyncedAcc /\ lastAcc' = [lastAcc EXCEPT ![t] = SyncedAcc]
        /\ unclaimed' = [unclaimed EXCEPT ![t] = 0]
        /\ lastAccounted' = feeVault' /\ feeVault' = feeVault - Owed[t]
        /\ weight' = weight
    BY <1>1, <1>3 DEF Claim, Settle, PayOut
  <2> QED BY <2>1, SettledOwed
<1>4. ASSUME NEW t \in Stakers, Unstake(t)
      PROVE  Owed'[s] = Owed[s] \/ (Owed'[s] = 0 /\ feeVault' = feeVault - Owed[s])
  <2> DEFINE out == IF claimEnabled THEN Owed[t] ELSE 0
             kept == IF claimEnabled THEN 0 ELSE Owed[t]
  <2>1. /\ acc' = SyncedAcc /\ lastAcc' = [lastAcc EXCEPT ![t] = SyncedAcc]
        /\ unclaimed' = [unclaimed EXCEPT ![t] = kept]
        /\ lastAccounted' = feeVault' /\ feeVault' = feeVault - out
        /\ weight' = [weight EXCEPT ![t] = 0]
    <3>1. Owed[t] - out = kept
      BY <1>1
    <3> QED BY <1>1, <1>4, <3>1 DEF Unstake, ExitOpen, Settle, PayOut, ClosePosition
  <2>2. \A u \in Stakers \ {t} : weight'[u] = weight[u]
    BY <2>1 DEF TypeOK
  <2>3. Owed'[s] = IF s = t THEN kept ELSE Owed[s]
    <3>1. kept \in Nat
      BY <1>1
    <3> HIDE DEF kept
    <3> QED BY <2>1, <2>2, <3>1, SettledOwed
  <2> QED BY <2>1, <2>3
<1>5. ASSUME NEW d \in DepositSizes, DepositFees(d)
      PROVE  Owed'[s] = Owed[s] \/ (deposited' > deposited /\ Owed'[s] > Owed[s])
  BY <1>5, FeesRaiseOwed
<1>6. ASSUME UNCHANGED <<totalWeight, acc, lastAccounted, feeVault,
                         weight, lastAcc, unclaimed>>
      PROVE  Owed'[s] = Owed[s]
  <2>1. SyncedAcc' = SyncedAcc
    BY <1>6 DEF SyncedAcc, Increment, FreshFees
  <2> QED BY <1>6, <2>1, UntouchedOwed
<1>7. ASSUME NEW enable \in BOOLEAN, SetClaimEnabled(enable) \/ SetDrainMode(enable)
      PROVE  Owed'[s] = Owed[s]
  <2>1. UNCHANGED <<totalWeight, acc, lastAccounted, feeVault,
                    weight, lastAcc, unclaimed>>
    BY <1>7 DEF SetClaimEnabled, SetDrainMode, poolVars, stakeVars, chainVars
  <2> QED BY <1>6, <2>1
<1>8. CASE Tick \/ UNCHANGED vars
  BY <1>6, <1>8 DEF Tick, vars, poolVars, stakeVars, chainVars
<1> QED BY <1>2, <1>3, <1>4, <1>5, <1>7, <1>8 DEF Next

\* Nobody's actions but the arrival of fees and one's own payout change what
\* one is owed.
THEOREM OwedIsOnesOwn == Spec => OwedOnlyMovesByFeesAndPayouts
<1> DEFINE Inv == Covering /\ VaultBounded
           Moves == \A s \in Stakers :
             \/ Owed'[s] = Owed[s]
             \/ deposited' > deposited /\ Owed'[s] > Owed[s]
             \/ Owed'[s] = 0 /\ feeVault' = feeVault - Owed[s]
<1>1. Init => Inv
  BY InitCovering, InitBounded
<1>2. Inv /\ [Next]_vars => Inv'
  BY NextCovering, NextBounded DEF Covering
<1>3. Inv => TypeOK /\ FeesCover /\ ExactOwed
  BY BoundedExact DEF Covering
<1>4. TypeOK /\ FeesCover /\ ExactOwed /\ TypeOK' /\ ExactOwed' /\ [Next]_vars => Moves
  BY OwedMoves
<1>5. Spec => [][Moves]_vars
  <2> HIDE DEF Inv, Moves
  <2> QED BY <1>1, <1>2, <1>3, <1>4, PTL DEF Spec
<1> QED BY <1>5 DEF OwedOnlyMovesByFeesAndPayouts

-----------------------------------------------------------------------------
(* What keeps a staker in *)

\* Nothing is missing from ExitOpen: with a position that may leave, Unstake
\* takes any state in which its assignments hold.
LEMMA ExitOpenSuffices ==
  ASSUME TypeOK, NEW s \in Stakers, amount[s] > 0, draining \/ now >= UnlockAt(s),
         ExitOpen(s), acc' = SyncedAcc,
         lastAcc' = [lastAcc EXCEPT ![s] = SyncedAcc],
         unclaimed' = [unclaimed EXCEPT ![s] = IF claimEnabled THEN 0 ELSE Owed[s]],
         feeVault' = feeVault - (IF claimEnabled THEN Owed[s] ELSE 0),
         lastAccounted' = feeVault',
         kiriteVault' = kiriteVault - amount[s],
         wallet' = [wallet EXCEPT ![s] = @ + amount[s]],
         totalWeight' = totalWeight - weight[s],
         ClosePosition(s), UNCHANGED <<switchVars, deposited, now>>
  PROVE  Unstake(s)
<1>1. Owed[s] = Accrued(s, SyncedAcc) /\ Owed[s] \in Nat
  BY SyncedAccType, AccruedType DEF Owed
<1>2. Owed[s] - (IF claimEnabled THEN Owed[s] ELSE 0) = IF claimEnabled THEN 0 ELSE Owed[s]
  BY <1>1
<1> QED BY <1>1, <1>2 DEF ExitOpen, Unstake, Settle, PayOut

\* The accumulator is bounded by the fees folded in so far.
AccBounded == acc <= SCALE * (deposited - FreshFees)

ExitInv == Covering /\ VaultBounded /\ PrincipalBacked /\ AccBounded

LEMMA SyncedBound ==
  ASSUME Covering, AccBounded
  PROVE  /\ SyncedAcc \in Nat /\ SyncedAcc <= SCALE * deposited
         /\ FreshFees \in Nat /\ FreshFees <= deposited /\ SCALE * deposited \in Nat
<1>1. /\ TypeOK /\ acc \in Nat /\ totalWeight \in Nat /\ deposited \in Nat
      /\ SCALE \in Nat \ {0} /\ FreshFees \in Nat /\ SyncedAcc \in Nat
  <2>1. TypeOK
    BY DEF Covering
  <2> QED BY <2>1, FreshFeesType, SyncedAccType, UnitsAssumption DEF TypeOK
<1>2. /\ SCALE * (deposited - FreshFees) = SCALE * deposited - SCALE * FreshFees
      /\ SCALE * deposited \in Nat /\ SCALE * FreshFees \in Nat
      /\ FreshFees * SCALE = SCALE * FreshFees
  <2>1. \A c, x, y \in Nat : /\ c * (x - y) = c * x - c * y /\ c * x \in Nat
                             /\ c * y \in Nat /\ y * c = c * y
    OBVIOUS
  <2> QED BY <1>1, <2>1
<1>3. acc + SCALE * FreshFees <= SCALE * deposited
  BY <1>1, <1>2 DEF AccBounded
<1>4. FreshFees <= deposited
  <2>1. \A c \in Nat \ {0}, x, y \in Nat : c * x <= c * y => x <= y
    OBVIOUS
  <2>2. SCALE * FreshFees <= SCALE * deposited
    BY <1>1, <1>2, <1>3
  <2> QED BY <1>1, <2>1, <2>2
<1>5. SyncedAcc <= acc + SCALE * FreshFees
  <2>1. CASE totalWeight > 0
    <3>1. \A x \in Nat, y \in Nat \ {0} : x \div y \in Nat /\ x \div y <= x
      OBVIOUS
    <3>2. Increment \in Nat /\ Increment <= SCALE * FreshFees
      BY <1>1, <1>2, <2>1, <3>1 DEF Increment
    <3> QED BY <1>1, <1>2, <2>1, <3>2 DEF SyncedAcc
  <2>2. CASE ~(totalWeight > 0)
    BY <1>1, <1>2, <2>2 DEF SyncedAcc
  <2> QED BY <2>1, <2>2
<1> QED BY <1>1, <1>2, <1>3, <1>4, <1>5

LEMMA NextAccBounded ==
  ASSUME Covering, TypeOK', AccBounded, [Next]_vars
  PROVE  AccBounded'
<1>1. TypeOK /\ deposited \in Nat /\ lastAccounted <= feeVault
      /\ feeVault \in Nat /\ lastAccounted \in Nat /\ SCALE \in Nat
  BY UnitsAssumption DEF Covering, TypeOK, FeesCover
<1>2. ASSUME acc' = SyncedAcc, lastAccounted' = feeVault', deposited' = deposited
      PROVE  AccBounded'
  <2>1. FreshFees' = 0
    BY <1>1, <1>2, SyncedIsQuiet
  <2>2. deposited' - FreshFees' = deposited
    BY <1>1, <1>2, <2>1
  <2> QED BY <1>2, <2>2, SyncedBound DEF AccBounded
<1>3. ASSUME NEW d \in DepositSizes, DepositFees(d) PROVE AccBounded'
  <2>1. /\ feeVault' = feeVault + d /\ deposited' = deposited + d /\ d \in Nat
        /\ UNCHANGED <<lastAccounted, acc>>
    BY <1>3, FundsAssumption DEF DepositFees, poolVars
  <2>2. deposited' - FreshFees' = deposited - FreshFees
    BY <1>1, <2>1 DEF FreshFees
  <2> QED BY <2>1, <2>2 DEF AccBounded
<1>4. ASSUME UNCHANGED <<acc, lastAccounted, feeVault, deposited>> PROVE AccBounded'
  BY <1>4 DEF AccBounded, FreshFees
<1>5. ASSUME NEW s \in Stakers PROVE Claim(s) \/ Unstake(s) => AccBounded'
  BY <1>2 DEF Claim, Unstake, ExitOpen, Settle, PayOut
<1>6. ASSUME NEW s \in Stakers, NEW amt \in StakeAmounts, NEW days \in LockOptions,
             Stake(s, amt, days)
      PROVE  AccBounded'
  BY <1>2, <1>6 DEF Stake, Settle
<1>7. ASSUME NEW enable \in BOOLEAN, SetClaimEnabled(enable) \/ SetDrainMode(enable)
      PROVE  AccBounded'
  BY <1>4, <1>7 DEF SetClaimEnabled, SetDrainMode, poolVars, chainVars
<1>8. CASE Tick \/ UNCHANGED vars
  BY <1>4, <1>8 DEF Tick, vars, poolVars, chainVars
<1> QED BY <1>3, <1>5, <1>6, <1>7, <1>8 DEF Next

LEMMA ExitIsOpen ==
  ASSUME ExitInv, NEW s \in Stakers
  PROVE  ExitOpen(s)
<1>1. /\ TypeOK /\ Covering /\ Solvent /\ SCALE \in Nat \ {0} /\ U64 \in Nat /\ U128 \in Nat
      /\ SCALE * U64 <= U128 /\ deposited \in Nat /\ feeVault \in Nat
      /\ FeeVaultFloor \in Nat
  BY CoveringSolvent, UnitsAssumption, WordsAssumption, FundsAssumption
     DEF ExitInv, Covering, TypeOK
<1>2. deposited < U64
  <2>1. PICK p \in Prefunding : feeVault <= FeeVaultFloor + p + deposited
    BY DEF ExitInv, VaultBounded
  <2>2. deposited <= MaxFees /\ MaxFees \in Nat /\ p \in Nat
        /\ FeeVaultFloor + p + MaxFees < U64
    BY FundsAssumption, WordsAssumption DEF ExitInv, VaultBounded
  <2> QED BY <1>1, <2>2
<1>3. SyncSucceeds
  <2>1. /\ SyncedAcc \in Nat /\ SyncedAcc <= SCALE * deposited /\ SCALE * deposited \in Nat
        /\ FreshFees \in Nat /\ FreshFees <= deposited
    BY <1>1, SyncedBound DEF ExitInv
  <2>2. \A c \in Nat \ {0}, x, y \in Nat : x < y => c * x < c * y /\ x * c < c * y
    OBVIOUS
  <2>3. SCALE * deposited < SCALE * U64 /\ FreshFees * SCALE < SCALE * U64
    BY <1>1, <1>2, <2>1, <2>2
  <2>4. SCALE * U64 \in Nat /\ FreshFees * SCALE \in Nat
    BY <1>1, <2>1, NaturalProducts
  <2> QED BY <1>1, <2>1, <2>3, <2>4 DEF SyncSucceeds
<1>4. VaultCanPay(IF claimEnabled THEN Owed[s] ELSE 0)
  <2>1. Owed \in [Stakers -> Nat]
    <3>1. \A t \in Stakers : Accrued(t, SyncedAcc) \in Nat
      BY <1>1, SyncedAccType, AccruedType
    <3> QED BY <3>1 DEF Owed
  <2>2. Owed[s] \in Nat /\ Owed[s] <= Sum(Owed, NumStakers) /\ Sum(Owed, NumStakers) \in Nat
    BY <2>1, OneChanges
  <2>3. feeVault - Owed[s] >= FeeVaultFloor
    BY <1>1, <2>2 DEF Solvent
  <2> QED BY <1>1, <2>2, <2>3 DEF VaultCanPay
<1>5. Holds(kiriteVault, amount[s])
  <2>1. amount \in [Stakers -> Nat] /\ kiriteVault = Sum(amount, NumStakers)
    BY <1>1 DEF TypeOK, ExitInv, PrincipalBacked
  <2> QED BY <2>1, OneChanges DEF Holds
<1>6. weight[s] <= totalWeight
  <2>1. weight \in [Stakers -> Nat] /\ totalWeight = Sum(weight, NumStakers)
    BY <1>1 DEF TypeOK, Covering, WeightsAddUp
  <2> QED BY <2>1, OneChanges
<1>7. Owed[s] = Accrued(s, SyncedAcc)
  BY DEF Owed
<1> QED BY <1>3, <1>4, <1>5, <1>6, <1>7 DEF ExitOpen

\* No check of the program but the lock stands between a staker and the exit:
\* the sync cannot overflow, the vaults hold what unstake sends, the rent rule
\* is met and the weights can be subtracted, whatever the others did.
THEOREM ExitsStayOpen == Spec => []ExitNeverBlocked
<1>1. Init => ExitInv
  <2> SUFFICES ASSUME Init PROVE ExitInv
    OBVIOUS
  <2>1. Covering /\ VaultBounded /\ PrincipalBacked
    BY InitCovering, InitBounded, InitPrincipal
  <2>2. AccBounded
    <3>1. acc = 0 /\ deposited = 0 /\ FreshFees = 0 /\ SCALE \in Nat
      <4>1. feeVault \in Nat /\ lastAccounted = feeVault
        BY <2>1 DEF Covering, TypeOK, Init
      <4> QED BY <4>1, UnitsAssumption DEF Init, FreshFees
    <3> QED BY <3>1 DEF AccBounded
  <2> QED BY <2>1, <2>2 DEF ExitInv
<1>2. ExitInv /\ [Next]_vars => ExitInv'
  <2> SUFFICES ASSUME ExitInv, [Next]_vars PROVE ExitInv'
    OBVIOUS
  <2>1. TypeOK /\ Covering /\ VaultBounded /\ PrincipalBacked /\ AccBounded
    BY DEF ExitInv, Covering
  <2>2. Covering' /\ VaultBounded' /\ PrincipalBacked' /\ TypeOK'
    <3>1. Covering'
      BY <2>1, NextCovering
    <3> QED BY <2>1, <3>1, NextBounded, NextPrincipal DEF Covering
  <2> QED BY <2>1, <2>2, NextAccBounded DEF ExitInv
<1>3. ExitInv => ExitNeverBlocked
  BY ExitIsOpen DEF ExitNeverBlocked
<1> QED BY <1>1, <1>2, <1>3, PTL DEF Spec

-----------------------------------------------------------------------------
(* An ideal ledger: arithmetic *)

\* Comparisons of integers do not change under a positive factor.
LEMMA ScaledOrder ==
  ASSUME NEW c \in Nat \ {0}, NEW x \in Int, NEW y \in Int
  PROVE  /\ c * x \in Int /\ c * y \in Int
         /\ c * x <= c * y <=> x <= y
         /\ c * x < c * y <=> x < y
OBVIOUS

\* A rise that is at most a T-th of X takes at most a T-th of W * X from W.
LEMMA FloorBound ==
  ASSUME NEW t \in Nat \ {0}, NEW w \in Nat, NEW rise \in Nat, NEW x \in Nat,
         NEW y \in Int, t * rise <= x, w * x <= t * y
  PROVE  w * rise <= y
<1>1. /\ w * rise \in Nat /\ t * rise \in Nat /\ w * x \in Nat /\ t * y \in Int
      /\ t * (w * rise) = w * (t * rise)
  OBVIOUS
<1>2. w * (t * rise) <= w * x
  <2>1. \A a, b \in Nat : a <= b => w * a <= w * b
    OBVIOUS
  <2> QED BY <1>1, <2>1
<1>3. t * (w * rise) <= t * y
  BY <1>1, <1>2
<1> QED BY <1>1, <1>3, ScaledOrder

\* One that is less than a unit short of it is less than W short.
LEMMA CeilBound ==
  ASSUME NEW t \in Nat \ {0}, NEW w \in Nat, NEW rise \in Nat, NEW x \in Nat,
         NEW y \in Int, x <= t * rise + t, t * y <= w * x
  PROVE  y <= w * rise + w
<1>1. /\ w * rise \in Nat /\ t * rise \in Nat /\ w * x \in Nat /\ t * y \in Int
      /\ t * (w * rise) = w * (t * rise) /\ w * t = t * w
  OBVIOUS
<1>2. w * x <= w * (t * rise + t)
  <2>1. \A a, b \in Nat : a <= b => w * a <= w * b
    OBVIOUS
  <2>2. t * rise + t \in Nat
    BY <1>1
  <2> QED BY <2>1, <2>2
<1>3. w * (t * rise + t) = w * (t * rise) + w * t
  BY <1>1, Products
<1>4. t * (w * rise + w) = t * (w * rise) + t * w
  BY <1>1, Products
<1>5. t * y <= t * (w * rise + w)
  BY <1>1, <1>2, <1>3, <1>4
<1>6. w * rise + w \in Int
  BY <1>1
<1> QED BY <1>5, <1>6, ScaledOrder

-----------------------------------------------------------------------------
(* The inductive invariant of the run beside the ledger *)

LedgerTypes ==
  /\ fairHigh \in [Stakers -> Nat] /\ fairLow \in [Stakers -> Nat]
  /\ paid \in [Stakers -> Nat] /\ stranded \in Nat /\ touches \in Nat

\* By how much, in fixed point, a share exceeds what the staker was paid and
\* has coming when the accumulator stands at a.
Gap(share, s, a) ==
  SCALE * (share[s] - paid[s] - unclaimed[s]) - weight[s] * (a - lastAcc[s])

\* The fees still to be folded in are covered by the ideal share: rounded up
\* it has them in hand in full ...
CoversFresh(s) ==
  /\ 0 <= Gap(fairHigh, s, acc)
  /\ weight[s] * (SCALE * FreshFees) <= totalWeight * Gap(fairHigh, s, acc)

\* ... and rounded down it has no more in hand than them and what the calls so
\* far have rounded off.
RoundedOff == SCALE * ((SyncLoss + 1) * touches)

OnlyRounding(s) ==
  /\ totalWeight * (Gap(fairLow, s, acc) - RoundedOff)
       <= weight[s] * (SCALE * FreshFees)
  /\ totalWeight = 0 => Gap(fairLow, s, acc) <= RoundedOff

\* All that reached the vault was paid, is due, is fresh, was stranded or was
\* rounded off.
SharedFresh == IF totalWeight > 0 THEN SCALE * FreshFees ELSE 0

AllAccounted ==
  SCALE * (deposited - stranded - Sum(paid, NumStakers))
    <= Sum(Due, NumStakers) + SharedFresh
         + SCALE * ((NumStakers * SyncLoss + 1) * touches)

\* The invariants of the program that the ledger's rest on.
ProgramInv == Covering /\ VaultBounded /\ PrincipalBacked

SharesInv ==
  /\ ProgramInv /\ LedgerTypes
  /\ \A s \in Stakers : CoversFresh(s) /\ OnlyRounding(s)
  /\ AllAccounted

-----------------------------------------------------------------------------
(* What one sync does *)

LEMMA WeightBound ==
  ASSUME ProgramInv, NEW s \in Stakers
  PROVE  /\ weight[s] \in Nat /\ weight[s] <= totalWeight
         /\ weight[s] <= SyncLoss * SCALE
<1>1. TypeOK /\ WeightsAddUp
  BY DEF ProgramInv, Covering
<1>2. weight[s] \in Nat /\ weight[s] <= totalWeight
  BY <1>1, OneChanges DEF TypeOK, WeightsAddUp
<1>3. SyncLoss \in Nat /\ SCALE \in Nat /\ SyncLoss * SCALE \in Nat
  BY LossAssumption, UnitsAssumption, NaturalProducts
<1>4. CASE amount[s] = 0
  <2>1. weight[s] = 0
    BY <1>1, <1>4 DEF WeightsAddUp
  <2> QED BY <1>2, <1>3, <2>1
<1>5. CASE amount[s] # 0
  <2> DEFINE days == lockDays[s]
             m == Multiplier[days]
  <2>1. days \in LockOptions /\ weight[s] = WeightOf(amount[s], days) /\ m \in Nat
    BY <1>1, <1>5, LockAssumption DEF WeightsAddUp
  <2>2. amount[s] \in Nat /\ Supply \in Nat /\ amount[s] <= Supply
    <3>1. wallet[s] \in Nat /\ amount[s] \in Nat /\ wallet[s] + amount[s] = Supply
      BY <1>1 DEF TypeOK, ProgramInv, PrincipalBacked
    <3> QED BY <3>1, FundsAssumption
  <2> HIDE DEF m
  <2>3. amount[s] * m \in Nat /\ Supply * m \in Nat /\ amount[s] * m <= Supply * m
    <3>1. \A a, b, c \in Nat : a <= b => a * c <= b * c /\ a * c \in Nat /\ b * c \in Nat
      OBVIOUS
    <3> QED BY <2>1, <2>2, <3>1
  <2>4. (amount[s] * m) \div 100 <= (Supply * m) \div 100
    BY <2>3, DivMonotone
  <2>5. WeightOf(amount[s], days) <= WeightOf(Supply, days)
    BY <2>4 DEF WeightOf, m
  <2>6. WeightOf(Supply, days) <= SyncLoss * SCALE /\ WeightOf(Supply, days) \in Nat
    BY <2>1, <2>2, LossAssumption, WeightOfType
  <2> QED BY <1>2, <1>3, <2>1, <2>5, <2>6
<1> QED BY <1>2, <1>4, <1>5

\* The accumulator rises by the fresh fees, rounded down to a whole unit.
LEMMA SyncRise ==
  ASSUME TypeOK
  PROVE  /\ acc \in Nat /\ SyncedAcc \in Nat /\ SyncedAcc - acc \in Nat
         /\ SCALE * FreshFees \in Nat /\ totalWeight \in Nat
         /\ totalWeight = 0 => SyncedAcc = acc
         /\ totalWeight * (SyncedAcc - acc) \in Nat
         /\ totalWeight > 0 =>
              /\ totalWeight * (SyncedAcc - acc) <= SCALE * FreshFees
              /\ SCALE * FreshFees <= totalWeight * (SyncedAcc - acc) + totalWeight
<1>1. /\ acc \in Nat /\ SyncedAcc \in Nat /\ acc <= SyncedAcc /\ totalWeight \in Nat
      /\ FreshFees \in Nat /\ SCALE \in Nat
  BY SyncedAccType, FreshFeesType, UnitsAssumption DEF TypeOK
<1>2. SCALE * FreshFees \in Nat /\ SCALE * FreshFees = FreshFees * SCALE
      /\ totalWeight * (SyncedAcc - acc) \in Nat
  <2>1. SyncedAcc - acc \in Nat
    BY <1>1
  <2> QED BY <1>1, <2>1, NaturalProducts
<1>3. CASE totalWeight = 0
  BY <1>1, <1>2, <1>3 DEF SyncedAcc
<1>4. CASE totalWeight > 0
  <2>1. \A x \in Nat, y \in Nat \ {0} :
          x \div y \in Nat /\ y * (x \div y) <= x /\ x <= y * (x \div y) + y
    OBVIOUS
  <2>2. /\ Increment \in Nat /\ totalWeight * Increment <= SCALE * FreshFees
        /\ SCALE * FreshFees <= totalWeight * Increment + totalWeight
    BY <1>1, <1>2, <1>4, <2>1 DEF Increment
  <2>3. SyncedAcc - acc = Increment
    BY <1>1, <1>4, <2>2 DEF SyncedAcc
  <2> QED BY <1>1, <1>2, <1>4, <2>2, <2>3
<1> QED BY <1>1, <1>2, <1>3, <1>4

LEMMA GapType ==
  ASSUME TypeOK, LedgerTypes, NEW s \in Stakers, NEW a \in Nat,
         NEW share \in [Stakers -> Nat]
  PROVE  /\ Gap(share, s, a) \in Int
         /\ Gap(share, s, a) = Gap(share, s, acc) - weight[s] * (a - acc)
<1>1. /\ share[s] - paid[s] - unclaimed[s] \in Int /\ weight[s] \in Nat
      /\ lastAcc[s] \in Nat /\ acc \in Nat /\ SCALE \in Nat
  BY UnitsAssumption DEF TypeOK, LedgerTypes
<1>2. SCALE * (share[s] - paid[s] - unclaimed[s]) \in Int
  BY <1>1
<1>3. a - lastAcc[s] = (acc - lastAcc[s]) + (a - acc)
  BY <1>1
<1>4. weight[s] * (a - lastAcc[s])
        = weight[s] * (acc - lastAcc[s]) + weight[s] * (a - acc)
  <2>1. acc - lastAcc[s] \in Int /\ a - acc \in Int /\ weight[s] \in Int
    BY <1>1
  <2> QED BY <1>3, <2>1, Products
<1>5. weight[s] * (acc - lastAcc[s]) \in Int /\ weight[s] * (a - acc) \in Int
  BY <1>1
<1> QED BY <1>2, <1>4, <1>5 DEF Gap

\* What is left of a share once everything owed is paid is the gap, rounded up
\* to whole lamports.
LEMMA OwedInGap ==
  ASSUME ProgramInv, LedgerTypes, NEW s \in Stakers, NEW share \in [Stakers -> Nat]
  PROVE  /\ Owed[s] \in Nat /\ Owed[s] = Accrued(s, SyncedAcc)
         /\ Gap(share, s, SyncedAcc) <= SCALE * (share[s] - paid[s] - Owed[s])
         /\ SCALE * (share[s] - paid[s] - Owed[s]) < Gap(share, s, SyncedAcc) + SCALE
         /\ DueAt(SyncedAcc)[s] < SCALE * Owed[s] + SCALE
<1> DEFINE w == weight[s] * (SyncedAcc - lastAcc[s])
           q == ((SyncedAcc - lastAcc[s]) * weight[s]) \div SCALE
           h == share[s] - paid[s]
<1>1. TypeOK /\ ExactOwed /\ lastAcc[s] <= acc
  BY BoundedExact DEF ProgramInv, Covering, FeesCover
<1>2. /\ unclaimed[s] \in Nat /\ weight[s] \in Nat /\ lastAcc[s] \in Nat
      /\ acc \in Nat /\ SyncedAcc \in Nat /\ acc <= SyncedAcc
      /\ SCALE \in Nat \ {0} /\ h \in Int
  BY <1>1, SyncedAccType, UnitsAssumption DEF TypeOK, LedgerTypes
<1>3. w \in Nat /\ w = (SyncedAcc - lastAcc[s]) * weight[s]
  <2>1. SyncedAcc - lastAcc[s] \in Nat
    BY <1>1, <1>2
  <2> QED BY <1>2, <2>1, NaturalProducts
<1>4. q \in Nat /\ SCALE * q <= w /\ w < SCALE * q + SCALE
  <2>1. \A x \in Nat, y \in Nat \ {0} :
          x \div y \in Nat /\ y * (x \div y) <= x /\ x < y * (x \div y) + y
    OBVIOUS
  <2>2. q = w \div SCALE
    BY <1>3
  <2> HIDE DEF w, q
  <2> QED BY <1>2, <1>3, <2>1, <2>2
<1>5. Owed[s] = unclaimed[s] + q
  BY <1>1 DEF ExactOwed
<1>6. Owed[s] = Accrued(s, SyncedAcc)
  BY DEF Owed
<1>7. Gap(share, s, SyncedAcc) = SCALE * (h - unclaimed[s]) - w
  BY DEF Gap
<1>8. DueAt(SyncedAcc)[s] = SCALE * unclaimed[s] + w
  BY DEF DueAt
<1> HIDE DEF w, q, h
<1>9. /\ SCALE * (h - unclaimed[s]) \in Int /\ SCALE * q \in Nat
      /\ SCALE * unclaimed[s] \in Nat
      /\ SCALE * ((h - unclaimed[s]) - q) = SCALE * (h - unclaimed[s]) - SCALE * q
      /\ SCALE * (unclaimed[s] + q) = SCALE * unclaimed[s] + SCALE * q
  <2>1. \A c, x, y \in Int :
          c * x \in Int /\ c * (x - y) = c * x - c * y /\ c * (x + y) = c * x + c * y
    OBVIOUS
  <2>2. SCALE \in Int /\ q \in Int /\ h - unclaimed[s] \in Int /\ unclaimed[s] \in Int
    BY <1>2, <1>4
  <2>3. SCALE * q \in Nat /\ SCALE * unclaimed[s] \in Nat
    BY <1>2, <1>4, NaturalProducts
  <2>4. SCALE * (h - unclaimed[s]) \in Int
    BY <2>1, <2>2
  <2>5. SCALE * ((h - unclaimed[s]) - q) = SCALE * (h - unclaimed[s]) - SCALE * q
    <3> DEFINE y == h - unclaimed[s]
    <3> HIDE DEF y
    <3>1. y \in Int
      BY <2>2 DEF y
    <3>2. SCALE * (y - q) = SCALE * y - SCALE * q
      BY <2>1, <2>2, <3>1
    <3> QED BY <3>2 DEF y
  <2>6. SCALE * (unclaimed[s] + q) = SCALE * unclaimed[s] + SCALE * q
    BY <2>1, <2>2
  <2> QED BY <2>3, <2>4, <2>5, <2>6
<1>10. share[s] - paid[s] - Owed[s] = (h - unclaimed[s]) - q
  BY <1>2, <1>4, <1>5 DEF h
<1>11. Owed[s] \in Nat
  BY <1>2, <1>4, <1>5
<1> QED BY <1>2, <1>3, <1>4, <1>5, <1>6, <1>7, <1>8, <1>9, <1>10, <1>11

\* A call may find the ideal share short of nothing ...
LEMMA HighAfterSync ==
  ASSUME ProgramInv, LedgerTypes, NEW s \in Stakers, CoversFresh(s)
  PROVE  0 <= Gap(fairHigh, s, SyncedAcc) /\ 0 <= fairHigh[s] - paid[s] - Owed[s]
<1> DEFINE rise == SyncedAcc - acc
           gap == Gap(fairHigh, s, acc)
           later == Gap(fairHigh, s, SyncedAcc)
<1>1. /\ TypeOK /\ weight[s] \in Nat /\ SCALE \in Nat \ {0}
      /\ fairHigh \in [Stakers -> Nat] /\ paid[s] \in Nat /\ fairHigh[s] \in Nat
  BY WeightBound, UnitsAssumption DEF ProgramInv, Covering, LedgerTypes
<1>2. acc \in Nat /\ SyncedAcc \in Nat
  BY <1>1, SyncRise
<1>3. gap \in Int /\ later \in Int /\ later = gap - weight[s] * rise
  BY <1>1, <1>2, GapType
<1>4. 0 <= gap /\ weight[s] * (SCALE * FreshFees) <= totalWeight * gap
  BY DEF CoversFresh
<1>5. /\ rise \in Nat /\ SCALE * FreshFees \in Nat /\ totalWeight \in Nat
      /\ totalWeight = 0 => rise = 0
      /\ totalWeight > 0 => totalWeight * rise <= SCALE * FreshFees
  BY <1>1, SyncRise
<1> HIDE DEF rise, gap
<1>6. weight[s] * rise <= gap /\ weight[s] * rise \in Nat
  <2>1. CASE totalWeight = 0
    BY <1>1, <1>3, <1>4, <1>5, <2>1
  <2>2. CASE totalWeight > 0
    <3>1. weight[s] * rise <= gap
      BY <1>1, <1>3, <1>4, <1>5, <2>2, FloorBound
    <3> QED BY <1>1, <1>5, <3>1, NaturalProducts
  <2> QED BY <1>5, <2>1, <2>2
<1>7. 0 <= later
  BY <1>3, <1>6
<1> DEFINE rest == fairHigh[s] - paid[s] - Owed[s]
<1>8. later <= SCALE * rest /\ rest \in Int
  BY <1>1, OwedInGap
<1>9. 0 <= rest
  <2> HIDE DEF later, rest
  <2>1. SCALE * 0 = 0 /\ SCALE * rest \in Int
    BY <1>1, <1>8
  <2>2. SCALE * 0 <= SCALE * rest
    BY <1>3, <1>7, <1>8, <2>1
  <2> QED BY <1>1, <1>8, <2>2, ScaledOrder
<1> QED BY <1>7, <1>9

\* ... and has it no further ahead than one sync and one accrual round off.
LEMMA LowAfterSync ==
  ASSUME ProgramInv, LedgerTypes, NEW s \in Stakers, OnlyRounding(s)
  PROVE  /\ RoundedOff \in Nat
         /\ Gap(fairLow, s, SyncedAcc) <= RoundedOff + SyncLoss * SCALE
         /\ SCALE * (fairLow[s] - paid[s] - Owed[s])
              < RoundedOff + SyncLoss * SCALE + SCALE
<1> DEFINE rise == SyncedAcc - acc
           gap == Gap(fairLow, s, acc)
           later == Gap(fairLow, s, SyncedAcc)
           most == RoundedOff + SyncLoss * SCALE
<1>1. /\ TypeOK /\ weight[s] \in Nat /\ weight[s] <= SyncLoss * SCALE
      /\ SCALE \in Nat \ {0} /\ SyncLoss \in Nat /\ touches \in Nat
      /\ SyncLoss * SCALE \in Nat
      /\ fairLow \in [Stakers -> Nat] /\ paid[s] \in Nat /\ fairLow[s] \in Nat
  BY WeightBound, UnitsAssumption, LossAssumption, NaturalProducts
     DEF ProgramInv, Covering, LedgerTypes
<1>2. RoundedOff \in Nat /\ acc \in Nat /\ SyncedAcc \in Nat
  <2>1. (SyncLoss + 1) * touches \in Nat
    BY <1>1, NaturalProducts
  <2> QED BY <1>1, <2>1, SyncRise, NaturalProducts DEF RoundedOff
<1>3. gap \in Int /\ later \in Int /\ later = gap - weight[s] * rise
  BY <1>1, <1>2, GapType
<1>4. /\ totalWeight * (gap - RoundedOff) <= weight[s] * (SCALE * FreshFees)
      /\ totalWeight = 0 => gap <= RoundedOff
  BY DEF OnlyRounding
<1>5. /\ rise \in Nat /\ SCALE * FreshFees \in Nat /\ totalWeight \in Nat
      /\ totalWeight = 0 => rise = 0
      /\ totalWeight > 0 => SCALE * FreshFees <= totalWeight * rise + totalWeight
  BY <1>1, SyncRise
<1> HIDE DEF rise, gap
<1>6. gap - RoundedOff <= weight[s] * rise + weight[s] /\ weight[s] * rise \in Nat
  <2>1. weight[s] * rise \in Nat /\ gap - RoundedOff \in Int
    BY <1>1, <1>2, <1>3, <1>5, NaturalProducts
  <2>2. CASE totalWeight = 0
    BY <1>1, <1>2, <1>3, <1>4, <2>1, <2>2
  <2>3. CASE totalWeight > 0
    <3> DEFINE x == SCALE * FreshFees
               y == gap - RoundedOff
    <3>1. /\ totalWeight \in Nat \ {0} /\ weight[s] \in Nat /\ rise \in Nat
          /\ x \in Nat /\ y \in Int
      BY <1>1, <1>5, <2>1, <2>3
    <3>2. x <= totalWeight * rise + totalWeight /\ totalWeight * y <= weight[s] * x
      BY <1>4, <1>5, <2>3
    <3> HIDE DEF x, y
    <3>3. y <= weight[s] * rise + weight[s]
      BY <3>1, <3>2, CeilBound
    <3> QED BY <2>1, <3>3 DEF y
  <2> QED BY <1>5, <2>2, <2>3
<1>7. later <= most
  BY <1>1, <1>2, <1>3, <1>6
<1> DEFINE rest == fairLow[s] - paid[s] - Owed[s]
<1>8. SCALE * rest < later + SCALE /\ rest \in Int
  BY <1>1, OwedInGap
<1>9. SCALE * rest < most + SCALE
  <2>1. SCALE * rest \in Int /\ most \in Int
    BY <1>1, <1>2, <1>8
  <2> HIDE DEF later, rest, most
  <2> QED BY <1>1, <1>3, <1>7, <1>8, <2>1
<1> QED BY <1>2, <1>7, <1>9

-----------------------------------------------------------------------------
(* What a call does to one staker *)

\* A call by t as the ledger sees it: it syncs the pool, settles t, sends out
\* to t and leaves t with the bucket kept and the weight w.
CallBy(t, kept, out, w) ==
  /\ acc' = SyncedAcc
  /\ lastAcc' = [lastAcc EXCEPT ![t] = SyncedAcc]
  /\ unclaimed' = [unclaimed EXCEPT ![t] = kept]
  /\ weight' = [weight EXCEPT ![t] = w]
  /\ paid' = [paid EXCEPT ![t] = paid[t] + out]
  /\ lastAccounted' = feeVault' /\ touches' = touches + 1
  /\ UNCHANGED <<fairHigh, fairLow, stranded, deposited>>

\* The caller keeps what the call left out; the others' shares stand where the
\* sync puts them.
LEMMA SettledGap ==
  ASSUME ProgramInv, LedgerTypes, NEW t \in Stakers, NEW kept \in Nat, NEW out \in Nat,
         NEW w \in Nat, out + kept = Owed[t], CallBy(t, kept, out, w),
         NEW share \in [Stakers -> Nat], NEW s \in Stakers
  PROVE  SCALE * (share[s] - paid'[s] - unclaimed'[s]) - weight'[s] * (acc' - lastAcc'[s])
           = IF s = t THEN SCALE * (share[s] - paid[s] - Owed[s])
                      ELSE Gap(share, s, SyncedAcc)
<1>1. TypeOK /\ SyncedAcc \in Nat /\ paid \in [Stakers -> Nat] /\ SCALE \in Nat
      /\ weight'[s] \in Nat /\ share[s] \in Nat /\ paid[s] \in Nat
  BY SyncedAccType, UnitsAssumption
     DEF ProgramInv, Covering, LedgerTypes, TypeOK, CallBy
<1>2. CASE s = t
  <2>1. lastAcc'[s] = SyncedAcc /\ unclaimed'[s] = kept /\ paid'[s] = paid[s] + out
    BY <1>1, <1>2 DEF TypeOK, CallBy
  <2>2. weight'[s] * (acc' - lastAcc'[s]) = 0
    BY <1>1, <2>1 DEF CallBy
  <2>3. share[s] - paid'[s] - unclaimed'[s] = share[s] - paid[s] - Owed[s]
    BY <1>1, <1>2, <2>1
  <2>4. SCALE * (share[s] - paid[s] - Owed[s]) \in Int
    BY <1>1, <1>2
  <2> QED BY <1>2, <2>2, <2>3, <2>4
<1>3. CASE s # t
  <2>1. /\ lastAcc'[s] = lastAcc[s] /\ unclaimed'[s] = unclaimed[s]
        /\ paid'[s] = paid[s] /\ weight'[s] = weight[s]
    BY <1>1, <1>3 DEF TypeOK, CallBy
  <2> QED BY <1>3, <2>1 DEF Gap, CallBy
<1> QED BY <1>2, <1>3

\* After a call nobody has less than nothing in hand, nor more than the
\* roundings of the calls so far, this one included.
LEMMA CallKeepsShares ==
  ASSUME SharesInv, TypeOK', NEW t \in Stakers, NEW kept \in Nat, NEW out \in Nat,
         NEW w \in Nat, out + kept = Owed[t], CallBy(t, kept, out, w),
         NEW s \in Stakers
  PROVE  CoversFresh(s)' /\ OnlyRounding(s)'
<1> DEFINE high == Gap(fairHigh, s, acc)'
           low == Gap(fairLow, s, acc)'
<1>1. /\ ProgramInv /\ LedgerTypes /\ TypeOK /\ CoversFresh(s) /\ OnlyRounding(s)
      /\ fairHigh \in [Stakers -> Nat] /\ fairLow \in [Stakers -> Nat]
      /\ weight' \in [Stakers -> Nat] /\ weight'[s] \in Nat /\ totalWeight' \in Nat
      /\ SCALE \in Nat \ {0} /\ SyncLoss \in Nat /\ touches \in Nat
      /\ SyncLoss * SCALE \in Nat /\ SyncedAcc \in Nat
  BY UnitsAssumption, LossAssumption, NaturalProducts, SyncedAccType
     DEF SharesInv, ProgramInv, Covering, TypeOK, LedgerTypes
<1>2. high = IF s = t THEN SCALE * (fairHigh[s] - paid[s] - Owed[s])
                      ELSE Gap(fairHigh, s, SyncedAcc)
  <2>1. high = SCALE * (fairHigh[s] - paid'[s] - unclaimed'[s])
                 - weight'[s] * (acc' - lastAcc'[s])
    BY DEF Gap, CallBy
  <2> QED BY <1>1, <2>1, SettledGap
<1>3. low = IF s = t THEN SCALE * (fairLow[s] - paid[s] - Owed[s])
                     ELSE Gap(fairLow, s, SyncedAcc)
  <2>1. low = SCALE * (fairLow[s] - paid'[s] - unclaimed'[s])
                - weight'[s] * (acc' - lastAcc'[s])
    BY DEF Gap, CallBy
  <2> QED BY <1>1, <2>1, SettledGap
<1>4. /\ fairHigh[s] - paid[s] - Owed[s] \in Int /\ fairLow[s] - paid[s] - Owed[s] \in Int
      /\ Gap(fairHigh, s, SyncedAcc) \in Int /\ Gap(fairLow, s, SyncedAcc) \in Int
  <2>1. Owed[s] \in Nat /\ paid[s] \in Nat /\ fairHigh[s] \in Nat /\ fairLow[s] \in Nat
    BY <1>1, OwedInGap DEF LedgerTypes
  <2> QED BY <1>1, <2>1, GapType
<1> HIDE DEF high, low
<1>5. high \in Int /\ 0 <= high
  <2>1. 0 <= Gap(fairHigh, s, SyncedAcc) /\ 0 <= fairHigh[s] - paid[s] - Owed[s]
    BY <1>1, HighAfterSync
  <2>2. \A c \in Nat, x \in Int : 0 <= x => c * x \in Int /\ 0 <= c * x
    OBVIOUS
  <2> QED BY <1>1, <1>2, <1>4, <2>1, <2>2
<1>6. RoundedOff \in Nat /\ RoundedOff' \in Nat
      /\ RoundedOff' = RoundedOff + SyncLoss * SCALE + SCALE
  <2>1. /\ SyncLoss + 1 \in Nat /\ (SyncLoss + 1) * touches \in Nat
        /\ (SyncLoss + 1) * (touches + 1) = (SyncLoss + 1) * touches + (SyncLoss + 1)
    BY <1>1
  <2> DEFINE r == (SyncLoss + 1) * touches
  <2> HIDE DEF r
  <2>2. SCALE * (r + (SyncLoss + 1)) = SCALE * r + SyncLoss * SCALE + SCALE
    <3>1. r \in Nat
      BY <2>1 DEF r
    <3> QED BY <1>1, <3>1
  <2>3. RoundedOff = SCALE * r /\ RoundedOff' = SCALE * (r + (SyncLoss + 1))
    BY <2>1 DEF RoundedOff, r, CallBy
  <2>4. SCALE * r \in Nat
    BY <1>1, <2>1, NaturalProducts DEF r
  <2> QED BY <1>1, <2>2, <2>3, <2>4
<1>7. low \in Int /\ low <= RoundedOff'
  <2>1. /\ Gap(fairLow, s, SyncedAcc) <= RoundedOff + SyncLoss * SCALE
        /\ SCALE * (fairLow[s] - paid[s] - Owed[s]) < RoundedOff + SyncLoss * SCALE + SCALE
    BY <1>1, LowAfterSync
  <2>2. SCALE * (fairLow[s] - paid[s] - Owed[s]) \in Int
    BY <1>1, <1>4
  <2> QED BY <1>1, <1>3, <1>4, <1>6, <2>1, <2>2
<1>8. FreshFees' = 0 /\ weight'[s] * (SCALE * FreshFees') = 0
  BY <1>1, SyncedIsQuiet DEF CallBy
<1>9. CoversFresh(s)'
  <2>1. totalWeight' * high \in Int /\ 0 <= totalWeight' * high
    <3>1. totalWeight' \in Nat /\ high \in Nat
      BY <1>1, <1>5
    <3>2. totalWeight' * high \in Nat
      BY <3>1, NaturalProducts
    <3> QED BY <3>2
  <2> QED BY <1>5, <1>8, <2>1 DEF CoversFresh, high
<1>10. OnlyRounding(s)'
  <2>1. totalWeight' * (low - RoundedOff') <= 0
    <3> DEFINE y == low - RoundedOff'
    <3>1. y \in Int /\ y <= 0
      BY <1>6, <1>7
    <3> HIDE DEF y
    <3>2. totalWeight' * y <= 0
      <4>1. \A c \in Nat, z \in Int : z <= 0 => c * z <= 0
        OBVIOUS
      <4>2. totalWeight' \in Nat
        BY <1>1
      <4> QED BY <3>1, <4>1, <4>2
    <3> QED BY <3>2 DEF y
  <2> QED BY <1>7, <1>8, <2>1 DEF OnlyRounding, low
<1> QED BY <1>9, <1>10

-----------------------------------------------------------------------------
(* What a fee does to one staker *)

\* The ideal parts of a fee: together with what the weight rounds, its due.
LEMMA FeeParts ==
  ASSUME NEW d \in Nat, NEW w \in Nat, NEW t \in Nat \ {0}
  PROVE  /\ CeilDiv(d * w, t) \in Nat /\ d * w <= t * CeilDiv(d * w, t)
         /\ (d * w) \div t \in Nat /\ t * ((d * w) \div t) <= d * w
<1>1. d * w \in Nat
  OBVIOUS
<1>2. \A x \in Nat : /\ (x + t - 1) \div t \in Nat /\ x <= t * ((x + t - 1) \div t)
                     /\ x \div t \in Nat /\ t * (x \div t) <= x
  OBVIOUS
<1> QED BY <1>1, <1>2 DEF CeilDiv

\* A fee adds to both sides of the two bounds what it must.
LEMMA FeeBounds ==
  ASSUME NEW c \in Nat, NEW w \in Nat, NEW t \in Nat, NEW f \in Nat, NEW d \in Nat,
         NEW g \in Int, NEW part \in Int
  PROVE  /\ w * (c * (f + d)) = w * (c * f) + c * (d * w)
         /\ t * (g + c * part) = t * g + c * (t * part)
         /\ d * w <= t * part => c * (d * w) <= c * (t * part)
         /\ t * part <= d * w => c * (t * part) <= c * (d * w)
         /\ w * (c * f) \in Int /\ c * (d * w) \in Int /\ t * g \in Int
         /\ c * (t * part) \in Int
<1>1. c * (f + d) = c * f + c * d /\ c * f \in Int /\ c * d \in Int
  BY Products
<1>2. w * (c * f + c * d) = w * (c * f) + w * (c * d)
  BY <1>1, Products
<1>3. w * (c * d) = c * (d * w)
  OBVIOUS
<1>4. c * part \in Int /\ t * (g + c * part) = t * g + t * (c * part)
  <2>1. c * part \in Int
    OBVIOUS
  <2> QED BY <2>1, Products
<1>5. t * (c * part) = c * (t * part)
  OBVIOUS
<1>6. \A x, y \in Int : x <= y => c * x <= c * y
  OBVIOUS
<1>7. /\ d * w \in Int /\ t * part \in Int /\ w * (c * f) \in Int /\ c * (d * w) \in Int
      /\ t * g \in Int /\ c * (t * part) \in Int
  OBVIOUS
<1> QED BY <1>1, <1>2, <1>3, <1>4, <1>5, <1>6, <1>7

LEMMA FeeKeepsShares ==
  ASSUME SharesInv, NEW d \in DepositSizes, SplitFee(d), NEW s \in Stakers
  PROVE  CoversFresh(s)' /\ OnlyRounding(s)'
<1> DEFINE high == Gap(fairHigh, s, acc)
           low == Gap(fairLow, s, acc)
           F == FreshFees
           T == totalWeight
           w == weight[s]
<1>1. /\ TypeOK /\ LedgerTypes /\ CoversFresh(s) /\ OnlyRounding(s) /\ d \in Nat
      /\ SCALE \in Nat \ {0} /\ fairHigh[s] \in Nat /\ fairLow[s] \in Nat
      /\ fairHigh \in [Stakers -> Nat] /\ fairLow \in [Stakers -> Nat]
      /\ paid[s] \in Nat /\ unclaimed[s] \in Nat /\ T \in Nat /\ w \in Nat /\ w <= T
      /\ F \in Nat
  BY UnitsAssumption, FundsAssumption, WeightBound, FreshFeesType
     DEF SharesInv, ProgramInv, Covering, TypeOK, LedgerTypes
<1>2. /\ UNCHANGED <<totalWeight, acc, lastAccounted, weight, lastAcc, unclaimed,
                     paid, touches>>
      /\ feeVault' = feeVault + d
  BY DEF SplitFee, DepositFees, poolVars, stakeVars
<1>3. FreshFees' = F + d
  <2>1. /\ feeVault \in Nat /\ lastAccounted \in Nat /\ lastAccounted <= feeVault
    BY <1>1 DEF SharesInv, ProgramInv, Covering, FeesCover, TypeOK
  <2> QED BY <1>1, <1>2, <2>1 DEF FreshFees
<1>4. high \in Int /\ low \in Int /\ RoundedOff \in Int /\ RoundedOff' = RoundedOff
  <2>1. acc \in Nat /\ touches \in Nat /\ SyncLoss \in Nat
    BY <1>1, LossAssumption DEF TypeOK, LedgerTypes
  <2>2. (SyncLoss + 1) * touches \in Nat
    BY <2>1, NaturalProducts
  <2>3. RoundedOff \in Nat
    BY <1>1, <2>2, NaturalProducts DEF RoundedOff
  <2> QED BY <1>1, <1>2, <2>1, <2>3, GapType DEF RoundedOff
<1>5. /\ 0 <= high /\ w * (SCALE * F) <= T * high
      /\ T * (low - RoundedOff) <= w * (SCALE * F)
      /\ T = 0 => low <= RoundedOff
  BY <1>1 DEF CoversFresh, OnlyRounding
<1>6. CASE T = 0
  <2>1. fairHigh' = fairHigh /\ fairLow' = fairLow
    BY <1>6 DEF SplitFee
  <2>2. Gap(fairHigh, s, acc)' = high /\ Gap(fairLow, s, acc)' = low
    BY <1>2, <2>1 DEF Gap
  <2>3. w = 0 /\ weight'[s] = 0 /\ totalWeight' = 0
    BY <1>1, <1>2, <1>6
  <2> HIDE DEF high, low
  <2>4. weight'[s] * (SCALE * FreshFees') = 0
    BY <1>1, <1>3, <2>3
  <2>5. totalWeight' * high = 0 /\ totalWeight' * (low - RoundedOff) = 0
    BY <1>4, <2>3
  <2>6. CoversFresh(s)'
    BY <1>5, <2>2, <2>4, <2>5 DEF CoversFresh
  <2>7. OnlyRounding(s)'
    BY <1>4, <1>5, <1>6, <2>2, <2>4, <2>5 DEF OnlyRounding
  <2> QED BY <2>6, <2>7
<1>7. CASE T > 0
  <2> DEFINE up == CeilDiv(d * w, T)
             down == (d * w) \div T
  <2>1. fairHigh'[s] = fairHigh[s] + up /\ fairLow'[s] = fairLow[s] + down
    BY <1>7 DEF SplitFee
  <2>2. up \in Nat /\ d * w <= T * up /\ down \in Nat /\ T * down <= d * w
    <3>1. d \in Nat /\ w \in Nat /\ T \in Nat \ {0}
      BY <1>1, <1>7
    <3> HIDE DEF w, T
    <3> QED BY <3>1, FeeParts
  <2> HIDE DEF up, down
  <2>3. Gap(fairHigh, s, acc)' = high + SCALE * up
    <3>1. /\ Gap(fairHigh, s, acc)' = SCALE * (fairHigh'[s] - paid[s] - unclaimed[s])
                                         - w * (acc - lastAcc[s])
          /\ w * (acc - lastAcc[s]) \in Int
      BY <1>1, <1>2 DEF Gap, TypeOK
    <3>2. SCALE * (fairHigh'[s] - paid[s] - unclaimed[s])
            = SCALE * (fairHigh[s] - paid[s] - unclaimed[s]) + SCALE * up
      <4> DEFINE x == fairHigh[s] - paid[s] - unclaimed[s]
      <4>1. x \in Int /\ fairHigh'[s] - paid[s] - unclaimed[s] = x + up
        BY <1>1, <2>1, <2>2
      <4> HIDE DEF x
      <4>2. SCALE * (x + up) = SCALE * x + SCALE * up
        BY <1>1, <2>2, <4>1, Products
      <4> QED BY <4>1, <4>2 DEF x
    <3>3. SCALE * (fairHigh[s] - paid[s] - unclaimed[s]) \in Int /\ SCALE * up \in Int
      BY <1>1, <2>2
    <3> QED BY <3>1, <3>2, <3>3 DEF Gap
  <2>4. Gap(fairLow, s, acc)' = low + SCALE * down
    <3>1. /\ Gap(fairLow, s, acc)' = SCALE * (fairLow'[s] - paid[s] - unclaimed[s])
                                         - w * (acc - lastAcc[s])
          /\ w * (acc - lastAcc[s]) \in Int
      BY <1>1, <1>2 DEF Gap, TypeOK
    <3>2. SCALE * (fairLow'[s] - paid[s] - unclaimed[s])
            = SCALE * (fairLow[s] - paid[s] - unclaimed[s]) + SCALE * down
      <4> DEFINE x == fairLow[s] - paid[s] - unclaimed[s]
      <4>1. x \in Int /\ fairLow'[s] - paid[s] - unclaimed[s] = x + down
        BY <1>1, <2>1, <2>2
      <4> HIDE DEF x
      <4>2. SCALE * (x + down) = SCALE * x + SCALE * down
        BY <1>1, <2>2, <4>1, Products
      <4> QED BY <4>1, <4>2 DEF x
    <3>3. SCALE * (fairLow[s] - paid[s] - unclaimed[s]) \in Int /\ SCALE * down \in Int
      BY <1>1, <2>2
    <3> QED BY <3>1, <3>2, <3>3 DEF Gap
  <2> HIDE DEF high, low, F, T, w
  <2>5. CoversFresh(s)'
    <3>1. w * (SCALE * (F + d)) <= T * (high + SCALE * up)
      BY <1>1, <1>4, <1>5, <2>2, FeeBounds
    <3>2. 0 <= high + SCALE * up
      <4>1. SCALE * up \in Nat
        BY <1>1, <2>2, NaturalProducts
      <4> QED BY <1>4, <1>5, <4>1
    <3> QED BY <1>2, <1>3, <2>3, <3>1, <3>2 DEF CoversFresh, w, T
  <2>6. OnlyRounding(s)'
    <3> DEFINE g == low - RoundedOff
    <3>1. g \in Int /\ T * g <= w * (SCALE * F)
      BY <1>4, <1>5
    <3>2. low + SCALE * down - RoundedOff = g + SCALE * down
      BY <1>1, <1>4, <2>2
    <3> HIDE DEF g
    <3>3. T * (g + SCALE * down) <= w * (SCALE * (F + d))
      BY <1>1, <2>2, <3>1, FeeBounds
    <3>4. totalWeight' # 0
      BY <1>2, <1>7 DEF T
    <3>5. totalWeight' * (Gap(fairLow, s, acc)' - RoundedOff')
            <= weight'[s] * (SCALE * FreshFees')
      <4>1. Gap(fairLow, s, acc)' - RoundedOff' = g + SCALE * down
        <5> DEFINE then == Gap(fairLow, s, acc)'
        <5>1. then = low + SCALE * down
          BY <2>4
        <5> HIDE DEF then
        <5>2. then - RoundedOff = g + SCALE * down
          BY <1>1, <1>4, <2>2, <3>2, <5>1
        <5> QED BY <1>4, <5>2 DEF then
      <4>2. totalWeight' = T /\ weight'[s] = w
        BY <1>2 DEF w, T
      <4> QED BY <1>3, <3>3, <4>1, <4>2
    <3> QED BY <3>4, <3>5 DEF OnlyRounding
  <2> QED BY <2>5, <2>6
<1> QED BY <1>1, <1>6, <1>7

-----------------------------------------------------------------------------
(* Where all the fees went *)

\* Equal terms add up to their number times one of them.
LEMMA SumConstant ==
  ASSUME NEW n \in Nat, NEW c \in Int, NEW h \in [1..n -> Int],
         \A i \in 1..n : h[i] = c
  PROVE  Sum(h, n) = n * c
<1> DEFINE r == PrefixSum(h, n)
           T == {i \in 0..n : r[i] = i * c}
<1>1. /\ r \in [0..n -> Int] /\ r[0] = 0
      /\ \A i \in 1..n : r[i] = r[i - 1] + h[i]
  BY PrefixSumFacts
<1> HIDE DEF r
<1>2. 0 \in T
  BY <1>1
<1>3. ASSUME NEW i \in 0..n, i # 0, i - 1 \in T PROVE i \in T
  <2>1. i \in 1..n /\ i \in Int
    BY <1>3
  <2>2. r[i] = (i - 1) * c + c
    BY <1>1, <1>3, <2>1
  <2>3. \A j, k \in Int : (j - 1) * k + k = j * k
    OBVIOUS
  <2> QED BY <2>1, <2>2, <2>3
<1>4. 0..n \subseteq T
  <2> HIDE DEF T
  <2> QED BY <1>2, <1>3, IntervalInduction
<1>5. n \in 0..n
  OBVIOUS
<1> QED BY <1>4, <1>5 DEF Sum, r

LEMMA TotalBound ==
  ASSUME ProgramInv
  PROVE  /\ NumStakers * SyncLoss \in Nat /\ SCALE * (NumStakers * SyncLoss) \in Nat
         /\ totalWeight <= SCALE * (NumStakers * SyncLoss)
<1> DEFINE c == SyncLoss * SCALE
           h == [s \in Stakers |-> c]
<1>1. NumStakers \in Nat /\ Stakers = 1..NumStakers
  BY StakersAssumption DEF Stakers
<1>2. SyncLoss \in Nat /\ SCALE \in Nat /\ c \in Nat
  BY LossAssumption, UnitsAssumption, NaturalProducts
<1> HIDE DEF c
<1>3. /\ weight \in [1..NumStakers -> Int] /\ h \in [1..NumStakers -> Int]
      /\ \A i \in 1..NumStakers : weight[i] <= h[i] /\ h[i] = c
  <2>1. weight \in [Stakers -> Nat]
    BY DEF ProgramInv, Covering, TypeOK
  <2>2. \A s \in Stakers : weight[s] <= c
    BY WeightBound DEF c
  <2> QED BY <1>1, <1>2, <2>1, <2>2
<1> HIDE DEF h
<1>4. Sum(weight, NumStakers) <= NumStakers * c
  <2>1. Sum(weight, NumStakers) <= Sum(h, NumStakers)
    BY <1>1, <1>3, SumMono
  <2>2. Sum(h, NumStakers) = NumStakers * c
    BY <1>1, <1>2, <1>3, SumConstant
  <2> QED BY <2>1, <2>2
<1>5. NumStakers * c = SCALE * (NumStakers * SyncLoss)
  BY <1>1, <1>2 DEF c
<1>6. NumStakers * SyncLoss \in Nat /\ SCALE * (NumStakers * SyncLoss) \in Nat
  BY <1>1, <1>2, NaturalProducts
<1> QED BY <1>4, <1>5, <1>6 DEF ProgramInv, Covering, WeightsAddUp

\* A sync rounds off at most what the positions' bounds allow.
LEMMA SyncAccounted ==
  ASSUME ProgramInv
  PROVE  /\ Sum(Due, NumStakers) \in Nat /\ SharedFresh \in Nat
         /\ Sum(DueAt(SyncedAcc), NumStakers) \in Nat
         /\ Sum(Due, NumStakers) + SharedFresh
              <= Sum(DueAt(SyncedAcc), NumStakers) + SCALE * (NumStakers * SyncLoss)
<1>1. TypeOK /\ WeightsAddUp /\ \A s \in Stakers : lastAcc[s] <= acc
  BY DEF ProgramInv, Covering, FeesCover
<1>2. /\ Due \in [Stakers -> Nat] /\ DueAt(SyncedAcc) \in [Stakers -> Nat]
      /\ Sum(DueAt(SyncedAcc), NumStakers)
           = Sum(Due, NumStakers) + totalWeight * (SyncedAcc - acc)
  BY <1>1, SyncedDue
<1> DEFINE D == Sum(Due, NumStakers)
           E == Sum(DueAt(SyncedAcc), NumStakers)
           gain == totalWeight * (SyncedAcc - acc)
           slack == SCALE * (NumStakers * SyncLoss)
           fresh == SCALE * FreshFees
<1>3. D \in Nat /\ E \in Nat
  <2>1. NumStakers \in Nat /\ Stakers = 1..NumStakers
    BY StakersAssumption DEF Stakers
  <2> QED BY <1>2, <2>1, SumOfNaturals
<1>4. /\ gain \in Nat /\ totalWeight \in Nat /\ fresh \in Nat
      /\ totalWeight > 0 => fresh <= gain + totalWeight
  BY <1>1, SyncRise
<1>5. slack \in Nat /\ totalWeight <= slack
  BY TotalBound
<1>6. E = D + gain
  BY <1>2
<1>7. SharedFresh = IF totalWeight > 0 THEN fresh ELSE 0
  BY DEF SharedFresh
<1> HIDE DEF D, E, gain, slack, fresh
<1>8. SharedFresh \in Nat /\ D + SharedFresh <= E + slack
  BY <1>3, <1>4, <1>5, <1>6, <1>7
<1> QED BY <1>3, <1>8 DEF D, E, slack

\* What is owed in whole lamports falls short of what is due by less than a
\* lamport for every position.
LEMMA OwedAccounted ==
  ASSUME ProgramInv, LedgerTypes
  PROVE  /\ Owed \in [Stakers -> Nat] /\ Sum(Owed, NumStakers) \in Nat
         /\ Sum(DueAt(SyncedAcc), NumStakers)
              <= SCALE * Sum(Owed, NumStakers) + NumStakers * SCALE
<1> DEFINE D == DueAt(SyncedAcc)
           big == [s \in Stakers |-> SCALE * Owed[s]]
           one == [s \in Stakers |-> SCALE]
           h == [s \in Stakers |-> SCALE * Owed[s] + SCALE]
<1>1. NumStakers \in Nat /\ Stakers = 1..NumStakers /\ SCALE \in Nat
  BY StakersAssumption, UnitsAssumption DEF Stakers
<1>2. D \in [Stakers -> Nat]
  BY SyncCovered DEF ProgramInv
<1>3. \A s \in Stakers : Owed[s] \in Nat /\ D[s] < SCALE * Owed[s] + SCALE
  <2> SUFFICES ASSUME NEW s \in Stakers
               PROVE  Owed[s] \in Nat /\ D[s] < SCALE * Owed[s] + SCALE
    OBVIOUS
  <2>1. paid \in [Stakers -> Nat]
    BY DEF LedgerTypes
  <2> HIDE DEF D
  <2> QED BY <2>1, OwedInGap DEF D
<1>4. Owed \in [Stakers -> Nat]
  <2>1. Owed = [s \in Stakers |-> Owed[s]]
    BY DEF Owed
  <2> QED BY <1>3, <2>1
<1> HIDE DEF D
<1>5. /\ D \in [1..NumStakers -> Int] /\ Owed \in [1..NumStakers -> Int]
      /\ big \in [1..NumStakers -> Int] /\ one \in [1..NumStakers -> Int]
      /\ h \in [1..NumStakers -> Int]
  BY <1>1, <1>2, <1>4
<1>6. \A i \in 1..NumStakers : /\ D[i] <= h[i] /\ h[i] = big[i] + one[i]
                               /\ big[i] = SCALE * Owed[i] /\ one[i] = SCALE
  <2> SUFFICES ASSUME NEW i \in 1..NumStakers
               PROVE  D[i] <= h[i]
    BY <1>1
  <2>1. D[i] \in Nat /\ h[i] = SCALE * Owed[i] + SCALE /\ h[i] \in Int /\ D[i] < h[i]
    BY <1>1, <1>2, <1>3, <1>5
  <2> QED BY <2>1
<1> HIDE DEF big, one, h
<1>7. Sum(D, NumStakers) <= Sum(h, NumStakers)
  BY <1>1, <1>5, <1>6, SumMono
<1>8. Sum(h, NumStakers) = Sum(big, NumStakers) + Sum(one, NumStakers)
  BY <1>1, <1>5, <1>6, SumPlus
<1>9. Sum(big, NumStakers) = SCALE * Sum(Owed, NumStakers)
  <2>1. \A i \in 1..NumStakers : big[i] = SCALE * Owed[i]
    BY <1>6
  <2>2. SCALE \in Int
    BY <1>1
  <2> QED BY <1>1, <1>5, <2>1, <2>2, SumScaled
<1>10. Sum(one, NumStakers) = NumStakers * SCALE
  <2>1. \A i \in 1..NumStakers : one[i] = SCALE
    BY <1>6
  <2>2. SCALE \in Int
    BY <1>1
  <2> QED BY <1>1, <1>5, <2>1, <2>2, SumConstant
<1>11. Sum(Owed, NumStakers) \in Nat
  BY <1>1, <1>4, SumOfNaturals
<1> QED BY <1>4, <1>7, <1>8, <1>9, <1>10, <1>11 DEF D

\* A call takes from what is due what it pays, and rounds off no more than one
\* sync of the pool and one accrual of the caller.
LEMMA CallKeepsAccount ==
  ASSUME SharesInv, TypeOK', NEW t \in Stakers, NEW kept \in Nat, NEW out \in Nat,
         NEW w \in Nat, out + kept = Owed[t], CallBy(t, kept, out, w)
  PROVE  AllAccounted'
<1> DEFINE D == Sum(Due, NumStakers)
           E == Sum(DueAt(SyncedAcc), NumStakers)
           dt == DueAt(SyncedAcc)[t]
           P == Sum(paid, NumStakers)
           slack == SCALE * (NumStakers * SyncLoss)
           k == NumStakers * SyncLoss + 1
           left == deposited - stranded - P
<1>1. /\ ProgramInv /\ LedgerTypes /\ TypeOK /\ AllAccounted /\ SCALE \in Nat
      /\ touches \in Nat /\ deposited \in Nat /\ stranded \in Nat
      /\ paid \in [Stakers -> Nat] /\ paid[t] \in Nat
      /\ DueAt(SyncedAcc) \in [Stakers -> Nat]
  BY UnitsAssumption, SyncCovered
     DEF SharesInv, ProgramInv, Covering, TypeOK, LedgerTypes
<1>2. D \in Nat /\ SharedFresh \in Nat /\ E \in Nat /\ D + SharedFresh <= E + slack
  BY <1>1, SyncAccounted
<1>3. slack \in Nat /\ k \in Nat /\ slack + SCALE = SCALE * k
  <2>1. NumStakers * SyncLoss \in Nat /\ slack \in Nat
    BY <1>1, TotalBound
  <2>2. \A x, y \in Nat : x * y + x = x * (y + 1)
    OBVIOUS
  <2> QED BY <1>1, <2>1, <2>2
<1>4. dt \in Nat /\ dt < SCALE * Owed[t] + SCALE /\ Owed[t] \in Nat
  BY <1>1, OwedInGap
<1>5. Sum(Due', NumStakers) = E + SCALE * kept - dt
  <2> DEFINE f == DueAt(SyncedAcc)
  <2>1. Due' = [f EXCEPT ![t] = SCALE * kept]
    BY <1>1, SettledDue DEF CallBy
  <2>2. SCALE * kept \in Nat /\ f \in [Stakers -> Nat]
    BY <1>1, NaturalProducts
  <2> HIDE DEF f
  <2>3. Sum([f EXCEPT ![t] = SCALE * kept], NumStakers)
          = Sum(f, NumStakers) + SCALE * kept - f[t]
    BY <2>2, OneChanges
  <2> QED BY <2>1, <2>3 DEF f
<1>6. P \in Nat /\ Sum(paid', NumStakers) = P + out
  <2>1. paid[t] + out \in Nat
    BY <1>1
  <2>2. P \in Nat /\ Sum([paid EXCEPT ![t] = paid[t] + out], NumStakers)
                       = P + (paid[t] + out) - paid[t]
    BY <1>1, <2>1, OneChanges
  <2> QED BY <1>1, <2>2 DEF CallBy
<1>7. SharedFresh' = 0
  BY <1>1, SyncedIsQuiet DEF SharedFresh, CallBy
<1>8. SCALE * left <= D + SharedFresh + SCALE * (k * touches)
  BY <1>1 DEF AllAccounted
<1>9. (deposited - stranded - Sum(paid, NumStakers))' = left - out
  <2>1. deposited' = deposited /\ stranded' = stranded
    BY DEF CallBy
  <2> HIDE DEF P
  <2>2. deposited - stranded - (P + out) = (deposited - stranded - P) - out
    BY <1>1, <1>6
  <2> QED BY <1>6, <2>1, <2>2 DEF P
<1>10. left \in Int
  BY <1>1, <1>6
<1> HIDE DEF D, E, dt, P, slack, k, left
<1>11. /\ SCALE * (left - out) = SCALE * left - SCALE * out
       /\ SCALE * Owed[t] = SCALE * out + SCALE * kept
       /\ SCALE * (k * (touches + 1)) = SCALE * (k * touches) + SCALE * k
       /\ SCALE * left \in Int /\ SCALE * out \in Int /\ SCALE * kept \in Int
       /\ SCALE * (k * touches) \in Int /\ SCALE * k \in Int
  <2>1. \A c, x, y \in Int : /\ c * (x - y) = c * x - c * y /\ c * x \in Int
                             /\ c * (x + y) = c * x + c * y
    OBVIOUS
  <2>2. SCALE \in Int /\ out \in Int /\ kept \in Int /\ k \in Int /\ touches \in Int
    BY <1>1, <1>3
  <2>3. SCALE * (left - out) = SCALE * left - SCALE * out /\ SCALE * left \in Int
        /\ SCALE * out \in Int
    BY <1>10, <2>1, <2>2
  <2>4. SCALE * (out + kept) = SCALE * out + SCALE * kept /\ SCALE * kept \in Int
    BY <2>1, <2>2
  <2>5. k * (touches + 1) = k * touches + k /\ k * touches \in Int
    BY <2>2
  <2>6. SCALE * (k * touches + k) = SCALE * (k * touches) + SCALE * k
        /\ SCALE * (k * touches) \in Int /\ SCALE * k \in Int
    BY <2>1, <2>2, <2>5
  <2> QED BY <2>3, <2>4, <2>5, <2>6
<1>12. SCALE * (left - out)
         <= (E + SCALE * kept - dt) + 0 + SCALE * (k * (touches + 1))
  BY <1>1, <1>2, <1>3, <1>4, <1>8, <1>11
<1>13. touches' = touches + 1
  BY DEF CallBy
<1> QED BY <1>5, <1>7, <1>9, <1>12, <1>13 DEF AllAccounted, k

\* A fee is fresh until the next call, or stranded at once.
LEMMA FeeKeepsAccount ==
  ASSUME SharesInv, NEW d \in DepositSizes, SplitFee(d)
  PROVE  AllAccounted'
<1> DEFINE D == Sum(Due, NumStakers)
           P == Sum(paid, NumStakers)
           R == SCALE * ((NumStakers * SyncLoss + 1) * touches)
           left == deposited - stranded - P
<1>1. /\ ProgramInv /\ LedgerTypes /\ TypeOK /\ AllAccounted /\ SCALE \in Nat /\ d \in Nat
      /\ touches \in Nat /\ deposited \in Nat /\ stranded \in Nat
      /\ paid \in [Stakers -> Nat] /\ lastAccounted <= feeVault
      /\ feeVault \in Nat /\ lastAccounted \in Nat /\ totalWeight \in Nat
  BY UnitsAssumption, FundsAssumption
     DEF SharesInv, ProgramInv, Covering, FeesCover, TypeOK, LedgerTypes
<1>2. /\ UNCHANGED <<totalWeight, acc, lastAccounted, weight, lastAcc, unclaimed,
                     paid, touches>>
      /\ feeVault' = feeVault + d /\ deposited' = deposited + d
  BY DEF SplitFee, DepositFees, poolVars, stakeVars
<1>3. D \in Nat /\ P \in Nat /\ R \in Nat
  <2>1. NumStakers \in Nat /\ Stakers = 1..NumStakers
    BY StakersAssumption DEF Stakers
  <2>2. D \in Nat /\ NumStakers * SyncLoss \in Nat
    BY <1>1, SyncAccounted, TotalBound
  <2>3. P \in Nat
    BY <1>1, <2>1, SumOfNaturals
  <2>4. (NumStakers * SyncLoss + 1) * touches \in Nat
    BY <1>1, <2>2, NaturalProducts
  <2> QED BY <1>1, <2>2, <2>3, <2>4, NaturalProducts
<1>4. Due' = Due /\ R' = R /\ deposited' = deposited + d /\ Sum(paid, NumStakers)' = P
  <2>1. Due' = Due /\ R' = R
    BY <1>2 DEF Due
  <2>2. paid' = paid /\ deposited' = deposited + d
    BY <1>2
  <2>3. Sum(paid, NumStakers)' = Sum(paid', NumStakers)
    OBVIOUS
  <2>4. Sum(paid', NumStakers) = P
    BY <2>2
  <2> QED BY <2>1, <2>2, <2>3, <2>4
<1>5. SCALE * left <= D + SharedFresh + R
  BY <1>1 DEF AllAccounted
<1>6. FreshFees \in Nat /\ FreshFees' = FreshFees + d
  BY <1>1, <1>2 DEF FreshFees
<1>7. CASE totalWeight = 0
  <2>1. stranded' = stranded + d
    BY <1>7 DEF SplitFee
  <2>2. (deposited - stranded - Sum(paid, NumStakers))' = left
    <3> HIDE DEF P
    <3> QED BY <1>1, <1>3, <1>4, <2>1
  <2>3. SharedFresh = 0 /\ SharedFresh' = 0
    BY <1>2, <1>7 DEF SharedFresh
  <2> QED BY <1>4, <1>5, <2>2, <2>3 DEF AllAccounted
<1>8. CASE totalWeight > 0
  <2>1. stranded' = stranded
    BY <1>8 DEF SplitFee
  <2>2. (deposited - stranded - Sum(paid, NumStakers))' = left + d /\ left \in Int
    <3> HIDE DEF P
    <3> QED BY <1>1, <1>3, <1>4, <2>1
  <2>3. /\ SharedFresh = SCALE * FreshFees /\ SharedFresh \in Nat
        /\ SharedFresh' = SharedFresh + SCALE * d /\ SCALE * d \in Nat
    <3>1. SCALE * (FreshFees + d) = SCALE * FreshFees + SCALE * d
          /\ SCALE * FreshFees \in Nat /\ SCALE * d \in Nat
      <4>1. \A c, x, y \in Nat : /\ c * (x + y) = c * x + c * y
                                 /\ c * x \in Nat /\ c * y \in Nat
        OBVIOUS
      <4> QED BY <1>1, <1>6, <4>1
    <3> QED BY <1>2, <1>6, <1>8, <3>1 DEF SharedFresh
  <2> HIDE DEF left, D, R
  <2>4. SCALE * (left + d) = SCALE * left + SCALE * d /\ SCALE * left \in Int
    BY <1>1, <2>2, Products
  <2>5. SCALE * (left + d) <= D + (SharedFresh + SCALE * d) + R
    BY <1>3, <1>5, <2>3, <2>4
  <2>6. SCALE * (deposited - stranded - Sum(paid, NumStakers))'
          <= D' + SharedFresh' + R'
    BY <1>4, <2>2, <2>3, <2>5 DEF D
  <2> QED BY <2>6 DEF AllAccounted, D, R
<1> QED BY <1>1, <1>7, <1>8

-----------------------------------------------------------------------------
(* Every step keeps the invariant *)

LEMMA InitShares == LedgerInit => SharesInv
<1> SUFFICES ASSUME LedgerInit PROVE SharesInv
  OBVIOUS
<1>1. ProgramInv
  BY InitCovering, InitBounded, InitPrincipal DEF LedgerInit, ProgramInv
<1>2. TypeOK /\ LedgerTypes /\ SCALE \in Nat /\ SyncLoss \in Nat /\ FreshFees = 0
  BY <1>1, UnitsAssumption, LossAssumption
     DEF LedgerInit, LedgerTypes, ProgramInv, Covering, TypeOK, Init, FreshFees
<1>3. ASSUME NEW s \in Stakers PROVE CoversFresh(s) /\ OnlyRounding(s)
  <2>1. Gap(fairHigh, s, acc) = 0 /\ Gap(fairLow, s, acc) = 0
    <3>1. /\ fairHigh[s] = 0 /\ fairLow[s] = 0 /\ paid[s] = 0 /\ unclaimed[s] = 0
          /\ weight[s] = 0 /\ acc = 0 /\ lastAcc[s] = 0
      BY DEF LedgerInit, Init
    <3> QED BY <1>2, <3>1 DEF Gap
  <2>2. totalWeight = 0 /\ weight[s] = 0
    BY DEF LedgerInit, Init
  <2>3. RoundedOff = 0
    BY <1>2 DEF LedgerInit, RoundedOff
  <2> QED BY <1>2, <2>1, <2>2, <2>3 DEF CoversFresh, OnlyRounding
<1>4. AllAccounted
  <2>1. Sum(paid, NumStakers) = 0 /\ deposited = 0 /\ stranded = 0
    <3>1. /\ NumStakers \in Nat /\ paid \in [1..NumStakers -> Int]
          /\ \A i \in 1..NumStakers : paid[i] = 0
      BY StakersAssumption DEF LedgerInit, Stakers
    <3> QED BY <3>1, SumZero DEF LedgerInit, Init
  <2>2. Sum(Due, NumStakers) \in Nat /\ SharedFresh \in Nat /\ NumStakers * SyncLoss \in Nat
    BY <1>1, SyncAccounted, TotalBound
  <2>3. (NumStakers * SyncLoss + 1) * touches = 0
    BY <2>2 DEF LedgerInit
  <2> QED BY <1>2, <2>1, <2>2, <2>3 DEF AllAccounted
<1> QED BY <1>1, <1>2, <1>3, <1>4 DEF SharesInv

\* Every step of the ledger is a step of the program.
LEMMA LedgerSteps == [LedgerNext]_allVars => [Next]_vars
BY DEF LedgerNext, LedgerStake, LedgerClaim, LedgerUnstake, LedgerSwitch, LedgerTick,
       SplitFee, Next, allVars

\* Each of the three calls settles the caller.
LEMMA CallsSettle ==
  ASSUME SharesInv, NEW t \in Stakers,
         \/ \E amt \in StakeAmounts, days \in LockOptions : LedgerStake(t, amt, days)
         \/ LedgerClaim(t)
         \/ LedgerUnstake(t)
  PROVE  \E kept, out, w \in Nat : out + kept = Owed[t] /\ CallBy(t, kept, out, w)
<1>1. /\ ProgramInv /\ LedgerTypes /\ TypeOK
      /\ Owed[t] = Accrued(t, SyncedAcc) /\ Owed[t] \in Nat
      /\ feeVault \in Nat /\ amount[t] \in Nat /\ weight[t] \in Nat
      /\ weight \in [Stakers -> Nat] /\ paid \in [Stakers -> Nat]
  <2>1. ProgramInv /\ LedgerTypes /\ TypeOK /\ paid \in [Stakers -> Nat]
    BY DEF SharesInv, ProgramInv, Covering, LedgerTypes
  <2> QED BY <2>1, OwedInGap DEF TypeOK
<1>2. ASSUME NEW amt \in StakeAmounts, NEW days \in LockOptions,
             LedgerStake(t, amt, days)
      PROVE  \E kept, out, w \in Nat : out + kept = Owed[t] /\ CallBy(t, kept, out, w)
  <2> DEFINE w == WeightOf(amount[t] + amt, days)
  <2>1. w \in Nat
    <3>1. amount[t] + amt \in Nat
      BY <1>1, FundsAssumption
    <3> QED BY <3>1, WeightOfType
  <2>2. CallBy(t, Owed[t], 0, w)
    <3>1. feeVault' = feeVault /\ lastAccounted' = feeVault
      BY <1>2 DEF LedgerStake, Stake
    <3>2. paid' = [paid EXCEPT ![t] = paid[t] + 0]
      <4>1. feeVault - feeVault' = 0
        BY <1>1, <3>1
      <4> QED BY <1>2, <4>1 DEF LedgerStake, Touch
    <3> QED BY <1>1, <1>2, <3>1, <3>2 DEF LedgerStake, Touch, Stake, Settle, CallBy
  <2>3. 0 + Owed[t] = Owed[t]
    BY <1>1
  <2> QED BY <1>1, <2>1, <2>2, <2>3
<1>3. ASSUME LedgerClaim(t)
      PROVE  \E kept, out, w \in Nat : out + kept = Owed[t] /\ CallBy(t, kept, out, w)
  <2>1. CallBy(t, 0, Owed[t], weight[t])
    <3>1. feeVault' = feeVault - Owed[t] /\ lastAccounted' = feeVault'
      BY <1>1, <1>3 DEF LedgerClaim, Claim, PayOut
    <3>2. paid' = [paid EXCEPT ![t] = paid[t] + Owed[t]]
      <4>1. feeVault - feeVault' = Owed[t]
        BY <1>1, <3>1
      <4> QED BY <1>3, <4>1 DEF LedgerClaim, Touch
    <3>3. weight' = [weight EXCEPT ![t] = weight[t]]
      BY <1>1, <1>3 DEF LedgerClaim, Claim
    <3> QED BY <1>3, <3>1, <3>2, <3>3 DEF LedgerClaim, Touch, Claim, Settle, CallBy
  <2>2. Owed[t] + 0 = Owed[t]
    BY <1>1
  <2> QED BY <1>1, <2>1, <2>2
<1>4. ASSUME LedgerUnstake(t)
      PROVE  \E kept, out, w \in Nat : out + kept = Owed[t] /\ CallBy(t, kept, out, w)
  <2> DEFINE out == IF claimEnabled THEN Owed[t] ELSE 0
             kept == Owed[t] - out
  <2>1. out \in Nat /\ kept \in Nat /\ out + kept = Owed[t]
    BY <1>1
  <2>2. CallBy(t, kept, out, 0)
    <3>1. /\ feeVault' = feeVault - out /\ lastAccounted' = feeVault'
          /\ unclaimed' = [unclaimed EXCEPT ![t] = kept]
          /\ weight' = [weight EXCEPT ![t] = 0]
      BY <1>1, <1>4 DEF LedgerUnstake, Unstake, ExitOpen, Settle, PayOut, ClosePosition
    <3> HIDE DEF out, kept
    <3>2. paid' = [paid EXCEPT ![t] = paid[t] + out]
      <4>1. feeVault - feeVault' = out
        BY <1>1, <2>1, <3>1
      <4> QED BY <1>4, <4>1 DEF LedgerUnstake, Touch
    <3> QED BY <1>4, <3>1, <3>2 DEF LedgerUnstake, Touch, Unstake, ExitOpen, Settle, CallBy
  <2> HIDE DEF out, kept
  <2> QED BY <2>1, <2>2
<1> QED BY <1>2, <1>3, <1>4

LEMMA NextLedgerTypes ==
  ASSUME SharesInv, [LedgerNext]_allVars
  PROVE  LedgerTypes'
<1>1. LedgerTypes /\ TypeOK /\ weight \in [Stakers -> Nat] /\ totalWeight \in Nat
  BY DEF SharesInv, ProgramInv, Covering, TypeOK
<1>2. ASSUME NEW d \in DepositSizes, SplitFee(d) PROVE LedgerTypes'
  <2>1. d \in Nat
    BY FundsAssumption
  <2>2. CASE totalWeight = 0
    BY <1>1, <1>2, <2>1, <2>2 DEF SplitFee, LedgerTypes
  <2>3. CASE totalWeight # 0
    <3>1. /\ totalWeight \in Nat \ {0}
          /\ \A s \in Stakers : /\ CeilDiv(d * weight[s], totalWeight) \in Nat
                                /\ (d * weight[s]) \div totalWeight \in Nat
      <4>1. totalWeight \in Nat \ {0}
        BY <1>1, <2>3
      <4> QED BY <1>1, <2>1, <4>1, FeeParts
    <3>2. /\ fairHigh' = [s \in Stakers |->
                 fairHigh[s] + CeilDiv(d * weight[s], totalWeight)]
          /\ fairLow' = [s \in Stakers |->
                 fairLow[s] + (d * weight[s]) \div totalWeight]
          /\ UNCHANGED <<stranded, paid, touches>>
      BY <1>2, <2>3 DEF SplitFee
    <3>3. fairHigh' \in [Stakers -> Nat] /\ fairLow' \in [Stakers -> Nat]
      BY <1>1, <3>1, <3>2 DEF LedgerTypes
    <3> QED BY <1>1, <3>2, <3>3 DEF LedgerTypes
  <2> QED BY <2>2, <2>3
<1>3. ASSUME NEW t \in Stakers, NEW kept \in Nat, NEW out \in Nat, NEW w \in Nat,
             CallBy(t, kept, out, w)
      PROVE  LedgerTypes'
  <2>1. paid[t] + out \in Nat
    BY <1>1 DEF LedgerTypes
  <2> QED BY <1>1, <1>3, <2>1 DEF LedgerTypes, CallBy
<1>4. CASE UNCHANGED ledgerVars
  BY <1>1, <1>4 DEF ledgerVars, LedgerTypes
<1>5. ASSUME NEW t \in Stakers,
             \/ \E amt \in StakeAmounts, days \in LockOptions : LedgerStake(t, amt, days)
             \/ LedgerClaim(t)
             \/ LedgerUnstake(t)
      PROVE  LedgerTypes'
  BY <1>3, <1>5, CallsSettle
<1> QED BY <1>2, <1>4, <1>5 DEF LedgerNext, LedgerSwitch, LedgerTick, allVars

\* A step that moves no money moves no share.
LEMMA QuietKeepsShares ==
  ASSUME SharesInv,
         UNCHANGED <<totalWeight, acc, lastAccounted, weight, lastAcc, unclaimed,
                     feeVault, deposited, ledgerVars>>
  PROVE  (\A s \in Stakers : CoversFresh(s)' /\ OnlyRounding(s)') /\ AllAccounted'
<1>1. /\ FreshFees' = FreshFees /\ RoundedOff' = RoundedOff /\ Due' = Due
      /\ SharedFresh' = SharedFresh
  BY DEF FreshFees, RoundedOff, Due, SharedFresh, ledgerVars
<1>2. ASSUME NEW s \in Stakers
      PROVE  /\ Gap(fairHigh, s, acc)' = Gap(fairHigh, s, acc)
             /\ Gap(fairLow, s, acc)' = Gap(fairLow, s, acc)
  BY DEF Gap, ledgerVars
<1>3. ASSUME NEW s \in Stakers PROVE CoversFresh(s)' /\ OnlyRounding(s)'
  <2>1. CoversFresh(s) /\ OnlyRounding(s)
    BY DEF SharesInv
  <2> QED BY <1>1, <1>2, <2>1 DEF CoversFresh, OnlyRounding
<1>4. AllAccounted'
  <2>1. AllAccounted
    BY DEF SharesInv
  <2>2. paid' = paid /\ stranded' = stranded /\ touches' = touches /\ deposited' = deposited
    BY DEF ledgerVars
  <2> QED BY <1>1, <2>1, <2>2 DEF AllAccounted
<1> QED BY <1>3, <1>4

LEMMA NextShares ==
  ASSUME SharesInv, [LedgerNext]_allVars
  PROVE  SharesInv'
<1>1. ProgramInv' /\ TypeOK'
  <2>1. Covering /\ VaultBounded /\ PrincipalBacked /\ TypeOK /\ [Next]_vars
    BY LedgerSteps DEF SharesInv, ProgramInv, Covering
  <2>2. Covering' /\ VaultBounded' /\ PrincipalBacked'
    BY <2>1, NextCovering, NextBounded, NextPrincipal
  <2> QED BY <2>2 DEF ProgramInv, Covering
<1>2. LedgerTypes'
  BY NextLedgerTypes
<1> DEFINE Kept == (\A s \in Stakers : CoversFresh(s)' /\ OnlyRounding(s)') /\ AllAccounted'
<1>3. ASSUME NEW d \in DepositSizes, SplitFee(d) PROVE Kept
  BY <1>3, FeeKeepsShares, FeeKeepsAccount
<1>4. ASSUME NEW t \in Stakers,
             \/ \E amt \in StakeAmounts, days \in LockOptions : LedgerStake(t, amt, days)
             \/ LedgerClaim(t)
             \/ LedgerUnstake(t)
      PROVE  Kept
  <2>1. PICK kept \in Nat, out \in Nat, w \in Nat :
             out + kept = Owed[t] /\ CallBy(t, kept, out, w)
    BY <1>4, CallsSettle
  <2>2. \A s \in Stakers : CoversFresh(s)' /\ OnlyRounding(s)'
    BY <1>1, <2>1, CallKeepsShares
  <2>3. AllAccounted'
    BY <1>1, <2>1, CallKeepsAccount
  <2> QED BY <2>2, <2>3
<1>5. ASSUME LedgerSwitch \/ LedgerTick \/ UNCHANGED allVars PROVE Kept
  <2>1. UNCHANGED <<totalWeight, acc, lastAccounted, weight, lastAcc, unclaimed,
                    feeVault, deposited, ledgerVars>>
    BY <1>5 DEF LedgerSwitch, LedgerTick, SetClaimEnabled, SetDrainMode, Tick,
                allVars, vars, poolVars, stakeVars, chainVars
  <2> QED BY <2>1, QuietKeepsShares
<1> HIDE DEF Kept
<1>6. Kept
  BY <1>3, <1>4, <1>5 DEF LedgerNext
<1> QED BY <1>1, <1>2, <1>6 DEF SharesInv, Kept

-----------------------------------------------------------------------------
(* The theorems about the shares *)

\* The accounting of fees, paid, owed and still to be split, holds at every
\* step of the program beside its ideal ledger.
THEOREM SharesInvariant == LedgerSpec => []SharesInv
<1>1. SharesInv /\ [LedgerNext]_allVars => SharesInv'
  BY NextShares
<1> QED BY <1>1, InitShares, PTL DEF LedgerSpec

\* However fees, stakes, claims and exits follow each other, each staker was
\* paid and is owed the ideal share, rounded down by no more than the calls
\* that synced the pool account for.
THEOREM SharesAreFair == LedgerSpec => []FairlyShared
<1>1. SharesInv => FairlyShared
  <2> SUFFICES ASSUME SharesInv PROVE FairlyShared
    OBVIOUS
  <2> SUFFICES ASSUME NEW s \in Stakers
               PROVE  /\ paid[s] + Owed[s] <= fairHigh[s]
                      /\ paid[s] + Owed[s] + (SyncLoss + 1) * touches + SyncLoss
                           >= fairLow[s]
    BY DEF FairlyShared, NeverOverpaid, NeverShortchanged
  <2> DEFINE r == (SyncLoss + 1) * touches
             rest == fairLow[s] - paid[s] - Owed[s]
  <2>1. /\ ProgramInv /\ LedgerTypes /\ CoversFresh(s) /\ OnlyRounding(s)
        /\ fairLow \in [Stakers -> Nat]
    BY DEF SharesInv, LedgerTypes
  <2>2. /\ Owed[s] \in Nat /\ paid[s] \in Nat /\ fairHigh[s] \in Nat /\ fairLow[s] \in Nat
        /\ SCALE \in Nat \ {0} /\ SyncLoss \in Nat /\ r \in Nat
    <3>1. SyncLoss + 1 \in Nat /\ touches \in Nat
      BY <2>1, LossAssumption DEF LedgerTypes
    <3>2. r \in Nat
      BY <3>1, NaturalProducts
    <3> QED BY <2>1, <3>2, OwedInGap, UnitsAssumption, LossAssumption DEF LedgerTypes
  <2>3. 0 <= fairHigh[s] - paid[s] - Owed[s]
    BY <2>1, HighAfterSync
  <2>4. SCALE * rest < SCALE * r + SyncLoss * SCALE + SCALE
    BY <2>1, LowAfterSync DEF RoundedOff
  <2> HIDE DEF r
  <2>5. rest < r + SyncLoss + 1
    <3>1. rest \in Int /\ r + SyncLoss + 1 \in Int
      BY <2>2
    <3>2. SCALE * (r + SyncLoss + 1) = SCALE * r + SyncLoss * SCALE + SCALE
      BY <2>2
    <3> HIDE DEF rest
    <3> QED BY <2>2, <2>4, <3>1, <3>2, ScaledOrder
  <2>6. paid[s] + Owed[s] + r + SyncLoss >= fairLow[s]
    BY <2>2, <2>5
  <2> QED BY <2>2, <2>3, <2>6 DEF r
<1> QED BY <1>1, SharesInvariant, PTL

\* Every lamport sent to the vault reaches a staker, is owed to one, came
\* while nobody was staked, or is among the counted roundings.
THEOREM FeesAreAccountedFor == LedgerSpec => []NoFeeLost
<1>1. SharesInv => NoFeeLost
  <2> SUFFICES ASSUME SharesInv PROVE NoFeeLost
    OBVIOUS
  <2> DEFINE P == Sum(paid, NumStakers)
             O == Sum(Owed, NumStakers)
             n == NumStakers * SyncLoss
             r == (n + 1) * touches
             left == deposited - stranded - P
             E == Sum(DueAt(SyncedAcc), NumStakers)
  <2>1. /\ ProgramInv /\ LedgerTypes /\ TypeOK /\ AllAccounted
        /\ SCALE \in Nat \ {0} /\ NumStakers \in Nat /\ Stakers = 1..NumStakers
        /\ paid \in [Stakers -> Nat] /\ deposited \in Nat /\ stranded \in Nat
        /\ touches \in Nat /\ SyncLoss \in Nat
    BY UnitsAssumption, StakersAssumption, LossAssumption
       DEF SharesInv, ProgramInv, Covering, LedgerTypes, TypeOK, Stakers
  <2>2. /\ Sum(Due, NumStakers) \in Nat /\ SharedFresh \in Nat /\ E \in Nat
        /\ Sum(Due, NumStakers) + SharedFresh <= E + SCALE * n
    BY <2>1, SyncAccounted
  <2>3. O \in Nat /\ E <= SCALE * O + NumStakers * SCALE
    BY <2>1, OwedAccounted
  <2>4. n \in Nat /\ r \in Nat /\ P \in Nat
    <3>1. n \in Nat
      BY <2>1, NaturalProducts
    <3>2. r \in Nat
      BY <2>1, <3>1, NaturalProducts
    <3> QED BY <2>1, <3>1, <3>2, SumOfNaturals
  <2>5. SCALE * left <= Sum(Due, NumStakers) + SharedFresh + SCALE * r
    BY <2>1 DEF AllAccounted
  <2>6. NumStakers * (SyncLoss + 1) = n + NumStakers
    BY <2>1
  <2>7. left \in Int
    BY <2>1, <2>4
  <2> HIDE DEF P, O, n, r, left, E
  <2>8. SCALE * left <= SCALE * (O + n + NumStakers + r)
    <3>1. /\ SCALE * (O + n + NumStakers + r)
               = SCALE * O + SCALE * n + NumStakers * SCALE + SCALE * r
          /\ SCALE * O \in Int /\ SCALE * n \in Int /\ NumStakers * SCALE \in Int
          /\ SCALE * r \in Int /\ SCALE * left \in Int
      BY <2>1, <2>3, <2>4, <2>7
    <3> QED BY <2>2, <2>3, <2>5, <3>1
  <2>9. left <= O + n + NumStakers + r
    <3>1. O + n + NumStakers + r \in Int
      BY <2>1, <2>3, <2>4
    <3> QED BY <2>1, <2>7, <2>8, <3>1, ScaledOrder
  <2>10. deposited <= P + O + stranded + r + (n + NumStakers)
    BY <2>1, <2>3, <2>4, <2>9 DEF left
  <2> QED BY <2>6, <2>10 DEF NoFeeLost, P, O, r, n
<1> QED BY <1>1, SharesInvariant, PTL
=============================================================================
