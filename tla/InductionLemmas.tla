--------------------------- MODULE InductionLemmas ---------------------------
(***************************************************************************)
(* Induction and recursion in a form the provers can use: about a set of   *)
(* natural numbers, or of sets, instead of a predicate.  They serve the    *)
(* proofs about what is defined by recursion over a log, a queue or a set. *)
(***************************************************************************)
EXTENDS Integers, FiniteSets, WellFoundedInduction, FiniteSetTheorems, TLAPS

\* A set that has zero and with each number the next one has all of them.
LEMMA NatSetInduction ==
  ASSUME NEW P, 0 \in P, \A n \in Nat : n \in P => n + 1 \in P
  PROVE  Nat \subseteq P
<1> DEFINE T == Nat \ P
<1>1. SUFFICES ASSUME T # {} PROVE FALSE
  OBVIOUS
<1>2. PICK x \in T : \A y \in T : <<y, x>> \notin OpToRel(<, Nat)
  <2>1. T \subseteq Nat
    OBVIOUS
  <2> QED BY <1>1, <2>1, NatLessThanWellFounded, WFMin
<1>3. x # 0 /\ x \in Nat
  OBVIOUS
<1>4. x - 1 \in Nat /\ <<x - 1, x>> \in OpToRel(<, Nat)
  BY <1>3 DEF OpToRel
<1>5. x - 1 \in P
  BY <1>2, <1>4
<1>6. (x - 1) + 1 \in P
  BY <1>4, <1>5
<1> QED BY <1>3, <1>6

---------------------------------------------------------------------------
(***************************************************************************)
(* A function on the naturals may be defined by its value at zero and by   *)
(* how each value follows from the one before.                             *)
(***************************************************************************)
IsStep(step, S) == step \in [Nat \X S -> S]

IsRecursive(f, a, step) == f[0] = a /\ \A n \in Nat : f[n + 1] = step[<<n + 1, f[n]>>]

Approximations(S, a, step, n) ==
    {g \in [0 .. n -> S] : g[0] = a /\ \A i \in 1 .. n : g[i] = step[<<i, g[i - 1]>>]}

LEMMA ApproximationsExist ==
  ASSUME NEW S, NEW a \in S, NEW step, IsStep(step, S), NEW n \in Nat
  PROVE  Approximations(S, a, step, n) # {}
<1> DEFINE P == {k \in Nat : Approximations(S, a, step, k) # {}}
<1>1. 0 \in P
  <2>1. [i \in 0 .. 0 |-> a] \in Approximations(S, a, step, 0)
    BY DEF Approximations
  <2> QED BY <2>1
<1>2. ASSUME NEW k \in Nat, k \in P PROVE k + 1 \in P
  <2>1. PICK g : g \in Approximations(S, a, step, k)
    BY <1>2
  <2> DEFINE h == [i \in 0 .. k + 1 |-> IF i <= k THEN g[i] ELSE step[<<k + 1, g[k]>>]]
  <2>2. g \in [0 .. k -> S] /\ g[0] = a /\ \A i \in 1 .. k : g[i] = step[<<i, g[i - 1]>>]
    BY <2>1 DEF Approximations
  <2>3. h \in [0 .. k + 1 -> S]
    BY <2>2 DEF IsStep
  <2>4. h[0] = a
    BY <2>2
  <2>5. ASSUME NEW i \in 1 .. k + 1 PROVE h[i] = step[<<i, h[i - 1]>>]
    <3>1. CASE i <= k
      <4>1. i \in 1 .. k /\ h[i] = g[i] /\ h[i - 1] = g[i - 1]
        BY <3>1
      <4> QED BY <2>2, <4>1
    <3>2. CASE i = k + 1
      BY <3>2
    <3> QED BY <3>1, <3>2
  <2>6. h \in Approximations(S, a, step, k + 1)
    BY <2>3, <2>4, <2>5 DEF Approximations
  <2> QED BY <2>6
<1> HIDE DEF P
<1>3. Nat \subseteq P
  BY <1>1, <1>2, NatSetInduction
<1> QED BY <1>3 DEF P

LEMMA ApproximationsAgree ==
  ASSUME NEW S, NEW a \in S, NEW step, IsStep(step, S),
         NEW m \in Nat, NEW n \in Nat, NEW i \in Nat, i <= m, i <= n,
         NEW g \in Approximations(S, a, step, m), NEW h \in Approximations(S, a, step, n)
  PROVE  g[i] = h[i]
<1> DEFINE P == {k \in Nat : k <= m /\ k <= n => g[k] = h[k]}
<1>1. 0 \in P
  BY DEF Approximations
<1>2. ASSUME NEW k \in Nat, k \in P PROVE k + 1 \in P
  <2>1. SUFFICES ASSUME k + 1 <= m, k + 1 <= n PROVE g[k + 1] = h[k + 1]
    OBVIOUS
  <2>2. g[k] = h[k]
    BY <1>2, <2>1
  <2>3. k + 1 \in 1 .. m /\ k + 1 \in 1 .. n /\ (k + 1) - 1 = k
    BY <2>1
  <2> QED BY <2>2, <2>3 DEF Approximations
<1> HIDE DEF P
<1>3. Nat \subseteq P
  BY <1>1, <1>2, NatSetInduction
<1> QED BY <1>3 DEF P

LEMMA PrimitiveRecursion ==
  ASSUME NEW S, NEW a \in S, NEW step, IsStep(step, S)
  PROVE  \E f \in [Nat -> S] : IsRecursive(f, a, step)
<1> DEFINE A(n) == Approximations(S, a, step, n)
           best == [n \in Nat |-> CHOOSE g \in A(n) : TRUE]
           f    == [n \in Nat |-> best[n][n]]
<1>1. ASSUME NEW n \in Nat PROVE best[n] \in A(n)
  BY ApproximationsExist
<1>2. ASSUME NEW n \in Nat
      PROVE  /\ best[n] \in [0 .. n -> S] /\ best[n][0] = a
             /\ \A i \in 1 .. n : best[n][i] = step[<<i, best[n][i - 1]>>]
  BY <1>1 DEF Approximations
<1> HIDE DEF best
<1>3. f \in [Nat -> S]
  BY <1>2
<1>4. f[0] = a
  BY <1>2
<1>5. ASSUME NEW n \in Nat PROVE f[n + 1] = step[<<n + 1, f[n]>>]
  <2>1. best[n + 1][n + 1] = step[<<n + 1, best[n + 1][n]>>]
    BY <1>2
  <2>2. best[n + 1][n] = best[n][n]
    BY <1>1, ApproximationsAgree
  <2> QED BY <2>1, <2>2
<1> QED BY <1>3, <1>4, <1>5 DEF IsRecursive
---------------------------------------------------------------------------
(***************************************************************************)
(* Finite sets.                                                            *)
(***************************************************************************)

\* A collection of subsets of S that has the empty one, and with each one those with one
\* element more, has S.
LEMMA FiniteSetInduction ==
  ASSUME NEW S, IsFiniteSet(S), NEW P, {} \in P,
         \A T \in SUBSET S, x \in S : x \notin T /\ T \in P => T \cup {x} \in P
  PROVE  S \in P
<1> DEFINE Q == {n \in Nat : \A T \in SUBSET S : Cardinality(T) = n => T \in P}
<1>1. \A T \in SUBSET S : IsFiniteSet(T) /\ Cardinality(T) \in Nat
  BY FS_Subset, FS_CardinalityType
<1>2. 0 \in Q
  BY <1>1, FS_EmptySet
<1>3. ASSUME NEW n \in Nat, n \in Q PROVE n + 1 \in Q
  <2>1. SUFFICES ASSUME NEW T \in SUBSET S, Cardinality(T) = n + 1 PROVE T \in P
    OBVIOUS
  <2>2. PICK x : x \in T
    BY <1>1, <2>1, FS_EmptySet
  <2>3. Cardinality(T \ {x}) = Cardinality(T) - 1
    BY <1>1, <2>2, FS_RemoveElement
  <2>4. T \ {x} \in P
    BY <1>3, <2>1, <2>3
  <2> QED BY <2>2, <2>4
<1> HIDE DEF Q
<1>4. Nat \subseteq Q
  BY <1>2, <1>3, NatSetInduction
<1> QED BY <1>1, <1>4 DEF Q

---------------------------------------------------------------------------
(***************************************************************************)
(* The sum of f over the subsets of S, as MapThenSumSet defines it: sum    *)
(* satisfies the equation of its fold.                                     *)
(***************************************************************************)
Chosen(T) == CHOOSE x \in T : TRUE

IsSum(sum, f, S) ==
    /\ IsFiniteSet(S)
    /\ f \in [S -> Nat]
    /\ sum \in [SUBSET S -> Nat]
    /\ sum = [T \in SUBSET S |-> IF T = {} THEN 0 ELSE f[Chosen(T)] + sum[T \ {Chosen(T)}]]

LEMMA SumExists ==
  ASSUME NEW S, IsFiniteSet(S), NEW f \in [S -> Nat]
  PROVE  \E sum : IsSum(sum, f, S)
<1> DEFINE F    == [SUBSET S -> Nat]
           Step(g) == [T \in SUBSET S |-> IF T = {} THEN 0 ELSE f[Chosen(T)] + g[T \ {Chosen(T)}]]
           step == [x \in Nat \X F |-> Step(x[2])]
           zero == [T \in SUBSET S |-> 0]
<1>1. \A T \in SUBSET S : T # {} => Chosen(T) \in T /\ T \ {Chosen(T)} \in SUBSET S
  BY DEF Chosen
<1>2. \A g \in F : Step(g) \in F
  BY <1>1
<1>3. IsStep(step, F) /\ zero \in F
  BY <1>2 DEF IsStep
<1>4. PICK h \in [Nat -> F] : IsRecursive(h, zero, step)
  <2> HIDE DEF F, step, zero
  <2> QED BY <1>3, PrimitiveRecursion
<1>5. ASSUME NEW n \in Nat PROVE h[n] \in F /\ h[n + 1] = Step(h[n])
  <2>1. h[n] \in F /\ h[n + 1] = step[<<n + 1, h[n]>>]
    BY <1>4 DEF IsRecursive
  <2>2. \A k \in Nat, g \in F : step[<<k, g>>] = Step(g)
    BY Zenon
  <2> HIDE DEF F, Step, step
  <2> QED BY <2>1, <2>2
<1>6. \A T \in SUBSET S : IsFiniteSet(T) /\ Cardinality(T) \in Nat
  BY FS_Subset, FS_CardinalityType
<1> DEFINE sum == [T \in SUBSET S |-> IF T = {} THEN 0 ELSE h[Cardinality(T)][T]]
<1>7. sum \in [SUBSET S -> Nat]
  BY <1>5, <1>6
<1>8. ASSUME NEW T \in SUBSET S, T # {} PROVE sum[T] = f[Chosen(T)] + sum[T \ {Chosen(T)}]
  <2> DEFINE U == T \ {Chosen(T)}
             n == Cardinality(U)
  <2>1. Cardinality(U) = Cardinality(T) - 1
    BY <1>1, <1>6, <1>8, FS_RemoveElement
  <2>5. U \in SUBSET S /\ Cardinality(T) = n + 1 /\ n \in Nat
    BY <1>1, <1>6, <1>8, <2>1
  <2>2. sum[T] = f[Chosen(T)] + h[n][U]
    <3>1. h[n + 1] = Step(h[n])
      BY <1>5, <2>5
    <3>2. Step(h[n])[T] = f[Chosen(T)] + h[n][U]
      BY <1>8
    <3> QED BY <1>8, <2>5, <3>1, <3>2
  <2>3. CASE U = {}
    <3>1. n = 0 /\ {} \in SUBSET S
      BY <2>3, FS_EmptySet
    <3>2. h[0][{}] = 0
      BY <1>4, <3>1 DEF IsRecursive
    <3>3. sum[{}] = 0
      BY <3>1
    <3>4. sum[U] = h[n][U]
      <4> HIDE DEF sum, n
      <4> QED BY <2>3, <3>1, <3>2, <3>3
    <3> HIDE DEF sum, n, U
    <3> QED BY <2>2, <3>4 DEF U
  <2>4. CASE U # {}
    BY <2>5, <2>2, <2>4
  <2> QED BY <2>3, <2>4
<1>9. sum[{}] = 0
  OBVIOUS
<1>10. IsSum(sum, f, S)
  <2> HIDE DEF sum
  <2> QED BY <1>7, <1>8, <1>9 DEF IsSum
<1> QED BY <1>7, <1>10

LEMMA SumUnfolds ==
  ASSUME NEW S, NEW f, NEW sum, IsSum(sum, f, S), NEW T \in SUBSET S
  PROVE  /\ T = {} => sum[T] = 0
         /\ T # {} => Chosen(T) \in T /\ sum[T] = f[Chosen(T)] + sum[T \ {Chosen(T)}]
BY DEF IsSum, Chosen

\* The equation has one solution.
IsFold(g, f, S) ==
    g = [T \in SUBSET S |-> IF T = {} THEN 0 ELSE f[Chosen(T)] + g[T \ {Chosen(T)}]]

LEMMA SumIsUnique ==
  ASSUME NEW S, NEW f, NEW sum, IsSum(sum, f, S), NEW g, IsFold(g, f, S)
  PROVE  g[S] = sum[S]
<1> DEFINE Q == {n \in Nat : \A T \in SUBSET S : Cardinality(T) = n => g[T] = sum[T]}
<1>1. \A T \in SUBSET S : IsFiniteSet(T) /\ Cardinality(T) \in Nat
  BY FS_Subset, FS_CardinalityType DEF IsSum
<1>a. \A T \in SUBSET S : g[T] = IF T = {} THEN 0 ELSE f[Chosen(T)] + g[T \ {Chosen(T)}]
  <2> DEFINE value(T) == IF T = {} THEN 0 ELSE f[Chosen(T)] + g[T \ {Chosen(T)}]
  <2>1. g = [T \in SUBSET S |-> value(T)]
    BY DEF IsFold
  <2> HIDE DEF value
  <2>2. \A T \in SUBSET S : g[T] = value(T)
    BY <2>1
  <2> QED BY <2>2 DEF value
<1>2. 0 \in Q
  <2>1. g[{}] = 0 /\ sum[{}] = 0
    BY <1>a, SumUnfolds
  <2> QED BY <1>1, <2>1, FS_EmptySet
<1>3. ASSUME NEW n \in Nat, n \in Q PROVE n + 1 \in Q
  <2>1. ASSUME NEW T \in SUBSET S, Cardinality(T) = n + 1 PROVE g[T] = sum[T]
    <3>1. T # {}
      BY <1>1, <2>1, FS_EmptySet
    <3> DEFINE c == Chosen(T)
               U == T \ {c}
    <3>2. c \in T /\ sum[T] = f[c] + sum[U]
      BY <3>1, SumUnfolds
    <3>3. g[T] = f[c] + g[U]
      BY <1>a, <3>1
    <3>4. Cardinality(U) = Cardinality(T) - 1 /\ U \in SUBSET S
      BY <1>1, <3>2, FS_RemoveElement
    <3> HIDE DEF c, U
    <3>5. g[U] = sum[U]
      BY <1>3, <2>1, <3>4
    <3> QED BY <3>2, <3>3, <3>5
  <2> QED BY <2>1
<1> HIDE DEF Q
<1>4. Nat \subseteq Q
  BY <1>2, <1>3, NatSetInduction
<1> QED BY <1>1, <1>4 DEF Q

\* A sum may begin with any element.
LEMMA SumRemoves ==
  ASSUME NEW S, NEW f, NEW sum, IsSum(sum, f, S), NEW T \in SUBSET S, NEW x \in T
  PROVE  sum[T] = f[x] + sum[T \ {x}]
<1> DEFINE Fine(U) == \A y \in U : sum[U] = f[y] + sum[U \ {y}]
           Q == {n \in Nat : \A U \in SUBSET S : Cardinality(U) = n => Fine(U)}
<1>1. \A U \in SUBSET S : IsFiniteSet(U) /\ Cardinality(U) \in Nat
  BY FS_Subset, FS_CardinalityType DEF IsSum
<1>2. 0 \in Q
  BY <1>1, FS_EmptySet
<1>3. ASSUME NEW n \in Nat, n \in Q PROVE n + 1 \in Q
  <2>1. n + 1 \in Nat
    OBVIOUS
  <2>2. ASSUME NEW U \in SUBSET S, Cardinality(U) = n + 1, NEW y \in U
        PROVE  sum[U] = f[y] + sum[U \ {y}]
    <3> DEFINE c == Chosen(U)
    <3>1. c \in U /\ sum[U] = f[c] + sum[U \ {c}]
      BY SumUnfolds
    <3>2. CASE c = y
      BY <3>1, <3>2
    <3>3. CASE c # y
      <4> DEFINE V == U \ {c}
                 W == U \ {y}
      <4>1. Cardinality(V) = n /\ Cardinality(W) = n
        <5>1. Cardinality(V) = Cardinality(U) - 1 /\ Cardinality(W) = Cardinality(U) - 1
          BY <1>1, <3>1, FS_RemoveElement
        <5> QED BY <2>2, <5>1
      <4>2. V \in SUBSET S /\ W \in SUBSET S /\ y \in V /\ c \in W
        BY <3>1, <3>3
      <4> DEFINE X == V \ {y}
      <4>3. X = W \ {c} /\ sum[X] \in Nat /\ f[c] \in Nat /\ f[y] \in Nat
        BY <3>1 DEF IsSum
      <4> HIDE DEF c, V, W
      <4>4. sum[V] = f[y] + sum[X] /\ sum[W] = f[c] + sum[W \ {c}]
        BY <1>3, <4>1, <4>2
      <4> HIDE DEF X
      <4>5. sum[U] = f[c] + sum[V]
        BY <3>1 DEF V
      <4>6. sum[U] = f[y] + sum[W]
        BY <4>3, <4>4, <4>5
      <4> QED BY <4>6 DEF W
    <3> QED BY <3>2, <3>3
  <2>3. ASSUME NEW U \in SUBSET S, Cardinality(U) = n + 1 PROVE Fine(U)
    BY <2>2, <2>3
  <2> HIDE DEF Fine
  <2> QED BY <2>1, <2>3
<1> HIDE DEF Q
<1>4. Nat \subseteq Q
  BY <1>2, <1>3, NatSetInduction
<1> QED BY <1>1, <1>4 DEF Q

\* A sum over a part of S is what it is in a sum over S.
LEMMA SumsAgree ==
  ASSUME NEW R, NEW S, R \subseteq S, NEW f, NEW g,
         NEW sumf, IsSum(sumf, f, R), NEW sumg, IsSum(sumg, g, S), \A x \in R : f[x] = g[x]
  PROVE  sumf[R] = sumg[R]
<1> DEFINE P == {U \in SUBSET R : sumf[U] = sumg[U]}
<1>1. IsFiniteSet(R)
  BY FS_Subset DEF IsSum
<1>2. {} \in P
  BY DEF IsSum
<1>3. ASSUME NEW U \in SUBSET R, NEW x \in R, x \notin U, U \in P PROVE U \cup {x} \in P
  <2> DEFINE V == U \cup {x}
  <2>1. V \in SUBSET R /\ V \in SUBSET S
    OBVIOUS
  <2>2. x \in V /\ sumf[U] = sumg[U] /\ f[x] = g[x] /\ V \in SUBSET R
    BY <1>3
  <2> HIDE DEF V
  <2>3. sumf[V] = f[x] + sumf[V \ {x}]
    BY <2>1, <2>2, SumRemoves
  <2>4. sumg[V] = g[x] + sumg[V \ {x}]
    BY <2>1, <2>2, SumRemoves
  <2>5. V \ {x} = U
    BY <1>3 DEF V
  <2>6. V \in P
    BY <2>2, <2>3, <2>4, <2>5
  <2> QED BY <2>6 DEF V
<1> HIDE DEF P
<1>4. R \in P
  BY <1>1, <1>2, <1>3, FiniteSetInduction
<1> QED BY <1>4 DEF P

---------------------------------------------------------------------------
\* The sum of all values of f.
Total(f) == CHOOSE n \in Nat : \E sum : IsSum(sum, f, DOMAIN f) /\ n = sum[DOMAIN f]

LEMMA TotalFacts ==
  ASSUME NEW S, IsFiniteSet(S), NEW f \in [S -> Nat]
  PROVE  \E sum : IsSum(sum, f, S) /\ Total(f) = sum[S] /\ sum[S] \in Nat
<1>1. DOMAIN f = S
  OBVIOUS
<1>2. PICK sum : IsSum(sum, f, S)
  BY SumExists
<1>3. sum[S] \in Nat
  BY <1>2 DEF IsSum
<1>4. \E n \in Nat : \E g : IsSum(g, f, S) /\ n = g[S]
  BY <1>2, <1>3
<1> DEFINE n == Total(f)
<1>5. n \in Nat /\ \E g : IsSum(g, f, S) /\ n = g[S]
  BY <1>1, <1>4 DEF Total
<1> HIDE DEF n
<1>6. PICK g : IsSum(g, f, S) /\ n = g[S]
  BY <1>5
<1> QED BY <1>5, <1>6 DEF n

LEMMA TotalType ==
  ASSUME NEW S, IsFiniteSet(S), NEW f \in [S -> Nat]
  PROVE  Total(f) \in Nat
BY TotalFacts

\* One more value is one more summand.
LEMMA TotalAdds ==
  ASSUME NEW T, IsFiniteSet(T), NEW x \in T, NEW S, S = T \ {x},
         NEW f \in [S -> Nat], NEW g \in [T -> Nat], \A y \in S : f[y] = g[y]
  PROVE  Total(g) = Total(f) + g[x]
<1>1. IsFiniteSet(S) /\ S \subseteq T
  BY FS_Subset
<1>2. PICK sumf : IsSum(sumf, f, S) /\ Total(f) = sumf[S] /\ sumf[S] \in Nat
  BY <1>1, TotalFacts
<1>3. PICK sumg : IsSum(sumg, g, T) /\ Total(g) = sumg[T] /\ sumg[T] \in Nat
  BY TotalFacts
<1>4. sumg[T] = g[x] + sumg[S]
  BY <1>3, SumRemoves
<1>5. sumf[S] = sumg[S]
  BY <1>1, <1>2, <1>3, SumsAgree
<1>6. g[x] \in Nat
  OBVIOUS
<1> QED BY <1>2, <1>3, <1>4, <1>5, <1>6

\* More values have no smaller sum.
LEMMA TotalGrows ==
  ASSUME NEW R, NEW S, IsFiniteSet(S), R \subseteq S,
         NEW f \in [R -> Nat], NEW g \in [S -> Nat], \A y \in R : f[y] = g[y]
  PROVE  Total(f) <= Total(g)
<1>1. IsFiniteSet(R) /\ IsFiniteSet(S \ R)
  BY FS_Subset
<1>2. PICK sumf : IsSum(sumf, f, R) /\ Total(f) = sumf[R] /\ sumf[R] \in Nat
  BY <1>1, TotalFacts
<1>3. PICK sumg : IsSum(sumg, g, S) /\ Total(g) = sumg[S] /\ sumg[S] \in Nat
  BY TotalFacts
<1>s. IsSum(sumf, f, R) /\ IsSum(sumg, g, S)
  BY <1>2, <1>3
<1>4. sumf[R] = sumg[R]
  BY <1>s, SumsAgree
<1> DEFINE P == {U \in SUBSET (S \ R) : sumg[R] <= sumg[R \cup U]}
<1>5. {} \in P
  <2>1. R \cup {} = R
    OBVIOUS
  <2> QED BY <1>2, <1>4, <2>1
<1>6. ASSUME NEW U \in SUBSET (S \ R), NEW x \in S \ R, x \notin U, U \in P PROVE U \cup {x} \in P
  <2> DEFINE V == R \cup (U \cup {x})
  <2>1. V \in SUBSET S /\ x \in V /\ V \ {x} = R \cup U
    BY <1>6
  <2> HIDE DEF V
  <2>2. sumg[V] = g[x] + sumg[V \ {x}]
    BY <1>s, <2>1, SumRemoves
  <2>3. g[x] \in Nat /\ sumg[R \cup U] \in Nat /\ sumg[R] \in Nat
    BY <1>3 DEF IsSum
  <2>4. sumg[R] <= sumg[R \cup U]
    BY <1>6
  <2>5. sumg[R] <= sumg[V]
    BY <2>1, <2>2, <2>3, <2>4
  <2> QED BY <2>5 DEF V
<1> HIDE DEF P
<1>7. S \ R \in P
  BY <1>1, <1>5, <1>6, FiniteSetInduction
<1>8. R \cup (S \ R) = S
  OBVIOUS
<1>9. sumg[R] <= sumg[R \cup (S \ R)]
  BY <1>7 DEF P
<1> QED BY <1>2, <1>3, <1>4, <1>8, <1>9
=============================================================================
