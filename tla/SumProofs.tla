----------------------------- MODULE SumProofs -----------------------------
(***************************************************************************)
(* Sums over finite sets, for the proofs about money.  The library states  *)
(* no facts about SumFunction, and its induction theorems take a predicate *)
(* as a parameter; the inductions here take a set instead, and look for a  *)
(* minimal element outside it (WFMin).                                     *)
(***************************************************************************)
EXTENDS Integers, FiniteSets, Functions, FiniteSetTheorems, WellFoundedInduction, TLAPS

\* Induction over the naturals, for a set in the place of a predicate: if some
\* number were missing, take the least.
LEMMA NatSetInduction ==
    ASSUME NEW P \in SUBSET Nat, 0 \in P, \A n \in P : n + 1 \in P
    PROVE  P = Nat
<1> DEFINE T == Nat \ P
           R == OpToRel(<, Nat)
<1>1. SUFFICES ASSUME T # {} PROVE FALSE
  OBVIOUS
<1>2. IsWellFoundedOn(R, Nat)
  BY NatLessThanWellFounded
<1>3. PICK n \in T : \A m \in T : ~ (<<m, n>> \in R)
  <2> HIDE DEF R
  <2> QED BY <1>1, <1>2, WFMin
<1>4. n # 0 /\ n - 1 \in Nat /\ <<n - 1, n>> \in R
  BY DEF OpToRel
<1> HIDE DEF R
<1>5. n - 1 \in P /\ (n - 1) + 1 = n
  BY <1>3, <1>4
<1>6. QED
  BY <1>5

\* Induction over the subsets of a finite set: if some subset were missing,
\* take a minimal one.
LEMMA SubsetInduction ==
    ASSUME NEW S, IsFiniteSet(S), NEW P,
           \A s \in SUBSET S : (\A t \in SUBSET s : t # s => t \in P) => s \in P
    PROVE  \A s \in SUBSET S : s \in P
<1> DEFINE T == (SUBSET S) \ P
           R == StrictSubsetOrdering(S)
<1>1. SUFFICES ASSUME T # {} PROVE FALSE
  OBVIOUS
<1>2. IsWellFoundedOn(R, FiniteSubsetsOf(S)) /\ FiniteSubsetsOf(S) = SUBSET S
  BY FS_StrictSubsetOrderingWellFounded, FS_FiniteSubsetsOfFinite
<1>3. PICK s \in T : \A t \in T : ~ (<<t, s>> \in R)
  <2> HIDE DEF R
  <2>1. T \subseteq FiniteSubsetsOf(S)
    BY <1>2
  <2> HIDE DEF T
  <2> QED BY <1>1, <1>2, <2>1, WFMin
<1>4. \A t \in SUBSET s : t # s => t \in P
  BY <1>3 DEF StrictSubsetOrdering
<1>5. QED
  BY <1>3, <1>4

\* The equation that defines the sums of the folds of Functions.
IsSum(g, f, S) ==
    g = [s \in SUBSET S |-> IF s = {} THEN 0
                            ELSE f[CHOOSE x \in s : TRUE]
                                   + g[s \ {CHOOSE x \in s : TRUE}]]

\* SumFunctionOnSet takes the sum of S from a solution of that equation.
LEMMA SumUnfold ==
    ASSUME NEW f, NEW S
    PROVE  SumFunctionOnSet(f, S) = (CHOOSE g : IsSum(g, f, S))[S]
BY DEF SumFunctionOnSet, FoldFunctionOnSet, MapThenFoldSet, IsSum

\* Existence, for the subsets of up to n elements.
LEMMA SumExists ==
    ASSUME NEW f, NEW S, IsFiniteSet(S)
    PROVE  \E g : IsSum(g, f, S)
<1> DEFINE c(s) == CHOOSE x \in s : TRUE
           Val(g, s) == IF s = {} THEN 0 ELSE f[c(s)] + g[s \ {c(s)}]
           UpTo(g, n) == \A s \in SUBSET S : Cardinality(s) <= n => g[s] = Val(g, s)
           P == {n \in Nat : \E g : UpTo(g, n)}
<1>1. \A s \in SUBSET S : Cardinality(s) \in Nat /\ Cardinality(s) <= Cardinality(S)
  BY FS_Subset, FS_CardinalityType
<1>2. \A s \in SUBSET S : s # {} =>
        /\ c(s) \in s /\ s \ {c(s)} \in SUBSET S
        /\ Cardinality(s \ {c(s)}) = Cardinality(s) - 1
  <2>1. \A s \in SUBSET S : s # {} => c(s) \in s
    OBVIOUS
  <2> HIDE DEF c
  <2>2. \A s \in SUBSET S : IsFiniteSet(s)
    BY FS_Subset
  <2>3. QED
    BY <2>1, <2>2, FS_RemoveElement
<1>3. 0 \in P
  <2>1. \A s \in SUBSET S : Cardinality(s) <= 0 => s = {}
    BY <1>1, FS_EmptySet, FS_Subset
  <2>2. UpTo([s \in SUBSET S |-> 0], 0)
    BY <2>1
  <2>3. QED
    BY <2>2
<1> HIDE DEF c
<1>4. \A n \in P : n + 1 \in P
  <2> SUFFICES ASSUME NEW n \in P PROVE n + 1 \in P
    OBVIOUS
  <2>0. n \in Nat
    OBVIOUS
  <2>1. PICK g : UpTo(g, n)
    OBVIOUS
  <2> DEFINE h == [s \in SUBSET S |-> IF Cardinality(s) <= n THEN g[s] ELSE Val(g, s)]
  <2>2. \A s \in SUBSET S : h[s] = IF Cardinality(s) <= n THEN g[s] ELSE Val(g, s)
    OBVIOUS
  <2>3. \A s \in SUBSET S : h[s] = Val(g, s)
    BY <2>1, <2>2
  <2> HIDE DEF h
  <2>4. \A s \in SUBSET S : (s # {} /\ Cardinality(s) <= n + 1) => h[s \ {c(s)}] = g[s \ {c(s)}]
    <3> SUFFICES ASSUME NEW s \in SUBSET S, s # {}, Cardinality(s) <= n + 1
                 PROVE  h[s \ {c(s)}] = g[s \ {c(s)}]
      OBVIOUS
    <3>1. s \ {c(s)} \in SUBSET S /\ Cardinality(s \ {c(s)}) <= n
      BY <1>1, <1>2, <2>0
    <3>2. QED
      BY <2>2, <3>1
  <2>5. UpTo(h, n + 1)
    BY <2>3, <2>4
  <2>6. n + 1 \in Nat
    BY <2>0
  <2> HIDE DEF UpTo
  <2>7. QED
    BY <2>5, <2>6
<1>5. P = Nat
  <2> HIDE DEF P
  <2>1. P \in SUBSET Nat
    BY DEF P
  <2> QED BY <1>3, <1>4, <2>1, NatSetInduction
<1>6. PICK g : UpTo(g, Cardinality(S))
  BY <1>1, <1>5
<1> DEFINE h == [s \in SUBSET S |-> g[s]]
<1>7. h = [s \in SUBSET S |-> Val(h, s)]
  <2>1. \A s \in SUBSET S : g[s] = Val(g, s)
    BY <1>1, <1>6
  <2>2. \A s \in SUBSET S : Val(g, s) = Val(h, s)
    BY <1>2
  <2>3. QED
    BY <2>1, <2>2
<1>8. QED
  BY <1>7 DEF IsSum, c

\* A sum does not depend on the order: every element may be taken first.
LEMMA SumRecursion ==
    ASSUME NEW f, NEW S, IsFiniteSet(S), \A x \in S : f[x] \in Int,
           NEW g, IsSum(g, f, S)
    PROVE  /\ g[{}] = 0
           /\ \A s \in SUBSET S : g[s] \in Int
           /\ \A s \in SUBSET S : \A x \in s : g[s] = f[x] + g[s \ {x}]
<1> DEFINE c(s) == CHOOSE x \in s : TRUE
           P == {s \in SUBSET S : /\ g[s] \in Int
                                 /\ \A x \in s : g[s] = f[x] + g[s \ {x}]}
<1>1. g[{}] = 0 /\ \A s \in SUBSET S : s # {} => c(s) \in s /\ g[s] = f[c(s)] + g[s \ {c(s)}]
  BY DEF IsSum
<1> HIDE DEF c
<1>2. ASSUME NEW s \in SUBSET S, \A t \in SUBSET s : t # s => t \in P
      PROVE  s \in P
  <2>1. CASE s = {}
    BY <1>1, <2>1
  <2>2. CASE s # {}
    <3>1. c(s) \in s /\ g[s] = f[c(s)] + g[s \ {c(s)}]
      BY <1>1, <2>2
    <3>2. \A x \in s : s \ {x} \in P
      BY <1>2
    <3>3. g[s] \in Int
      <4>1. f[c(s)] \in Int /\ g[s \ {c(s)}] \in Int
        BY <3>1, <3>2
      <4>2. QED
        BY <3>1, <4>1
    <3>4. ASSUME NEW x \in s, x # c(s) PROVE g[s] = f[x] + g[s \ {x}]
      <4>1. g[s \ {c(s)}] = f[x] + g[(s \ {c(s)}) \ {x}]
        BY <3>1, <3>2, <3>4
      <4>2. g[s \ {x}] = f[c(s)] + g[(s \ {x}) \ {c(s)}]
        BY <3>1, <3>2, <3>4
      <4>3. (s \ {x}) \ {c(s)} = (s \ {c(s)}) \ {x} /\ (s \ {x}) \ {c(s)} \in P
        BY <1>2
      <4>4. f[x] \in Int /\ f[c(s)] \in Int /\ g[(s \ {x}) \ {c(s)}] \in Int
        BY <3>1, <4>3
      <4>5. QED
        <5> PICK i, j, k \in Int : i = f[x] /\ j = f[c(s)] /\ k = g[(s \ {x}) \ {c(s)}]
          BY <4>4
        <5>1. g[s] = j + (i + k) /\ g[s \ {x}] = j + k
          BY <3>1, <4>1, <4>2, <4>3
        <5>2. QED
          BY <5>1
    <3>5. QED
      BY <3>1, <3>3, <3>4
  <2>3. QED
    BY <2>1, <2>2
<1>3. \A s \in SUBSET S : s \in P
  <2> HIDE DEF P
  <2> QED BY <1>2, SubsetInduction
<1>4. QED
  BY <1>1, <1>3

\* The recursions for two sets, or for two functions that agree, agree.
LEMMA SumAgree ==
    ASSUME NEW f, NEW h, NEW S, NEW T, IsFiniteSet(S), IsFiniteSet(T), 
           NEW a, NEW b, IsSum(a, f, S), IsSum(b, h, T), 
           \A x \in S \cap T : f[x] = h[x]
    PROVE  \A s \in SUBSET (S \cap T) : a[s] = b[s]
<1> DEFINE c(s) == CHOOSE x \in s : TRUE
           P == {s \in SUBSET (S \cap T) : a[s] = b[s]}
<1>1. a[{}] = 0 /\ \A s \in SUBSET S : s # {} => c(s) \in s /\ a[s] = f[c(s)] + a[s \ {c(s)}]
  BY DEF IsSum
<1>2. b[{}] = 0 /\ \A s \in SUBSET T : s # {} => c(s) \in s /\ b[s] = h[c(s)] + b[s \ {c(s)}]
  BY DEF IsSum
<1> HIDE DEF c
<1>3. ASSUME NEW s \in SUBSET (S \cap T), \A t \in SUBSET s : t # s => t \in P
      PROVE  s \in P
  <2>1. CASE s = {}
    BY <1>1, <1>2, <2>1
  <2>2. CASE s # {}
    <3>1. c(s) \in s /\ s \ {c(s)} \in P /\ f[c(s)] = h[c(s)]
      BY <1>1, <1>3, <2>2
    <3>2. QED
      BY <1>1, <1>2, <2>2, <3>1
  <2>3. QED
    BY <2>1, <2>2
<1>4. IsFiniteSet(S \cap T)
  BY FS_Intersection
<1>5. QED
  <2> HIDE DEF P
  <2>1. \A s \in SUBSET (S \cap T) : s \in P
    BY <1>3, <1>4, SubsetInduction
  <2> QED BY <2>1 DEF P

-----------------------------------------------------------------------------
(* What the sum of a finite set of natural numbers satisfies *)

\* The sum of f over S.
Total(f, S) == SumFunction([k \in S |-> f[k]])

\* A sum of nothing is 0.
LEMMA TotalEmpty ==
    ASSUME NEW f
    PROVE  Total(f, {}) = 0
<1> DEFINE h == [k \in {} |-> f[k]]
           a == CHOOSE g : IsSum(g, h, {})
<1>1. IsSum(a, h, {})
  BY SumExists, FS_EmptySet
<1>2. SumFunction(h) = a[{}]
  <2>1. DOMAIN h = {}
    OBVIOUS
  <2> HIDE DEF h
  <2>2. QED
    BY <2>1, SumUnfold DEF SumFunction
<1> HIDE DEF a, h
<1>3. a[{}] = 0
  BY <1>1 DEF IsSum
<1>4. QED
  BY <1>2, <1>3 DEF Total, h

\* A sum is one of its terms and the sum of the others.
LEMMA TotalStep ==
    ASSUME NEW S, IsFiniteSet(S), NEW f, \A k \in S : f[k] \in Nat, NEW x \in S
    PROVE  Total(f, S) = f[x] + Total(f, S \ {x})
<1> DEFINE T == S \ {x}
           p == [k \in S |-> f[k]]
           q == [k \in T |-> f[k]]
           a == CHOOSE g : IsSum(g, p, S)
           b == CHOOSE g : IsSum(g, q, T)
<1>1. IsFiniteSet(T)
  BY FS_Subset
<1>2. IsSum(a, p, S) /\ IsSum(b, q, T)
  <2> HIDE DEF p, q, T
  <2> QED BY <1>1, SumExists
<1>3. SumFunction(p) = a[S] /\ SumFunction(q) = b[T]
  <2>1. DOMAIN p = S /\ DOMAIN q = T
    OBVIOUS
  <2> HIDE DEF p, q, T
  <2>2. QED
    BY <2>1, SumUnfold DEF SumFunction
<1>4. p[x] = f[x] /\ \A k \in S : p[k] \in Int
  OBVIOUS
<1>5. \A k \in S \cap T : p[k] = q[k]
  OBVIOUS
<1> HIDE DEF a, b, p, q
<1>6. a[S] = f[x] + a[T]
  BY <1>2, <1>4, SumRecursion
<1>7. a[T] = b[T]
  <2>1. T \in SUBSET (S \cap T)
    OBVIOUS
  <2> HIDE DEF T
  <2> QED BY <1>1, <1>2, <1>5, <2>1, SumAgree
<1>8. QED
  BY <1>3, <1>6, <1>7 DEF Total, p, q

\* A sum of naturals is a natural.
LEMMA TotalInNat ==
    ASSUME NEW S, IsFiniteSet(S), NEW f, \A k \in S : f[k] \in Nat
    PROVE  Total(f, S) \in Nat
<1> DEFINE P == {s \in SUBSET S : Total(f, s) \in Nat}
<1>1. ASSUME NEW s \in SUBSET S, \A t \in SUBSET s : t # s => t \in P
      PROVE  s \in P
  <2>1. CASE s = {}
    BY <2>1, TotalEmpty
  <2>2. CASE s # {}
    <3>1. PICK x \in s : TRUE
      BY <2>2
    <3>2. IsFiniteSet(s)
      BY FS_Subset
    <3>3. Total(f, s) = f[x] + Total(f, s \ {x})
      BY <3>2, TotalStep
    <3>4. f[x] \in Nat /\ Total(f, s \ {x}) \in Nat
      BY <1>1
    <3>5. QED
      BY <3>3, <3>4
  <2>3. QED
    BY <2>1, <2>2
<1>2. QED
  <2> HIDE DEF P
  <2>1. S \in P
    BY <1>1, SubsetInduction
  <2> QED BY <2>1 DEF P

\* A sum over a set is the sum over a part of it and over the rest.
LEMMA TotalSplit ==
    ASSUME NEW S, IsFiniteSet(S), NEW f, \A k \in S : f[k] \in Nat,
           NEW T \in SUBSET S
    PROVE  Total(f, S) = Total(f, T) + Total(f, S \ T)
<1> DEFINE P == {s \in SUBSET S : Total(f, S) = Total(f, s) + Total(f, S \ s)}
<1>1. \A s \in SUBSET S : Total(f, s) \in Nat
  BY FS_Subset, TotalInNat
<1>2. \A s \in SUBSET S : \A x \in s : Total(f, s) = f[x] + Total(f, s \ {x})
  BY FS_Subset, TotalStep
<1>3. ASSUME NEW s \in SUBSET S, \A t \in SUBSET s : t # s => t \in P
      PROVE  s \in P
  <2>1. CASE s = {}
    <3>1. S \ {} = S /\ Total(f, {}) = 0
      BY TotalEmpty
    <3>2. QED
      BY <1>1, <2>1, <3>1
  <2>2. CASE s # {}
    <3>1. PICK x \in s : TRUE
      BY <2>2
    <3>2. Total(f, S) = Total(f, s \ {x}) + Total(f, S \ (s \ {x}))
      BY <1>3
    <3>3. Total(f, s) = f[x] + Total(f, s \ {x})
      BY <1>2
    <3>4. Total(f, S \ (s \ {x})) = f[x] + Total(f, S \ s)
      <4>1. /\ (S \ (s \ {x})) \ {x} = S \ s
            /\ x \in S \ (s \ {x}) /\ S \ (s \ {x}) \in SUBSET S
        OBVIOUS
      <4>2. QED
        BY <1>2, <4>1
    <3>5. PICK i, j, k \in Nat : /\ i = f[x] /\ j = Total(f, s \ {x})
                                 /\ k = Total(f, S \ s)
      BY <1>1
    <3>6. Total(f, S) = j + (i + k) /\ Total(f, s) + Total(f, S \ s) = (i + j) + k
      BY <3>2, <3>3, <3>4, <3>5
    <3>7. QED
      BY <3>5, <3>6
  <2>3. QED
    BY <2>1, <2>2
<1>4. QED
  <2> HIDE DEF P
  <2>1. T \in P
    BY <1>3, SubsetInduction
  <2> QED BY <2>1 DEF P

\* A sum may be taken over other indices, one for each.
LEMMA TotalReindexed ==
    ASSUME NEW S, NEW T, IsFiniteSet(S), NEW h \in Bijection(S, T),
           NEW f, \A k \in T : f[k] \in Nat
    PROVE  Total([k \in S |-> f[h[k]]], S) = Total(f, T)
<1> DEFINE Im(s) == {h[k] : k \in s}
           g == [k \in S |-> f[h[k]]]
           P == {s \in SUBSET S : Total(g, s) = Total(f, Im(s))}
<1>1. /\ h \in [S -> T] /\ Im(S) = T
      /\ \A i, j \in S : h[i] = h[j] => i = j
  BY DEF Bijection, Injection, Surjection, IsInjective
<1>2. \A k \in S : g[k] \in Nat /\ g[k] = f[h[k]]
  BY <1>1
<1>3. IsFiniteSet(T)
  BY FS_Surjection DEF Bijection
<1> HIDE DEF g
<1>4. \A s \in SUBSET S : \A x \in s : Total(g, s) = g[x] + Total(g, s \ {x})
  BY <1>2, FS_Subset, TotalStep
<1>5. \A s \in SUBSET T : \A x \in s : Total(f, s) = f[x] + Total(f, s \ {x})
  BY <1>3, FS_Subset, TotalStep
<1>6. ASSUME NEW s \in SUBSET S, \A t \in SUBSET s : t # s => t \in P
      PROVE  s \in P
  <2>1. CASE s = {}
    <3>1. Im({}) = {}
      OBVIOUS
    <3>2. QED
      BY <2>1, <3>1, TotalEmpty
  <2>2. CASE s # {}
    <3>1. PICK x \in s : TRUE
      BY <2>2
    <3>2. Total(g, s \ {x}) = Total(f, Im(s \ {x}))
      BY <1>6
    <3>3. Im(s) \ {h[x]} = Im(s \ {x}) /\ h[x] \in Im(s) /\ Im(s) \in SUBSET T
      BY <1>1
    <3>4. Total(g, s) = g[x] + Total(g, s \ {x}) /\ g[x] = f[h[x]]
      BY <1>2, <1>4
    <3>5. Total(f, Im(s)) = f[h[x]] + Total(f, Im(s) \ {h[x]})
      BY <1>5, <3>3
    <3>6. QED
      BY <3>2, <3>3, <3>4, <3>5
  <2>3. QED
    BY <2>1, <2>2
<1>7. QED
  <2> HIDE DEF P
  <2>1. S \in P
    BY <1>6, SubsetInduction
  <2> QED BY <1>1, <2>1 DEF P, g

\* A larger set of natural numbers has a larger sum.
LEMMA TotalMonotone ==
    ASSUME NEW S, IsFiniteSet(S), NEW f, \A k \in S : f[k] \in Nat,
           NEW T \in SUBSET S
    PROVE  Total(f, T) <= Total(f, S)
<1>1. Total(f, S) = Total(f, T) + Total(f, S \ T)
  BY TotalSplit
<1>2. Total(f, T) \in Nat /\ Total(f, S \ T) \in Nat
  BY FS_Subset, TotalInNat
<1>3. QED
  BY <1>1, <1>2

\* A sum depends on its terms only.
LEMMA TotalSame ==
    ASSUME NEW S, NEW f, NEW g, \A k \in S : f[k] = g[k]
    PROVE  Total(f, S) = Total(g, S)
<1>1. [k \in S |-> f[k]] = [k \in S |-> g[k]]
  OBVIOUS
<1>2. QED
  BY <1>1 DEF Total

\* A sum of smaller terms is smaller.
LEMMA TotalBound ==
    ASSUME NEW S, IsFiniteSet(S), NEW f, NEW g,
           \A k \in S : f[k] \in Nat /\ g[k] \in Nat /\ f[k] <= g[k]
    PROVE  Total(f, S) <= Total(g, S)
<1> DEFINE P == {s \in SUBSET S : Total(f, s) <= Total(g, s)}
<1>1. ASSUME NEW s \in SUBSET S, \A t \in SUBSET s : t # s => t \in P
      PROVE  s \in P
  <2>1. CASE s = {}
    <3>1. Total(f, {}) = 0 /\ Total(g, {}) = 0
      BY TotalEmpty
    <3>2. QED
      BY <2>1, <3>1
  <2>2. CASE s # {}
    <3>1. PICK x \in s : TRUE
      BY <2>2
    <3>2. IsFiniteSet(s) /\ IsFiniteSet(s \ {x})
      BY FS_Subset
    <3>3. Total(f, s) = f[x] + Total(f, s \ {x}) /\ Total(g, s) = g[x] + Total(g, s \ {x})
      BY <3>2, TotalStep
    <3>4. /\ Total(f, s \ {x}) \in Nat /\ Total(g, s \ {x}) \in Nat
          /\ f[x] \in Nat /\ g[x] \in Nat /\ f[x] <= g[x]
      BY <3>2, TotalInNat
    <3>5. Total(f, s \ {x}) <= Total(g, s \ {x})
      BY <1>1
    <3>6. QED
      BY <3>3, <3>4, <3>5
  <2>3. QED
    BY <2>1, <2>2
<1>2. QED
  <2> HIDE DEF P
  <2>1. S \in P
    BY <1>1, SubsetInduction
  <2> QED BY <2>1 DEF P

\* A sum of zeroes is zero.
LEMMA TotalZero ==
    ASSUME NEW S, IsFiniteSet(S), NEW f, \A k \in S : f[k] = 0
    PROVE  Total(f, S) = 0
<1> DEFINE P == {s \in SUBSET S : Total(f, s) = 0}
<1>1. ASSUME NEW s \in SUBSET S, \A t \in SUBSET s : t # s => t \in P
      PROVE  s \in P
  <2>1. CASE s = {}
    BY <2>1, TotalEmpty
  <2>2. CASE s # {}
    <3>1. PICK x \in s : TRUE
      BY <2>2
    <3>2. Total(f, s) = f[x] + Total(f, s \ {x})
      BY <3>1, FS_Subset, TotalStep
    <3>3. Total(f, s \ {x}) = 0 /\ f[x] = 0
      BY <1>1, <3>1
    <3>4. QED
      BY <3>2, <3>3
  <2>3. QED
    BY <2>1, <2>2
<1>2. S \in P
  <2> HIDE DEF P
  <2> QED BY <1>1, SubsetInduction
<1>3. QED
  BY <1>2
=============================================================================
