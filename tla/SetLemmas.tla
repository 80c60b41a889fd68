----------------------------- MODULE SetLemmas ------------------------------
(***************************************************************************)
(* Facts about finite sets that the proofs of other modules need and the   *)
(* library has not: induction, with the set of the cases in place of a     *)
(* predicate, and sums over a finite set.                                  *)
(***************************************************************************)
EXTENDS Integers, FiniteSets, FiniteSetsExt, Functions, FiniteSetTheorems,
        WellFoundedInduction, TLAPS

(* Induction over the naturals, for the set A of those that satisfy what   *)
(* is to be proved.                                                        *)
LEMMA NatCases ==
  ASSUME NEW A, 0 \in A, \A n \in Nat : n \in A => n + 1 \in A
  PROVE  Nat \subseteq A
<1> DEFINE T == {n \in Nat : n \notin A}
<1>1. SUFFICES ASSUME T # {} PROVE FALSE
  OBVIOUS
<1>2. PICK n \in T : \A m \in T : ~ (<<m, n>> \in OpToRel(<, Nat))
  BY <1>1, WFMin, NatLessThanWellFounded, Zenon
<1>3. n \in Nat /\ n \notin A /\ \A m \in Nat : m < n => m \in A
  BY <1>2 DEF OpToRel
<1>4. n # 0 /\ n - 1 \in Nat /\ n - 1 < n /\ n = (n - 1) + 1
  BY <1>3
<1> QED
  BY <1>3, <1>4

(* A set of naturals has a least one.                                      *)
LEMMA Least ==
  ASSUME NEW S, S \subseteq Nat, S # {}
  PROVE  Min(S) \in S /\ \A x \in S : Min(S) <= x
<1>1. PICK n \in S : \A m \in S : ~ (<<m, n>> \in OpToRel(<, Nat))
  BY WFMin, NatLessThanWellFounded, Zenon
<1>2. \A m \in S : ~ (m < n)
  BY <1>1 DEF OpToRel
<1>3. n \in S /\ \A m \in S : n <= m
  BY <1>2
<1> QED
  BY <1>3, Zenon DEF Min

(* Induction over a finite set S, for the set A of the subsets of S that   *)
(* satisfy what is to be proved.                                           *)
LEMMA SubsetCases ==
  ASSUME NEW S, IsFiniteSet(S), NEW A, {} \in A,
         \A T \in SUBSET S : \A x \in S \ T : T \in A => T \cup {x} \in A
  PROVE  S \in A
<1> DEFINE N == {n \in Nat : \A T \in SUBSET S : Cardinality(T) = n => T \in A}
<1>1. \A T \in SUBSET S : IsFiniteSet(T) /\ Cardinality(T) \in Nat
  BY FS_Subset, FS_CardinalityType
<1>2. 0 \in N
  BY <1>1, FS_EmptySet
<1>3. ASSUME NEW n \in Nat, n \in N PROVE n + 1 \in N
  <2>1. SUFFICES ASSUME NEW T \in SUBSET S, Cardinality(T) = n + 1
                 PROVE  T \in A
    OBVIOUS
  <2>2. PICK x \in T : TRUE
    BY <1>1, <2>1, FS_EmptySet
  <2>3. Cardinality(T \ {x}) = n
    <3>1. Cardinality(T \ {x}) = Cardinality(T) - 1
      BY <1>1, <2>2, FS_RemoveElement
    <3> QED
      BY <2>1, <3>1
  <2>4. T \ {x} \in A /\ x \in S \ (T \ {x}) /\ T = (T \ {x}) \cup {x}
    BY <1>3, <2>2, <2>3
  <2> QED
    BY <2>4
<1>4. Nat \subseteq N
  BY <1>2, <1>3, NatCases, Zenon
<1> QED
  BY <1>1, <1>4
(* A set whose elements are all the same.                                  *)
LEMMA AtMostOneCounts ==
  ASSUME NEW S, \A x, y \in S : x = y
  PROVE  Cardinality(S) = IF S = {} THEN 0 ELSE 1
<1>1. CASE S = {} BY <1>1, FS_EmptySet
<1>2. CASE S # {}
  <2>1. PICK x \in S : S = {x} BY <1>2
  <2> QED BY <1>2, <2>1, FS_Singleton
<1> QED BY <1>1, <1>2
-----------------------------------------------------------------------------
(* One step of the fold that a sum is, and a solution of all the steps.    *)
SumStep(w, f, S) == IF S = {} THEN 0
                    ELSE LET x == CHOOSE x \in S : TRUE
                         IN w[x] + f[S \ {x}]
SumSteps(w, f, S) == f = [T \in SUBSET S |-> SumStep(w, f, T)]

LEMMA SumIsSolution ==
  ASSUME NEW w, NEW S
  PROVE  SumFunctionOnSet(w, S) = (CHOOSE f : SumSteps(w, f, S))[S]
BY Zenon DEF SumFunctionOnSet, FoldFunctionOnSet, MapThenFoldSet, SumSteps, SumStep

LEMMA SumSolved ==
  ASSUME NEW w, NEW S, IsFiniteSet(S)
  PROVE  \E f : SumSteps(w, f, S)
<1> DEFINE Sol(n, f) == /\ DOMAIN f = SUBSET S
                        /\ f = [T \in SUBSET S |-> f[T]]
                        /\ \A T \in SUBSET S :
                             Cardinality(T) <= n => f[T] = SumStep(w, f, T)
           N == {n \in Nat : \E f : Sol(n, f)}
<1>1. \A T \in SUBSET S : IsFiniteSet(T) /\ Cardinality(T) \in Nat
  BY FS_Subset, FS_CardinalityType
<1>a. \A T \in SUBSET S : T # {} => /\ (CHOOSE x \in T : TRUE) \in T
                                    /\ \A x \in T : Cardinality(T \ {x}) = Cardinality(T) - 1
  BY <1>1, FS_RemoveElement
<1>2. 0 \in N
  <2> DEFINE f == [T \in SUBSET S |-> 0]
  <2>1. \A T \in SUBSET S : Cardinality(T) <= 0 => T = {}
    BY <1>1, FS_EmptySet
  <2>2. Sol(0, f)
    BY <2>1 DEF SumStep
  <2> QED
    BY <2>2
<1>3. ASSUME NEW n \in Nat, n \in N PROVE n + 1 \in N
  <2>1. PICK f : Sol(n, f)
    BY <1>3
  <2> DEFINE g == [T \in SUBSET S |-> SumStep(w, f, T)]
  <2>2. \A T \in SUBSET S : Cardinality(T) <= n => g[T] = f[T]
    BY <2>1
  <2>3. ASSUME NEW T \in SUBSET S, Cardinality(T) <= n + 1
        PROVE  g[T] = SumStep(w, g, T)
    <3>1. CASE T = {}
      BY <3>1 DEF SumStep
    <3>2. CASE T # {}
      <4> DEFINE x == CHOOSE x \in T : TRUE
      <4>1. x \in T /\ Cardinality(T \ {x}) <= n /\ T \ {x} \in SUBSET S
        <5>1. x \in T /\ Cardinality(T \ {x}) = Cardinality(T) - 1
          BY <1>a, <3>2
        <5> QED
          BY <1>1, <2>3, <5>1
      <4>2. g[T \ {x}] = f[T \ {x}]
        BY <4>1, <2>2
      <4> QED
        BY <4>2, <3>2, Zenon DEF SumStep
    <3> QED
      BY <3>1, <3>2
  <2>4. Sol(n + 1, g)
    BY <2>3
  <2> HIDE DEF Sol
  <2> QED
    BY <2>4
<1>4. Cardinality(S) \in N
  BY <1>1, <1>2, <1>3, NatCases, Zenon
<1>5. PICK f : Sol(Cardinality(S), f)
  BY <1>4
<1>6. \A T \in SUBSET S : f[T] = SumStep(w, f, T)
  BY <1>1, <1>5, FS_Subset
<1> QED
  BY <1>5, <1>6 DEF SumSteps

(* A sum over no elements.                                                 *)
LEMMA SumEmpty ==
  ASSUME NEW w PROVE SumFunctionOnSet(w, {}) = 0
<1> DEFINE f == CHOOSE f : SumSteps(w, f, {})
<1>1. SumSteps(w, f, {})
  BY SumSolved, FS_EmptySet
<1>2. f[{}] = SumStep(w, f, {})
  BY <1>1 DEF SumSteps
<1> QED
  BY <1>2, SumIsSolution, Zenon DEF SumStep

(* A sum is that of one of its elements and of the others.                 *)
LEMMA SumUnfolds ==
  ASSUME NEW w, NEW S, IsFiniteSet(S), S # {}
  PROVE  \E x \in S : SumFunctionOnSet(w, S)
                        = w[x] + SumFunctionOnSet(w, S \ {x})
<1> DEFINE f == CHOOSE f : SumSteps(w, f, S)
           x == CHOOSE x \in S : TRUE
           R == S \ {x}
           g == CHOOSE g : SumSteps(w, g, R)
<1>1. SumSteps(w, f, S)
  BY SumSolved
<1>2. x \in S /\ R \subseteq S /\ IsFiniteSet(R)
  BY FS_RemoveElement
<1>3. SumSteps(w, g, R)
  BY <1>2, SumSolved
<1>4. f[S] = w[x] + f[R]
  <2>1. f[S] = SumStep(w, f, S)
    BY <1>1 DEF SumSteps
  <2> QED
    BY <2>1, Zenon DEF SumStep
<1>5. f[R] = g[R]
  <2> DEFINE A == {T \in SUBSET R : f[T] = g[T]}
             N == {n \in Nat : \A T \in SUBSET R : Cardinality(T) <= n => T \in A}
  <2>1. \A T \in SUBSET R : IsFiniteSet(T) /\ Cardinality(T) \in Nat
    BY <1>2, FS_Subset, FS_CardinalityType
  <2>2. \A T \in SUBSET R : f[T] = SumStep(w, f, T) /\ g[T] = SumStep(w, g, T)
    <3>1. \A T \in SUBSET R : T \in SUBSET S
      BY <1>2
    <3>2. \A T \in SUBSET S : f[T] = SumStep(w, f, T)
      BY <1>1 DEF SumSteps
    <3>3. \A T \in SUBSET R : g[T] = SumStep(w, g, T)
      BY <1>3 DEF SumSteps
    <3> QED
      BY <3>1, <3>2, <3>3
  <2>3. 0 \in N
    <3>1. \A T \in SUBSET R : Cardinality(T) <= 0 => T = {}
      BY <2>1, FS_EmptySet
    <3>2. f[{}] = 0 /\ g[{}] = 0
      BY <2>2 DEF SumStep
    <3> QED
      BY <3>1, <3>2
  <2>4. ASSUME NEW n \in Nat, n \in N PROVE n + 1 \in N
    <3>1. ASSUME NEW T \in SUBSET R, Cardinality(T) <= n + 1
          PROVE  T \in A
      <4>1. CASE T = {}
        BY <4>1, <2>2 DEF SumStep
      <4>2. CASE T # {}
        <5> DEFINE y == CHOOSE y \in T : TRUE
        <5>1. y \in T /\ T \ {y} \in SUBSET R /\ Cardinality(T \ {y}) <= n
          BY <3>1, <4>2, <2>1, FS_RemoveElement
        <5>2. f[T \ {y}] = g[T \ {y}]
          BY <5>1, <2>4
        <5>3. f[T] = w[y] + f[T \ {y}] /\ g[T] = w[y] + g[T \ {y}]
          BY <2>2, <4>2, Zenon DEF SumStep
        <5> QED
          BY <5>2, <5>3
      <4> QED
        BY <4>1, <4>2
    <3> HIDE DEF A
    <3> QED
      BY <3>1
  <2>5. Cardinality(R) \in N
    BY <2>1, <2>3, <2>4, NatCases, Zenon
  <2>6. R \in SUBSET R /\ Cardinality(R) <= Cardinality(R)
    BY <2>1
  <2> QED
    BY <2>5, <2>6
<1> QED
  BY <1>2, <1>4, <1>5, SumIsSolution

LEMMA SumInt ==
  ASSUME NEW w, NEW S, IsFiniteSet(S), \A i \in S : w[i] \in Int
  PROVE  SumFunctionOnSet(w, S) \in Int
<1> DEFINE A == {T \in SUBSET S : SumFunctionOnSet(w, T) \in Int}
           N == {n \in Nat : \A T \in SUBSET S : Cardinality(T) = n => T \in A}
<1>1. \A T \in SUBSET S : IsFiniteSet(T) /\ Cardinality(T) \in Nat
  BY FS_Subset, FS_CardinalityType
<1>2. 0 \in N
  BY <1>1, FS_EmptySet, SumEmpty
<1>3. ASSUME NEW n \in Nat, n \in N PROVE n + 1 \in N
  <2>1. ASSUME NEW T \in SUBSET S, Cardinality(T) = n + 1 PROVE T \in A
    <3>1. T # {}
      BY <2>1, FS_EmptySet
    <3>2. PICK x \in T : SumFunctionOnSet(w, T) = w[x] + SumFunctionOnSet(w, T \ {x})
      BY <1>1, <3>1, SumUnfolds
    <3>3. Cardinality(T \ {x}) = Cardinality(T) - 1
      BY <1>1, FS_RemoveElement
    <3>4. T \ {x} \in A
      BY <1>3, <2>1, <3>3
    <3> QED
      BY <3>2, <3>4
  <2> QED
    BY <2>1
<1>4. Cardinality(S) \in N
  BY <1>1, <1>2, <1>3, NatCases, Zenon
<1> QED
  BY <1>4

(* The element may be any: the order of a sum does not matter.             *)
LEMMA SumRemove ==
  ASSUME NEW w, NEW S, IsFiniteSet(S), \A i \in S : w[i] \in Int, NEW x \in S
  PROVE  SumFunctionOnSet(w, S) = w[x] + SumFunctionOnSet(w, S \ {x})
<1> DEFINE Sum(T) == SumFunctionOnSet(w, T)
           A == {T \in SUBSET S : \A e \in T : Sum(T) = w[e] + Sum(T \ {e})}
           N == {n \in Nat : \A T \in SUBSET S : Cardinality(T) = n => T \in A}
<1>1. \A T \in SUBSET S : IsFiniteSet(T) /\ Cardinality(T) \in Nat /\ Sum(T) \in Int
  BY FS_Subset, FS_CardinalityType, SumInt
<1>a. \A T \in SUBSET S : T # {} => \E e \in T : Sum(T) = w[e] + Sum(T \ {e})
  BY <1>1, SumUnfolds
<1> HIDE DEF Sum
<1>2. 0 \in N
  BY <1>1, FS_EmptySet
<1>3. ASSUME NEW n \in Nat, n \in N PROVE n + 1 \in N
  <2>1. ASSUME NEW T \in SUBSET S, Cardinality(T) = n + 1, NEW e \in T
        PROVE  Sum(T) = w[e] + Sum(T \ {e})
    <3>1. PICK y \in T : Sum(T) = w[y] + Sum(T \ {y})
      BY <1>a
    <3>2. CASE y = e
      BY <3>1, <3>2
    <3>3. CASE y # e
      <4>1. Cardinality(T \ {y}) = Cardinality(T) - 1 /\ Cardinality(T \ {e}) = Cardinality(T) - 1
        BY <1>1, FS_RemoveElement
      <4>2. T \ {y} \in A /\ T \ {e} \in A
        BY <1>3, <2>1, <4>1
      <4>3. Sum(T \ {y}) = w[e] + Sum((T \ {y}) \ {e})
        BY <3>3, <4>2
      <4>4. Sum(T \ {e}) = w[y] + Sum((T \ {e}) \ {y})
        BY <3>3, <4>2
      <4>5. Sum((T \ {y}) \ {e}) = Sum((T \ {e}) \ {y})
        <5>1. (T \ {y}) \ {e} = (T \ {e}) \ {y}
          OBVIOUS
        <5> QED
          BY <5>1
      <4>6. w[y] \in Int /\ w[e] \in Int /\ Sum((T \ {e}) \ {y}) \in Int
        BY <1>1
      <4> QED
        BY <3>1, <4>3, <4>4, <4>5, <4>6
    <3> QED
      BY <3>2, <3>3
  <2> QED
    BY <2>1
<1>4. Cardinality(S) \in N
  BY <1>1, <1>2, <1>3, NatCases, Zenon
<1>5. Sum(S) = w[x] + Sum(S \ {x})
  BY <1>4
<1> QED
  BY <1>5 DEF Sum

(* Only the values at the elements matter.                                 *)
LEMMA SumSame ==
  ASSUME NEW v, NEW w, NEW S, IsFiniteSet(S),
         \A i \in S : v[i] = w[i] /\ w[i] \in Int
  PROVE  SumFunctionOnSet(v, S) = SumFunctionOnSet(w, S)
<1> DEFINE A == {T \in SUBSET S : SumFunctionOnSet(v, T) = SumFunctionOnSet(w, T)}
<1>1. {} \in A
  BY SumEmpty
<1>2. ASSUME NEW T \in SUBSET S, NEW x \in S \ T, T \in A
      PROVE  T \cup {x} \in A
  <2>1. IsFiniteSet(T \cup {x}) /\ (T \cup {x}) \ {x} = T
    BY FS_Subset
  <2>2. SumFunctionOnSet(v, T \cup {x}) = v[x] + SumFunctionOnSet(v, (T \cup {x}) \ {x})
    BY <2>1, SumRemove
  <2>3. SumFunctionOnSet(w, T \cup {x}) = w[x] + SumFunctionOnSet(w, (T \cup {x}) \ {x})
    BY <2>1, SumRemove
  <2> QED
    BY <1>2, <2>1, <2>2, <2>3
<1>3. S \in A
  BY <1>1, <1>2, SubsetCases, Zenon
<1> QED
  BY <1>3

(* A sum is that of a part and that of the rest.                           *)
LEMMA SumSplit ==
  ASSUME NEW w, NEW S, IsFiniteSet(S), \A i \in S : w[i] \in Int,
         NEW P \in SUBSET S
  PROVE  SumFunctionOnSet(w, S)
           = SumFunctionOnSet(w, P) + SumFunctionOnSet(w, S \ P)
<1> DEFINE Sum(T) == SumFunctionOnSet(w, T)
           A == {T \in SUBSET P : Sum(S) = Sum(T) + Sum(S \ T)}
<1>1. \A T \in SUBSET S : IsFiniteSet(T) /\ Sum(T) \in Int
  BY FS_Subset, SumInt
<1>2. \A T \in SUBSET S : \A x \in T : Sum(T) = w[x] + Sum(T \ {x})
  BY <1>1, SumRemove
<1>3. Sum({}) = 0
  BY SumEmpty
<1> HIDE DEF Sum
<1>4. {} \in A
  <2>1. S \ {} = S
    OBVIOUS
  <2> QED
    BY <1>1, <1>3, <2>1
<1>5. ASSUME NEW T \in SUBSET P, NEW x \in P \ T, T \in A
      PROVE  T \cup {x} \in A
  <2>1. (T \cup {x}) \ {x} = T /\ (S \ T) \ {x} = S \ (T \cup {x})
    OBVIOUS
  <2>2. Sum(T \cup {x}) = w[x] + Sum(T)
    BY <1>2, <2>1
  <2>3. Sum(S \ T) = w[x] + Sum(S \ (T \cup {x}))
    BY <1>2, <2>1
  <2>4. w[x] \in Int /\ Sum(T) \in Int /\ Sum(S \ (T \cup {x})) \in Int
    BY <1>1
  <2> QED
    BY <1>5, <2>2, <2>3, <2>4
<1>6. P \in A
  <2>1. IsFiniteSet(P)
    BY <1>1
  <2> QED
    BY <1>4, <1>5, <2>1, SubsetCases, Zenon
<1> QED
  BY <1>6 DEF Sum

LEMMA SumNat ==
  ASSUME NEW w, NEW S, IsFiniteSet(S), \A i \in S : w[i] \in Nat
  PROVE  SumFunctionOnSet(w, S) \in Nat
<1> DEFINE A == {T \in SUBSET S : SumFunctionOnSet(w, T) \in Nat}
<1>1. {} \in A
  BY SumEmpty
<1>2. ASSUME NEW T \in SUBSET S, NEW x \in S \ T, T \in A
      PROVE  T \cup {x} \in A
  <2>1. IsFiniteSet(T \cup {x}) /\ (T \cup {x}) \ {x} = T
    BY FS_Subset
  <2>2. \A i \in T \cup {x} : w[i] \in Int
    OBVIOUS
  <2>3. SumFunctionOnSet(w, T \cup {x}) = w[x] + SumFunctionOnSet(w, (T \cup {x}) \ {x})
    BY <2>1, <2>2, SumRemove
  <2>4. SumFunctionOnSet(w, T) \in Nat /\ w[x] \in Nat
    BY <1>2
  <2>5. SumFunctionOnSet(w, T \cup {x}) \in Nat
    BY <2>1, <2>3, <2>4
  <2> QED
    BY <2>5
<1>3. S \in A
  BY <1>1, <1>2, SubsetCases, Zenon
<1> QED
  BY <1>3
=============================================================================
