----------------------------- MODULE Induction -----------------------------
(***************************************************************************)
(* Induction and recursion for the proofs about data: folds over finite    *)
(* sets and sequences.  Every lemma has sets and functions as parameters   *)
(* and none an operator, so that the provers can instantiate it.           *)
(***************************************************************************)
EXTENDS Integers, Sequences, FiniteSets, FiniteSetsExt, Functions, SequencesExt, FiniteSetTheorems, WellFoundedInduction, TLAPS

LEMMA NatMin == ASSUME NEW A, A \subseteq Nat, A # {} PROVE \E x \in A : \A y \in A : x <= y
<1> DEFINE R == OpToRel(<, Nat)
<1>1. IsWellFoundedOn(R, Nat)
  BY NatLessThanWellFounded
<1>2. \A x, y \in Nat : <<x, y>> \in R <=> x < y
  BY DEF OpToRel
<1> HIDE DEF R
<1>3. PICK x \in A : \A y \in A : ~(<<y, x>> \in R)
  BY <1>1, WFMin
<1>4. \A y \in A : ~(y < x)
  BY <1>2, <1>3
<1>5. \A y \in A : x <= y
  BY <1>4
<1>6. QED
  BY <1>5

\* A set that holds 0 and, up to m, with a number its successor.
LEMMA UpTo ==
  ASSUME NEW A, NEW m \in Nat, 0 \in A, \A k \in Nat : k < m /\ k \in A => k + 1 \in A
  PROVE  \A k \in 0..m : k \in A
<1> DEFINE B == {k \in 0..m : k \notin A}
<1> SUFFICES ASSUME B # {} PROVE FALSE
  OBVIOUS
<1>1. PICK x \in B : \A y \in B : x <= y
  <2>1. B \subseteq Nat
    OBVIOUS
  <2>2. QED
    BY <2>1, NatMin
<1>2. x \in Nat /\ x # 0 /\ x <= m /\ x \notin A
  OBVIOUS
<1>3. x - 1 \in Nat /\ x - 1 < m /\ x - 1 \in 0..m /\ ~(x <= x - 1)
  BY <1>2
<1>4. x - 1 \notin B
  BY <1>1, <1>3
<1>5. x - 1 \in A
  BY <1>3, <1>4
<1>6. (x - 1) + 1 = x
  BY <1>2
<1>7. QED
  BY <1>2, <1>3, <1>5, <1>6

LEMMA MaxInterval ==
  ASSUME NEW n \in Nat, NEW A, A \subseteq 1..n, A # {}
  PROVE  Max(A) \in A /\ \A x \in A : x <= Max(A)
<1> DEFINE B == {n - x : x \in A}
<1>1. B \subseteq Nat /\ B # {}
  <2>1. \A x \in A : n - x \in Nat
    OBVIOUS
  <2>2. PICK x \in A : TRUE
    OBVIOUS
  <2>3. n - x \in B
    BY <2>2
  <2>4. QED
    BY <2>1, <2>3
<1>2. PICK y \in B : \A z \in B : y <= z
  BY <1>1, NatMin
<1>3. PICK x \in A : y = n - x
  OBVIOUS
<1>4. \A z \in A : x >= z
  <2>1. ASSUME NEW z \in A PROVE x >= z
    <3>1. n - z \in B /\ x \in Int /\ z \in Int
      OBVIOUS
    <3>2. n - x <= n - z
      BY <1>2, <1>3, <3>1
    <3>3. QED
      BY <3>1, <3>2
  <2>2. QED
    BY <2>1
<1>5. \E w \in A : \A z \in A : w >= z
  BY <1>4
<1>6. Max(A) \in A /\ \A z \in A : Max(A) >= z
  BY <1>5 DEF Max
<1>7. QED
  BY <1>6

LEMMA FiniteInterval == \A m, n \in Int : IsFiniteSet(m..n)
BY FS_Interval

\* A set of numbers from 1 without gaps.
LEMMA Downward ==
  ASSUME NEW n \in Nat, NEW A \in SUBSET (1..n), \A i, j \in 1..n : j \in A /\ i <= j => i \in A
  PROVE  A = 1..Cardinality(A) /\ Cardinality(A) \in 0..n
<1>1. CASE A = {}
  <2>1. Cardinality(A) = 0
    BY <1>1, FS_EmptySet
  <2>2. QED
    BY <1>1, <2>1
<1>2. CASE A # {}
  <2>1. Max(A) \in A /\ \A x \in A : x <= Max(A)
    BY <1>2, MaxInterval
  <2>2. Max(A) \in 1..n /\ A = 1..Max(A)
    <3>1. PICK m \in 1..n : m = Max(A)
      BY <2>1
    <3>2. m \in A /\ \A x \in A : x <= m
      BY <2>1, <3>1
    <3>3. \A i \in 1..m : i \in 1..n /\ i <= m
      OBVIOUS
    <3>4. \A i \in 1..m : i \in A
      BY <3>2, <3>3
    <3>7. \A x \in A : x \in 1..n /\ x <= m
      BY <3>2
    <3>8. \A x \in A : x \in 1..m
      BY <3>7
    <3>5. A = 1..m
      BY <3>4, <3>8
    <3>6. QED
      BY <3>1, <3>5
  <2>3. Cardinality(1..Max(A)) = Max(A)
    BY <2>2, FS_Interval
  <2>4. Cardinality(A) = Max(A)
    BY <2>2, <2>3
  <2>5. QED
    BY <2>2, <2>4
<1>3. QED
  BY <1>1, <1>2

-----------------------------------------------------------------------------
(***************************************************************************)
(* Folds over a finite set: MapThenFoldSet of Folds, with the function G   *)
(* for its operation and the function pick for its choice.                 *)
(***************************************************************************)

\* fold[s] is defined from fold of s without an element.
Folds(fold, S, V, base, pick, G) ==
  /\ fold[{}] = base
  /\ \A s \in SUBSET S :
       s # {} /\ fold[s \ {pick[s]}] \in V => fold[s] = G[<<pick[s], fold[s \ {pick[s]}]>>]

LEMMA FoldExists ==
  ASSUME NEW S, IsFiniteSet(S), NEW V, NEW base \in V, NEW G \in [S \X V -> V],
         NEW pick, \A s \in SUBSET S : s # {} => pick[s] \in s
  PROVE  \E fold \in [SUBSET S -> V] : Folds(fold, S, V, base, pick, G)
<1> DEFINE Good(k) == \E f \in [SUBSET S -> V] :
             /\ f[{}] = base
             /\ \A s \in SUBSET S : s # {} /\ Cardinality(s) <= k => f[s] = G[<<pick[s], f[s \ {pick[s]}]>>]
           A == {k \in Nat : Good(k)}
<1>1. \A s \in SUBSET S : IsFiniteSet(s) /\ Cardinality(s) \in Nat /\ Cardinality(s) <= Cardinality(S)
  BY FS_Subset, FS_CardinalityType
<1>2. Cardinality(S) \in Nat
  BY FS_CardinalityType
<1>3. 0 \in A
  <2> DEFINE f == [s \in SUBSET S |-> base]
  <2>1. f \in [SUBSET S -> V] /\ f[{}] = base
    OBVIOUS
  <2>2. \A s \in SUBSET S : s # {} => ~(Cardinality(s) <= 0)
    BY <1>1, FS_EmptySet
  <2>3. Good(0)
    BY <2>1, <2>2
  <2>4. QED
    BY <2>3
<1>4. ASSUME NEW k \in Nat, k \in A PROVE k + 1 \in A
  <2>1. PICK f \in [SUBSET S -> V] :
             /\ f[{}] = base
             /\ \A s \in SUBSET S : s # {} /\ Cardinality(s) <= k => f[s] = G[<<pick[s], f[s \ {pick[s]}]>>]
    BY <1>4
  <2> DEFINE g == [s \in SUBSET S |-> IF s = {} THEN base ELSE G[<<pick[s], f[s \ {pick[s]}]>>]]
  <2>2. g \in [SUBSET S -> V]
    OBVIOUS
  <2>3. g[{}] = base
    OBVIOUS
  <2>4. ASSUME NEW s \in SUBSET S, s # {}, Cardinality(s) <= k + 1
        PROVE  g[s] = G[<<pick[s], g[s \ {pick[s]}]>>]
    <3> DEFINE t == s \ {pick[s]}
    <3>1. pick[s] \in s /\ t \in SUBSET S
      BY <2>4
    <3>2. Cardinality(t) = Cardinality(s) - 1
      BY <1>1, <3>1, FS_RemoveElement
    <3>3. Cardinality(t) <= k
      BY <1>1, <2>4, <3>2
    <3>4. g[t] = f[t]
      BY <2>1, <3>1, <3>3
    <3>5. QED
      BY <2>4, <3>1, <3>4
  <2> HIDE DEF g
  <2>5. Good(k + 1)
    BY <2>2, <2>3, <2>4
  <2> HIDE DEF Good
  <2>6. QED
    BY <2>5
<1> HIDE DEF A
<1>5. Cardinality(S) \in A
  BY <1>2, <1>3, <1>4, UpTo
<1>6. Good(Cardinality(S))
  BY <1>5 DEF A
<1>7. QED
  BY <1>1, <1>6 DEF Folds

-----------------------------------------------------------------------------
(***************************************************************************)
(* Sums: SumFunctionOnSet and SumFunction of Functions                     *)
(***************************************************************************)

\* What holds of a finite set if it holds of a set whenever it holds of its
\* proper subsets.
LEMMA SubsetInduction ==
  ASSUME NEW S, IsFiniteSet(S), NEW A,
         \A s \in SUBSET S : (\A t \in SUBSET s : t # s => t \in A) => s \in A
  PROVE  S \in A
<1> DEFINE B == {k \in 0..Cardinality(S) : \E s \in SUBSET S : s \notin A /\ Cardinality(s) = k}
<1>1. \A s \in SUBSET S : IsFiniteSet(s) /\ Cardinality(s) \in Nat /\ Cardinality(s) <= Cardinality(S)
  BY FS_Subset, FS_CardinalityType
<1>2. Cardinality(S) \in Nat
  BY FS_CardinalityType
<1> SUFFICES ASSUME S \notin A PROVE FALSE
  OBVIOUS
<1>3. Cardinality(S) \in B /\ B \subseteq Nat
  BY <1>2
<1>4. PICK k \in B : \A l \in B : k <= l
  <2> HIDE DEF B
  <2>1. QED
    BY <1>3, NatMin
<1>5. PICK s \in SUBSET S : s \notin A /\ Cardinality(s) = k
  OBVIOUS
<1>6. ASSUME NEW t \in SUBSET s, t # s PROVE t \in A
  <2>1. Cardinality(t) < Cardinality(s)
    <3>1. Cardinality(t) <= Cardinality(s) /\ Cardinality(t) # Cardinality(s)
      BY <1>1, <1>6, FS_Subset
    <3>2. QED
      BY <1>1, <3>1
  <2>2. Cardinality(t) \in 0..Cardinality(S) /\ ~(k <= Cardinality(t))
    BY <1>1, <1>2, <1>5, <2>1
  <2>3. Cardinality(t) \notin B
    BY <1>4, <2>2
  <2>4. QED
    BY <2>2, <2>3
<1>7. QED
  BY <1>5, <1>6

\* g[s] is the sum of f over s, for the subsets s of S.
Sums(g, f, S) ==
  /\ g \in [SUBSET S -> Int]
  /\ \A s \in SUBSET S :
       g[s] = IF s = {} THEN 0 ELSE f[CHOOSE x \in s : TRUE] + g[s \ {CHOOSE x \in s : TRUE}]

LEMMA SumsExist ==
  ASSUME NEW S, IsFiniteSet(S), NEW f, \A x \in S : f[x] \in Int
  PROVE  \E g : Sums(g, f, S)
<1> DEFINE pick == [s \in SUBSET S |-> CHOOSE x \in s : TRUE]
           G == [e \in S \X Int |-> f[e[1]] + e[2]]
<1>1. G \in [S \X Int -> Int] /\ \A x \in S, v \in Int : G[<<x, v>>] = f[x] + v
  OBVIOUS
<1>2. \A s \in SUBSET S : s # {} => pick[s] \in s /\ pick[s] = CHOOSE x \in s : TRUE
  OBVIOUS
<1> HIDE DEF pick, G
<1>3. PICK g \in [SUBSET S -> Int] : Folds(g, S, Int, 0, pick, G)
  <2>1. \A s \in SUBSET S : s # {} => pick[s] \in s
    BY <1>2
  <2>2. 0 \in Int
    OBVIOUS
  <2>3. G \in [S \X Int -> Int]
    BY <1>1
  <2>4. QED
    BY <2>1, <2>2, <2>3, FoldExists, Zenon
<1>4. ASSUME NEW s \in SUBSET S, s # {}
      PROVE  g[s] = f[CHOOSE x \in s : TRUE] + g[s \ {CHOOSE x \in s : TRUE}]
  <2>1. pick[s] \in S /\ g[s \ {pick[s]}] \in Int
    BY <1>2, <1>4
  <2>2. g[s] = G[<<pick[s], g[s \ {pick[s]}]>>]
    BY <1>3, <1>4, <2>1 DEF Folds
  <2>3. QED
    BY <1>1, <1>2, <1>4, <2>1, <2>2
<1>5. g[{}] = 0
  BY <1>3 DEF Folds
<1>6. QED
  BY <1>4, <1>5 DEF Sums

LEMMA SumIs ==
  ASSUME NEW S, IsFiniteSet(S), NEW f, NEW g, Sums(g, f, S)
  PROVE  SumFunctionOnSet(f, S) = g[S]
<1> DEFINE eq(h) == h = [s \in SUBSET S |->
               IF s = {} THEN 0 ELSE f[CHOOSE x \in s : TRUE] + h[s \ {CHOOSE x \in s : TRUE}]]
           iter == CHOOSE h : eq(h)
<1>1. eq(g)
  BY DEF Sums
<1>2. eq(iter)
  BY <1>1
<1>3. SumFunctionOnSet(f, S) = iter[S]
  BY DEF SumFunctionOnSet, FoldFunctionOnSet, MapThenFoldSet
<1> DEFINE A == {s \in SUBSET S : iter[s] = g[s]}
<1>4. \A s \in SUBSET S :
        iter[s] = IF s = {} THEN 0 ELSE f[CHOOSE x \in s : TRUE] + iter[s \ {CHOOSE x \in s : TRUE}]
  BY <1>2
<1> HIDE DEF iter
<1>5. ASSUME NEW s \in SUBSET S, \A t \in SUBSET s : t # s => t \in A PROVE s \in A
  <2>1. CASE s = {}
    BY <1>4, <2>1 DEF Sums
  <2>2. CASE s # {}
    <3> DEFINE t == s \ {CHOOSE x \in s : TRUE}
    <3>1. t \in SUBSET s /\ t # s
      BY <2>2
    <3>2. iter[t] = g[t]
      BY <1>5, <3>1
    <3>3. QED
      BY <1>4, <2>2, <3>2 DEF Sums
  <2>3. QED
    BY <2>1, <2>2
<1> HIDE DEF A
<1>6. S \in A
  BY <1>5, SubsetInduction
<1>7. QED
  BY <1>3, <1>6 DEF A

LEMMA SumPick ==
  ASSUME NEW S, IsFiniteSet(S), NEW f, \A x \in S : f[x] \in Int
  PROVE  /\ SumFunctionOnSet(f, S) \in Int
         /\ S = {} => SumFunctionOnSet(f, S) = 0
         /\ S # {} => SumFunctionOnSet(f, S) = f[CHOOSE x \in S : TRUE] + SumFunctionOnSet(f, S \ {CHOOSE x \in S : TRUE})
<1>1. PICK g : Sums(g, f, S)
  BY SumsExist
<1>2. SumFunctionOnSet(f, S) = g[S]
  BY <1>1, SumIs
<1>3. ASSUME S # {} PROVE SumFunctionOnSet(f, S \ {CHOOSE x \in S : TRUE}) = g[S \ {CHOOSE x \in S : TRUE}]
  <2> DEFINE T == S \ {CHOOSE x \in S : TRUE}
  <2>1. T \in SUBSET S /\ IsFiniteSet(T)
    BY FS_Subset
  <2> HIDE DEF T
  <2> DEFINE k == [s \in SUBSET T |-> g[s]]
  <2>2. k \in [SUBSET T -> Int] /\ \A s \in SUBSET T : k[s] = g[s]
    BY <1>1, <2>1 DEF Sums
  <2> HIDE DEF k
  <2>3. Sums(k, f, T)
    BY <1>1, <2>1, <2>2 DEF Sums
  <2>4. SumFunctionOnSet(f, T) = k[T]
    BY <2>1, <2>3, SumIs
  <2>5. QED
    BY <2>2, <2>4 DEF T
<1>4. QED
  BY <1>1, <1>2, <1>3 DEF Sums

\* A sum does not depend on the order in which it is taken.
LEMMA SumRemove ==
  ASSUME NEW S, IsFiniteSet(S), NEW f, \A x \in S : f[x] \in Int
  PROVE  \A x \in S : SumFunctionOnSet(f, S) = f[x] + SumFunctionOnSet(f, S \ {x})
<1> DEFINE sum(s) == SumFunctionOnSet(f, s)
           A == {s \in SUBSET S : \A x \in s : sum(s) = f[x] + sum(s \ {x})}
<1>1. \A s \in SUBSET S : IsFiniteSet(s)
  BY FS_Subset
<1>2. \A s \in SUBSET S : sum(s) \in Int /\ (s # {} => sum(s) = f[CHOOSE x \in s : TRUE] + sum(s \ {CHOOSE x \in s : TRUE}))
  BY <1>1, SumPick
<1> HIDE DEF sum
<1>3. ASSUME NEW s \in SUBSET S, \A t \in SUBSET s : t # s => t \in A PROVE s \in A
  <2> SUFFICES ASSUME NEW x \in s PROVE sum(s) = f[x] + sum(s \ {x})
    OBVIOUS
  <2>1. PICK c \in s : sum(s) = f[c] + sum(s \ {c})
    BY <1>2
  <2>2. CASE c = x
    BY <2>1, <2>2
  <2>3. CASE c # x
    <3>1. s \ {c} \in A /\ x \in s \ {c} /\ s \ {x} \in A /\ c \in s \ {x}
      BY <1>3, <2>3
    <3>2. sum(s \ {c}) = f[x] + sum((s \ {c}) \ {x})
      BY <3>1
    <3>3. sum(s \ {x}) = f[c] + sum((s \ {x}) \ {c})
      BY <3>1
    <3> DEFINE t == s \ {c, x}
    <3>4. (s \ {x}) \ {c} = t /\ (s \ {c}) \ {x} = t /\ t \in SUBSET S
      OBVIOUS
    <3>5. f[x] \in Int /\ f[c] \in Int /\ sum(t) \in Int
      BY <1>2, <3>4
    <3>6. sum(s \ {c}) = f[x] + sum(t) /\ sum(s \ {x}) = f[c] + sum(t)
      BY <3>2, <3>3, <3>4
    <3> HIDE DEF t
    <3>7. QED
      BY <2>1, <3>5, <3>6
  <2>4. QED
    BY <2>2, <2>3
<1> HIDE DEF A
<1>4. S \in A
  BY <1>3, SubsetInduction
<1>5. QED
  BY <1>4 DEF A, sum

\* What relates the terms of two sums relates the sums: R holds the pairs of
\* values so related.
LEMMA SumRelates ==
  ASSUME NEW S, IsFiniteSet(S), NEW f, NEW g, \A x \in S : f[x] \in Int /\ g[x] \in Int,
         NEW R, <<0, 0>> \in R,
         \A x \in S : \A v, w \in Int : <<v, w>> \in R => <<f[x] + v, g[x] + w>> \in R
  PROVE  <<SumFunctionOnSet(f, S), SumFunctionOnSet(g, S)>> \in R
<1> DEFINE A == {s \in SUBSET S : <<SumFunctionOnSet(f, s), SumFunctionOnSet(g, s)>> \in R}
<1>1. \A s \in SUBSET S : IsFiniteSet(s)
  BY FS_Subset
<1>2. \A s \in SUBSET S : /\ SumFunctionOnSet(f, s) \in Int /\ SumFunctionOnSet(g, s) \in Int
                          /\ s = {} => SumFunctionOnSet(f, s) = 0 /\ SumFunctionOnSet(g, s) = 0
  BY <1>1, SumPick
<1>3. ASSUME NEW s \in SUBSET S, \A t \in SUBSET s : t # s => t \in A PROVE s \in A
  <2>1. CASE s = {}
    BY <1>2, <2>1
  <2>2. ASSUME NEW x \in s PROVE s \in A
    <3>1. s \ {x} \in A /\ s \ {x} \in SUBSET S
      BY <1>3, <2>2
    <3>2. /\ SumFunctionOnSet(f, s) = f[x] + SumFunctionOnSet(f, s \ {x})
          /\ SumFunctionOnSet(g, s) = g[x] + SumFunctionOnSet(g, s \ {x})
      BY <1>1, SumRemove
    <3>3. QED
      BY <1>2, <3>1, <3>2
  <2>3. QED
    BY <2>1, <2>2
<1> HIDE DEF A
<1>4. S \in A
  BY <1>3, SubsetInduction
<1>5. QED
  BY <1>4 DEF A

LEMMA SumSame ==
  ASSUME NEW S, IsFiniteSet(S), NEW f, NEW g, \A x \in S : f[x] \in Int /\ f[x] = g[x]
  PROVE  SumFunctionOnSet(f, S) = SumFunctionOnSet(g, S)
<1> DEFINE R == {e \in Int \X Int : e[1] = e[2]}
<1>1. <<0, 0>> \in R
  OBVIOUS
<1>2. \A x \in S : \A v, w \in Int : <<v, w>> \in R => <<f[x] + v, g[x] + w>> \in R
  OBVIOUS
<1>3. \A v, w : <<v, w>> \in R => v = w
  OBVIOUS
<1> HIDE DEF R
<1>4. <<SumFunctionOnSet(f, S), SumFunctionOnSet(g, S)>> \in R
  BY <1>1, <1>2, SumRelates
<1>5. QED
  BY <1>3, <1>4

LEMMA SumLeq ==
  ASSUME NEW S, IsFiniteSet(S), NEW f, NEW g, \A x \in S : f[x] \in Int /\ g[x] \in Int /\ f[x] <= g[x]
  PROVE  SumFunctionOnSet(f, S) <= SumFunctionOnSet(g, S)
<1> DEFINE R == {e \in Int \X Int : e[1] <= e[2]}
<1>1. <<0, 0>> \in R
  OBVIOUS
<1>2. \A x \in S : \A v, w \in Int : <<v, w>> \in R => <<f[x] + v, g[x] + w>> \in R
  OBVIOUS
<1>3. \A v, w : <<v, w>> \in R => v <= w
  OBVIOUS
<1> HIDE DEF R
<1>4. <<SumFunctionOnSet(f, S), SumFunctionOnSet(g, S)>> \in R
  BY <1>1, <1>2, SumRelates
<1>5. QED
  BY <1>3, <1>4

LEMMA SumZero ==
  ASSUME NEW S, IsFiniteSet(S), NEW f, \A x \in S : f[x] = 0
  PROVE  SumFunctionOnSet(f, S) = 0
<1> DEFINE R == {e \in Int \X Int : e[1] = 0}
<1>1. <<0, 0>> \in R
  OBVIOUS
<1>2. \A x \in S : \A v, w \in Int : <<v, w>> \in R => <<f[x] + v, f[x] + w>> \in R
  OBVIOUS
<1>3. \A v, w : <<v, w>> \in R => v = 0
  OBVIOUS
<1>4. \A x \in S : f[x] \in Int
  OBVIOUS
<1> HIDE DEF R
<1>5. <<SumFunctionOnSet(f, S), SumFunctionOnSet(f, S)>> \in R
  BY <1>1, <1>2, <1>4, SumRelates
<1>6. QED
  BY <1>3, <1>5

LEMMA SumNat ==
  ASSUME NEW S, IsFiniteSet(S), NEW f, \A x \in S : f[x] \in Nat
  PROVE  SumFunctionOnSet(f, S) \in Nat /\ \A x \in S : f[x] <= SumFunctionOnSet(f, S)
<1> DEFINE R == {e \in Int \X Int : e[1] >= 0}
<1>1. <<0, 0>> \in R
  OBVIOUS
<1>2. \A x \in S : \A v, w \in Int : <<v, w>> \in R => <<f[x] + v, f[x] + w>> \in R
  OBVIOUS
<1>3. \A v, w : <<v, w>> \in R => v \in Nat
  OBVIOUS
<1>4. \A x \in S : f[x] \in Int
  OBVIOUS
<1> HIDE DEF R
<1>5. ASSUME NEW s \in SUBSET S PROVE SumFunctionOnSet(f, s) \in Nat
  <2>1. IsFiniteSet(s)
    BY FS_Subset
  <2>2. <<SumFunctionOnSet(f, s), SumFunctionOnSet(f, s)>> \in R
    BY <1>1, <1>2, <1>4, <2>1, SumRelates
  <2>3. QED
    BY <1>3, <2>2
<1>6. ASSUME NEW x \in S PROVE f[x] <= SumFunctionOnSet(f, S)
  <2>1. SumFunctionOnSet(f, S) = f[x] + SumFunctionOnSet(f, S \ {x})
    BY <1>4, SumRemove
  <2>2. SumFunctionOnSet(f, S \ {x}) \in Nat /\ f[x] \in Nat
    BY <1>5
  <2>3. QED
    BY <2>1, <2>2
<1>7. QED
  BY <1>5, <1>6

\* One term changes.
LEMMA SumChange ==
  ASSUME NEW S, IsFiniteSet(S), NEW f, NEW g, NEW c \in S,
         \A x \in S : f[x] \in Int /\ g[x] \in Int /\ (x # c => f[x] = g[x])
  PROVE  SumFunctionOnSet(g, S) = SumFunctionOnSet(f, S) - f[c] + g[c]
<1>1. IsFiniteSet(S \ {c})
  BY FS_Subset
<1>2. SumFunctionOnSet(f, S \ {c}) = SumFunctionOnSet(g, S \ {c})
  BY <1>1, SumSame
<1>3. SumFunctionOnSet(f, S) = f[c] + SumFunctionOnSet(f, S \ {c})
  BY SumRemove
<1>4. SumFunctionOnSet(g, S) = g[c] + SumFunctionOnSet(g, S \ {c})
  BY SumRemove
<1>5. SumFunctionOnSet(f, S \ {c}) \in Int /\ f[c] \in Int /\ g[c] \in Int
  BY <1>1, SumPick
<1>6. QED
  BY <1>2, <1>3, <1>4, <1>5

LEMMA SumUnion ==
  ASSUME NEW S, IsFiniteSet(S), NEW T, IsFiniteSet(T), S \cap T = {},
         NEW f, \A x \in S \cup T : f[x] \in Int
  PROVE  SumFunctionOnSet(f, S \cup T) = SumFunctionOnSet(f, S) + SumFunctionOnSet(f, T)
<1> DEFINE sum(s) == SumFunctionOnSet(f, s)
           A == {s \in SUBSET S : sum(s \cup T) = sum(s) + sum(T)}
<1>1. \A s \in SUBSET S : IsFiniteSet(s) /\ IsFiniteSet(s \cup T)
  BY FS_Subset, FS_Union
<1>2. \A s \in SUBSET S : sum(s) \in Int
  BY <1>1, SumPick
<1>3. sum(T) \in Int /\ sum({}) = 0
  <2>1. IsFiniteSet({})
    BY FS_EmptySet
  <2>2. QED
    BY <2>1, SumPick
<1>4. \A s \in SUBSET S : \A x \in s :
        sum(s) = f[x] + sum(s \ {x}) /\ sum(s \cup T) = f[x] + sum((s \cup T) \ {x})
  BY <1>1, SumRemove
<1> HIDE DEF sum
<1>5. ASSUME NEW s \in SUBSET S, \A t \in SUBSET s : t # s => t \in A PROVE s \in A
  <2>1. CASE s = {}
    <3>1. s \cup T = T
      BY <2>1
    <3>2. QED
      BY <1>3, <2>1, <3>1
  <2>2. ASSUME NEW x \in s PROVE s \in A
    <3>1. s \ {x} \in A /\ s \ {x} \in SUBSET S /\ (s \cup T) \ {x} = (s \ {x}) \cup T
      BY <1>5, <2>2
    <3>2. sum((s \ {x}) \cup T) = sum(s \ {x}) + sum(T)
      BY <3>1
    <3>3. f[x] \in Int /\ sum(s \ {x}) \in Int
      BY <1>2, <3>1
    <3>4. sum(s) = f[x] + sum(s \ {x}) /\ sum(s \cup T) = f[x] + sum((s \ {x}) \cup T)
      <4>1. sum(s) = f[x] + sum(s \ {x}) /\ sum(s \cup T) = f[x] + sum((s \cup T) \ {x})
        BY <1>4
      <4>2. QED
        BY <3>1, <4>1
    <3>5. sum(s \cup T) = sum(s) + sum(T)
      BY <1>3, <3>2, <3>3, <3>4
    <3>6. QED
      BY <3>5
  <2>3. QED
    BY <2>1, <2>2
<1> HIDE DEF A
<1>6. S \in A
  BY <1>5, SubsetInduction
<1>7. QED
  BY <1>6 DEF A, sum

\* The terms under other names.
LEMMA SumRenamed ==
  ASSUME NEW S, IsFiniteSet(S), NEW f, \A x \in S : f[x] \in Int,
         NEW b, \A x, y \in S : b[x] = b[y] => x = y,
         NEW g, \A x \in S : g[b[x]] = f[x]
  PROVE  SumFunctionOnSet(g, {b[x] : x \in S}) = SumFunctionOnSet(f, S)
<1> DEFINE image(s) == {b[x] : x \in s}
           A == {s \in SUBSET S : SumFunctionOnSet(g, image(s)) = SumFunctionOnSet(f, s)}
<1>1. \A s \in SUBSET S : IsFiniteSet(s) /\ IsFiniteSet(image(s))
  <2>1. ASSUME NEW s \in SUBSET S PROVE IsFiniteSet(s) /\ IsFiniteSet(image(s))
    <3>1. IsFiniteSet(s)
      BY FS_Subset
    <3> DEFINE h == [x \in s |-> b[x]]
    <3>2. h \in Surjection(s, image(s))
      BY DEF Surjection
    <3> HIDE DEF h
    <3>3. QED
      BY <3>1, <3>2, FS_Surjection
  <2>2. QED
    BY <2>1
<1>2. ASSUME NEW s \in SUBSET S, \A t \in SUBSET s : t # s => t \in A PROVE s \in A
  <2>1. CASE s = {}
    <3>1. image(s) = {}
      BY <2>1
    <3>2. SumFunctionOnSet(f, s) = 0 /\ SumFunctionOnSet(g, image(s)) = 0
      BY <1>1, <2>1, <3>1, SumPick
    <3>3. QED
      BY <3>2
  <2>2. ASSUME NEW x \in s PROVE s \in A
    <3>1. s \ {x} \in A
      BY <1>2, <2>2
    <3>2. image(s) \ {b[x]} = image(s \ {x}) /\ b[x] \in image(s)
      OBVIOUS
    <3>3. \A y \in image(s) : g[y] \in Int
      OBVIOUS
    <3>4. SumFunctionOnSet(g, image(s)) = g[b[x]] + SumFunctionOnSet(g, image(s) \ {b[x]})
      BY <1>1, <3>2, <3>3, SumRemove
    <3>5. SumFunctionOnSet(f, s) = f[x] + SumFunctionOnSet(f, s \ {x})
      BY <1>1, SumRemove
    <3>6. SumFunctionOnSet(g, image(s) \ {b[x]}) = SumFunctionOnSet(f, s \ {x}) /\ g[b[x]] = f[x]
      BY <3>1, <3>2
    <3>7. SumFunctionOnSet(g, image(s)) = SumFunctionOnSet(f, s)
      BY <3>4, <3>5, <3>6
    <3> HIDE DEF image
    <3>8. QED
      BY <3>7
  <2>3. QED
    BY <2>1, <2>2
<1> HIDE DEF A
<1>3. S \in A
  BY <1>2, SubsetInduction
<1>4. QED
  BY <1>3 DEF A

\* Sums of the first numbers of a sequence.
LEMMA PrefixSums ==
  ASSUME NEW n \in Nat, NEW f, \A i \in 1..n : f[i] \in Nat
  PROVE  /\ \A m \in 0..n : SumFunctionOnSet(f, 1..m) \in Nat
         /\ SumFunctionOnSet(f, 1..0) = 0
         /\ \A m \in 1..n : SumFunctionOnSet(f, 1..m) = SumFunctionOnSet(f, 1..(m - 1)) + f[m]
         /\ \A k \in 0..n : \A m \in k..n : SumFunctionOnSet(f, 1..k) <= SumFunctionOnSet(f, 1..m)
<1>1. ASSUME NEW m \in 0..n PROVE IsFiniteSet(1..m) /\ SumFunctionOnSet(f, 1..m) \in Nat
  <2>1. IsFiniteSet(1..m) /\ \A i \in 1..m : f[i] \in Nat
    BY FiniteInterval
  <2> DEFINE A == 1..m
  <2>2. IsFiniteSet(A) /\ \A i \in A : f[i] \in Nat
    BY <2>1
  <2> HIDE DEF A
  <2>3. SumFunctionOnSet(f, A) \in Nat
    BY <2>2, SumNat
  <2>4. QED
    BY <2>1, <2>3 DEF A
<1>2. SumFunctionOnSet(f, 1..0) = 0
  <2>1. 1..0 = {}
    OBVIOUS
  <2>2. SumFunctionOnSet(f, {}) = 0
    BY SumZero, FS_EmptySet
  <2>3. QED
    BY <2>1, <2>2
<1>3. ASSUME NEW m \in 1..n PROVE SumFunctionOnSet(f, 1..m) = SumFunctionOnSet(f, 1..(m - 1)) + f[m]
  <2> DEFINE A == 1..m
  <2>1. m \in A /\ A \ {m} = 1..(m - 1) /\ \A i \in A : f[i] \in Int
    OBVIOUS
  <2>2. IsFiniteSet(A) /\ m - 1 \in 0..n
    BY <1>1
  <2> HIDE DEF A
  <2>3. SumFunctionOnSet(f, A) = f[m] + SumFunctionOnSet(f, A \ {m})
    BY <2>1, <2>2, SumRemove
  <2>4. PICK v : v = SumFunctionOnSet(f, 1..(m - 1))
    OBVIOUS
  <2>5. v \in Nat /\ f[m] \in Int
    BY <1>1, <2>1, <2>2, <2>4
  <2>6. SumFunctionOnSet(f, A) = f[m] + v
    BY <2>1, <2>3, <2>4
  <2>7. SumFunctionOnSet(f, A) = v + f[m]
    BY <2>5, <2>6
  <2>8. QED
    BY <2>4, <2>7 DEF A
<1>4. ASSUME NEW k \in 0..n, NEW m \in k..n PROVE SumFunctionOnSet(f, 1..k) <= SumFunctionOnSet(f, 1..m)
  <2> DEFINE A == {j \in Nat : k + j <= n => SumFunctionOnSet(f, 1..k) <= SumFunctionOnSet(f, 1..(k + j))}
  <2>1. 0 \in A
    BY <1>1
  <2>2. ASSUME NEW j \in Nat, j \in A PROVE j + 1 \in A
    <3> SUFFICES ASSUME k + (j + 1) <= n PROVE SumFunctionOnSet(f, 1..k) <= SumFunctionOnSet(f, 1..(k + (j + 1)))
      OBVIOUS
    <3>1. k + j \in 0..n /\ k + (j + 1) \in 1..n /\ (k + (j + 1)) - 1 = k + j
      OBVIOUS
    <3>2. SumFunctionOnSet(f, 1..(k + (j + 1))) = SumFunctionOnSet(f, 1..(k + j)) + f[k + (j + 1)]
      BY <1>3, <3>1
    <3>3. SumFunctionOnSet(f, 1..k) <= SumFunctionOnSet(f, 1..(k + j))
      BY <2>2, <3>1
    <3>4. SumFunctionOnSet(f, 1..k) \in Nat /\ SumFunctionOnSet(f, 1..(k + j)) \in Nat /\ f[k + (j + 1)] \in Nat
      BY <1>1, <3>1
    <3>5. QED
      BY <3>2, <3>3, <3>4
  <2>3. m - k \in Nat /\ k + (m - k) = m
    OBVIOUS
  <2> HIDE DEF A
  <2>4. \A j \in 0..(m - k) : j \in A
    BY <2>1, <2>2, <2>3, UpTo
  <2>5. m - k \in A
    BY <2>3, <2>4
  <2>6. QED
    BY <2>3, <2>5 DEF A
<1>5. QED
  BY <1>1, <1>2, <1>3, <1>4
\* The quantity of the orders of a queue, and of its first m.
Quantity(s) == SumFunction([i \in DOMAIN s |-> s[i].qty])
Upto(s, m) == Quantity(SubSeq(s, 1, m))

LEMMA QueueTotals ==
  ASSUME NEW S, NEW s \in Seq(S), \A i \in 1..Len(s) : s[i].qty \in Nat
  PROVE  /\ \A m \in 0..Len(s) : Upto(s, m) \in Nat
         /\ Upto(s, 0) = 0
         /\ \A m \in 1..Len(s) : Upto(s, m) = Upto(s, m - 1) + s[m].qty
         /\ \A k \in 0..Len(s) : \A m \in k..Len(s) : Upto(s, k) <= Upto(s, m)
         /\ Quantity(s) = Upto(s, Len(s))
<1> DEFINE n == Len(s)
           f == [i \in 1..n |-> s[i].qty]
<1>0. n \in Nat
  OBVIOUS
<1>1. \A i \in 1..n : f[i] \in Nat
  OBVIOUS
<1>2. ASSUME NEW m \in 0..n PROVE Upto(s, m) = SumFunctionOnSet(f, 1..m)
  <2> DEFINE p == SubSeq(s, 1, m)
             g == [i \in DOMAIN p |-> p[i].qty]
  <2>1. DOMAIN p = 1..m /\ \A i \in 1..m : p[i] = s[i]
    BY <1>0
  <2>2. IsFiniteSet(1..m) /\ \A i \in 1..m : i \in 1..n
    BY <1>0, FiniteInterval
  <2>3. \A i \in 1..m : g[i] = s[i].qty /\ f[i] = s[i].qty /\ g[i] \in Int /\ g[i] = f[i]
    BY <1>1, <2>1, <2>2
  <2>4. Upto(s, m) = SumFunctionOnSet(g, 1..m)
    <3>1. DOMAIN g = 1..m
      BY <2>1
    <3>2. QED
      BY <3>1 DEF Upto, Quantity, SumFunction
  <2> HIDE DEF g, f
  <2>5. QED
    BY <2>2, <2>3, <2>4, SumSame
<1>3. SubSeq(s, 1, n) = s
  BY <1>0
<1>4. \A m \in 1..n : m \in 0..n /\ m - 1 \in 0..n /\ f[m] = s[m].qty
  BY <1>0
<1> HIDE DEF f
<1>5. /\ \A m \in 0..n : SumFunctionOnSet(f, 1..m) \in Nat
      /\ SumFunctionOnSet(f, 1..0) = 0
      /\ \A m \in 1..n : SumFunctionOnSet(f, 1..m) = SumFunctionOnSet(f, 1..(m - 1)) + f[m]
      /\ \A k \in 0..n : \A m \in k..n : SumFunctionOnSet(f, 1..k) <= SumFunctionOnSet(f, 1..m)
  BY <1>0, <1>1, PrefixSums
<1>6. \A m \in 1..n : Upto(s, m) = Upto(s, m - 1) + s[m].qty
  BY <1>2, <1>4, <1>5
<1>7. 0 \in 0..n /\ \A k \in 0..n : \A m \in k..n : m \in 0..n
  BY <1>0
<1>8. Quantity(s) = Upto(s, Len(s))
  BY <1>3 DEF Upto
<1>9. \A m \in 0..n : Upto(s, m) \in Nat
  BY <1>2, <1>5
<1>10. Upto(s, 0) = 0
  BY <1>2, <1>5, <1>7
<1>11. \A k \in 0..n : \A m \in k..n : Upto(s, k) <= Upto(s, m)
  BY <1>2, <1>5, <1>7
<1>12. QED
  BY <1>6, <1>8, <1>9, <1>10, <1>11
=============================================================================
