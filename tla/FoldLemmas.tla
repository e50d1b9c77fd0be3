------------------------------- MODULE FoldLemmas -------------------------------
(***************************************************************************)
(* Lemmas for the proofs of the other modules: induction with a set in the *)
(* place of a property, and that the folds of the community modules, which *)
(* are defined with CHOOSE, have the values their equations give.          *)
(***************************************************************************)
EXTENDS Integers, SequencesExt, FiniteSetTheorems, FunctionTheorems, TLAPS

(* Induction with a set of numbers in the place of a property.             *)
THEOREM SetInduction ==
  ASSUME NEW A, 0 \in A, \A n \in Nat : n \in A => n + 1 \in A
  PROVE  Nat \subseteq A
<1> SUFFICES ASSUME NEW n \in Nat, n \notin A PROVE FALSE
  OBVIOUS
<1> DEFINE B == {k \in 0 .. n : k \notin A}
           C == B \ {n}
           pred == [k \in B |-> k - 1]
<1>1. IsFiniteSet(B)
  <2>1. IsFiniteSet(0 .. n)
    BY FS_Interval
  <2> QED
    BY <2>1, FS_Subset
<1>2. \A k \in B : k - 1 \in C
  <2> SUFFICES ASSUME NEW k \in B PROVE k - 1 \in C
    OBVIOUS
  <2>1. k \in Nat /\ k # 0 /\ k - 1 \in Nat /\ k - 1 < n
    OBVIOUS
  <2>2. k - 1 \notin A
    BY <2>1
  <2> QED
    BY <2>1, <2>2
<1>3. pred \in Injection(B, C)
  BY <1>2 DEF Injection, IsInjective
<1>4. IsFiniteSet(C) /\ Cardinality(C) = Cardinality(B) - 1
  <2>1. n \in B
    OBVIOUS
  <2> HIDE DEF B
  <2> QED
    BY <1>1, <2>1, FS_RemoveElement
<1>5. Cardinality(B) <= Cardinality(C)
  BY <1>3, <1>4, FS_Injection
<1> QED
  BY <1>1, <1>4, <1>5, FS_CardinalityType

(* A holds every subset of S that it holds without any of its elements.    *)
Inductive(A, S) ==
  \A T \in SUBSET S : (\A x \in T : T \ {x} \in A) => T \in A

(* Induction over the subsets of a finite set.                             *)
THEOREM SubsetInduction ==
  ASSUME NEW S, IsFiniteSet(S), NEW A, Inductive(A, S)
  PROVE  S \in A /\ SUBSET S \subseteq A
<1> DEFINE K == {k \in Nat : \A T \in SUBSET S : Cardinality(T) = k => T \in A}
<1>1. \A T \in SUBSET S : IsFiniteSet(T) /\ Cardinality(T) \in Nat
  BY FS_Subset, FS_CardinalityType
<1>2. 0 \in K
  <2>1. \A T \in SUBSET S : Cardinality(T) = 0 => T = {}
    BY <1>1, FS_EmptySet
  <2> QED
    BY <2>1 DEF Inductive
<1>3. \A k \in Nat : k \in K => k + 1 \in K
  <2> SUFFICES ASSUME NEW k \in Nat, k \in K,
                      NEW T \in SUBSET S, Cardinality(T) = k + 1
               PROVE  T \in A
    OBVIOUS
  <2>1. \A x \in T : Cardinality(T \ {x}) = k
    BY <1>1, FS_RemoveElement
  <2> QED
    BY <2>1 DEF Inductive
<1> HIDE DEF K
<1>4. Nat \subseteq K
  BY <1>2, <1>3, SetInduction
<1> QED
  BY <1>1, <1>4 DEF K

(* A recursion over the subsets of a finite set that takes one element     *)
(* after the other has a solution, and only one.                           *)
Solves(g, S, base, pick, comb) ==
  \A s \in SUBSET S :
    g[s] = IF s = {} THEN base ELSE comb[<<pick[s], g[s \ {pick[s]}]>>]

THEOREM FoldExists ==
  ASSUME NEW S, IsFiniteSet(S), NEW V, NEW base \in V, NEW comb \in [S \X V -> V],
         NEW pick, \A s \in SUBSET S : s # {} => pick[s] \in s
  PROVE  \E g \in [SUBSET S -> V] : Solves(g, S, base, pick, comb)
<1> DEFINE Upto(k) == {s \in SUBSET S : Cardinality(s) <= k}
           K == {k \in Nat : \E g \in [Upto(k) -> V] : \A s \in Upto(k) :
                   g[s] = IF s = {} THEN base ELSE comb[<<pick[s], g[s \ {pick[s]}]>>]}
<1>1. \A T \in SUBSET S : IsFiniteSet(T) /\ Cardinality(T) \in Nat /\ Cardinality(T) <= Cardinality(S)
  BY FS_Subset, FS_CardinalityType
<1>2. 0 \in K
  <2> DEFINE g == [s \in Upto(0) |-> base]
  <2>1. \A s \in Upto(0) : s = {}
    BY <1>1, FS_EmptySet
  <2>2. g \in [Upto(0) -> V]
    OBVIOUS
  <2> QED
    BY <2>1, <2>2
<1>3. \A k \in Nat : k \in K => k + 1 \in K
  <2> SUFFICES ASSUME NEW k \in Nat, k \in K PROVE k + 1 \in K
    OBVIOUS
  <2>1. PICK g \in [Upto(k) -> V] : \A s \in Upto(k) :
                   g[s] = IF s = {} THEN base ELSE comb[<<pick[s], g[s \ {pick[s]}]>>]
    OBVIOUS
  <2> DEFINE h == [s \in Upto(k + 1) |-> IF s = {} THEN base ELSE comb[<<pick[s], g[s \ {pick[s]}]>>]]
  <2>2. \A s \in Upto(k + 1) : s # {} => pick[s] \in s /\ s \ {pick[s]} \in Upto(k)
    BY <1>1, FS_RemoveElement
  <2>3. h \in [Upto(k + 1) -> V]
    BY <2>2
  <2>4. \A s \in Upto(k) : s \in Upto(k + 1) /\ h[s] = g[s]
    BY <1>1, <2>1
  <2>5. \A s \in Upto(k + 1) :
                   h[s] = IF s = {} THEN base ELSE comb[<<pick[s], h[s \ {pick[s]}]>>]
    BY <2>2, <2>4
  <2>6. \E f \in [Upto(k + 1) -> V] : \A s \in Upto(k + 1) :
                   f[s] = IF s = {} THEN base ELSE comb[<<pick[s], f[s \ {pick[s]}]>>]
    <3> HIDE DEF h, Upto
    <3> QED
      BY <2>3, <2>5
  <2>7. k + 1 \in Nat
    OBVIOUS
  <2> HIDE DEF h, Upto
  <2> QED
    BY <2>6, <2>7, Zenon
<1> HIDE DEF K
<1>4. Cardinality(S) \in K
  BY <1>1, <1>2, <1>3, SetInduction
<1>5. Upto(Cardinality(S)) = SUBSET S
  BY <1>1
<1> QED
  BY <1>4, <1>5 DEF K, Solves


(* A finite set of integers that is not empty has a least and a greatest   *)
(* element.                                                                *)
THEOREM Extremes ==
  ASSUME NEW S \in SUBSET Int, IsFiniteSet(S), S # {}
  PROVE  /\ Min(S) \in S /\ \A y \in S : Min(S) <= y
         /\ Max(S) \in S /\ \A y \in S : Max(S) >= y
<1> DEFINE A == {T \in SUBSET S : T # {} => /\ \E x \in T : \A y \in T : x <= y
                                          /\ \E x \in T : \A y \in T : x >= y}
<1>1. Inductive(A, S)
  <2> SUFFICES ASSUME NEW T \in SUBSET S, \A x \in T : T \ {x} \in A, T # {}
               PROVE  T \in A
    BY DEF Inductive
  <2> PICK z \in T : TRUE
    OBVIOUS
  <2>1. CASE T \ {z} = {}
    BY <2>1
  <2>2. CASE T \ {z} # {}
    <3>1. PICK lo \in T \ {z} : \A y \in T \ {z} : lo <= y
      BY <2>2
    <3>2. PICK hi \in T \ {z} : \A y \in T \ {z} : hi >= y
      BY <2>2
    <3>3. \E x \in T : \A y \in T : x <= y
      <4>1. CASE lo <= z
        BY <4>1, <3>1
      <4>2. CASE ~(lo <= z)
        BY <4>2, <3>1
      <4> QED
        BY <4>1, <4>2
    <3>4. \E x \in T : \A y \in T : x >= y
      <4>1. CASE hi >= z
        BY <4>1, <3>2
      <4>2. CASE ~(hi >= z)
        BY <4>2, <3>2
      <4> QED
        BY <4>1, <4>2
    <3> QED
      BY <3>3, <3>4
  <2> QED
    BY <2>1, <2>2
<1>2. S \in A
  <2> HIDE DEF A
  <2> QED
    BY <1>1, SubsetInduction
<1> QED
  BY <1>2 DEF Min, Max

-----------------------------------------------------------------------------
(* SumFunctionOnSet as the solution of its recursion.                      *)
SumStep(h, f, S) ==
  h = [s \in SUBSET S |-> IF s = {} THEN 0
                          ELSE LET x == CHOOSE x \in s : TRUE
                               IN  f[x] + h[s \ {x}]]

LEMMA SumSolution ==
  ASSUME NEW S, IsFiniteSet(S), NEW f, \A x \in S : f[x] \in Nat
  PROVE  \E h : /\ h \in [SUBSET S -> Nat]
               /\ SumStep(h, f, S)
               /\ SumFunctionOnSet(f, S) = h[S]
<1> DEFINE comb == [p \in S \X Nat |-> f[p[1]] + p[2]]
           pick == [s \in SUBSET S |-> CHOOSE x \in s : TRUE]
           it == CHOOSE h : SumStep(h, f, S)
<1>1. comb \in [S \X Nat -> Nat]
  OBVIOUS
<1>2. \A s \in SUBSET S : s # {} => pick[s] \in s
  OBVIOUS
<1>3. PICK g \in [SUBSET S -> Nat] : Solves(g, S, 0, pick, comb)
  <2> HIDE DEF pick, comb
  <2> QED
    BY <1>1, <1>2, FoldExists
<1>4. SumStep(g, f, S)
  <2>1. \A s \in SUBSET S : s # {} => g[s] = f[pick[s]] + g[s \ {pick[s]}]
    <3> SUFFICES ASSUME NEW s \in SUBSET S, s # {}
                 PROVE  g[s] = f[pick[s]] + g[s \ {pick[s]}]
      OBVIOUS
    <3> HIDE DEF pick
    <3>1. pick[s] \in S /\ s \ {pick[s]} \in SUBSET S
      BY <1>2
    <3>2. <<pick[s], g[s \ {pick[s]}]>> \in S \X Nat
      BY <3>1
    <3>3. comb[<<pick[s], g[s \ {pick[s]}]>>] = f[pick[s]] + g[s \ {pick[s]}]
      BY <3>2
    <3> HIDE DEF comb
    <3> QED
      BY <1>3, <3>3 DEF Solves
  <2>2. \A s \in SUBSET S : s # {} => pick[s] = CHOOSE x \in s : TRUE
    OBVIOUS
  <2>3. \A s \in SUBSET S : g[s] = IF s = {} THEN 0
                          ELSE LET x == CHOOSE x \in s : TRUE
                               IN  f[x] + g[s \ {x}]
    <3> HIDE DEF pick, comb
    <3> QED
      BY <1>3, <2>1, <2>2 DEF Solves
  <2> QED
    BY <2>3 DEF SumStep
<1>5. SumStep(it, f, S)
  <2> HIDE DEF it
  <2> QED
    BY <1>4 DEF it
<1>6. SumFunctionOnSet(f, S) = it[S]
  BY DEF SumFunctionOnSet, FoldFunctionOnSet, MapThenFoldSet, SumStep
<1>7. SUBSET S \subseteq {s \in SUBSET S : it[s] = g[s]}
  <2> DEFINE A == {s \in SUBSET S : it[s] = g[s]}
  <2> HIDE DEF it
  <2>1. Inductive(A, S)
    BY <1>4, <1>5 DEF SumStep, Inductive
  <2> HIDE DEF A
  <2> QED
    BY <2>1, SubsetInduction DEF A
<1>8. it = g
  <2> HIDE DEF it
  <2> QED
    BY <1>4, <1>5, <1>7 DEF SumStep
<1> QED
  BY <1>3, <1>4, <1>6, <1>8

(* A sum over a set is the summand of any of its elements and the sum over *)
(* the others, in whatever order they are taken.                           *)
THEOREM SumRecursion ==
  ASSUME NEW S, IsFiniteSet(S), NEW f, \A x \in S : f[x] \in Nat
  PROVE  /\ SumFunctionOnSet(f, S) \in Nat
         /\ S = {} => SumFunctionOnSet(f, S) = 0
         /\ \A x \in S : SumFunctionOnSet(f, S) = f[x] + SumFunctionOnSet(f, S \ {x})
<1>1. PICK h \in [SUBSET S -> Nat] : SumStep(h, f, S) /\ SumFunctionOnSet(f, S) = h[S]
  BY SumSolution
<1>2. \A s \in SUBSET S : SumFunctionOnSet(f, s) = h[s]
  <2> SUFFICES ASSUME NEW T \in SUBSET S
               PROVE  SumFunctionOnSet(f, T) = h[T]
    OBVIOUS
  <2>1. IsFiniteSet(T)
    BY FS_Subset
  <2>2. PICK g \in [SUBSET T -> Nat] : SumStep(g, f, T) /\ SumFunctionOnSet(f, T) = g[T]
    BY <2>1, SumSolution
  <2> DEFINE A == {s \in SUBSET T : g[s] = h[s]}
  <2>3. Inductive(A, T)
    <3> SUFFICES ASSUME NEW s \in SUBSET T, \A x \in s : s \ {x} \in A
                 PROVE  g[s] = h[s]
      BY DEF Inductive
    <3> DEFINE p == CHOOSE x \in s : TRUE
    <3>1. g[s] = IF s = {} THEN 0 ELSE f[p] + g[s \ {p}]
      BY <2>2 DEF SumStep
    <3>2. s \in SUBSET S /\ h[s] = IF s = {} THEN 0 ELSE f[p] + h[s \ {p}]
      BY <1>1 DEF SumStep
    <3>3. s # {} => p \in s
      OBVIOUS
    <3> HIDE DEF p
    <3> QED
      BY <3>1, <3>2, <3>3
  <2>4. T \in A
    <3> HIDE DEF A
    <3> QED
      BY <2>1, <2>3, SubsetInduction
  <2> QED
    BY <2>2, <2>4
<1> DEFINE A == {s \in SUBSET S : \A x \in s : h[s] = f[x] + h[s \ {x}]}
<1>3. Inductive(A, S)
  <2> SUFFICES ASSUME NEW s \in SUBSET S, \A x \in s : s \ {x} \in A,
                      NEW x \in s
               PROVE  h[s] = f[x] + h[s \ {x}]
    BY DEF Inductive
  <2> DEFINE p == CHOOSE y \in s : TRUE
  <2>1. p \in s /\ h[s] = f[p] + h[s \ {p}]
    BY <1>1 DEF SumStep
  <2> HIDE DEF p
  <2>2. CASE x = p
    BY <2>1, <2>2
  <2>3. CASE x # p
    <3>1. h[s \ {p}] = f[x] + h[(s \ {p}) \ {x}]
      BY <2>1, <2>3
    <3>2. h[s \ {x}] = f[p] + h[(s \ {x}) \ {p}]
      BY <2>1, <2>3
    <3>3. (s \ {p}) \ {x} = (s \ {x}) \ {p} /\ (s \ {p}) \ {x} \in SUBSET S
      OBVIOUS
    <3>4. h[(s \ {p}) \ {x}] \in Nat /\ f[x] \in Nat /\ f[p] \in Nat
      BY <2>1, <3>3
    <3> DEFINE rest == h[(s \ {p}) \ {x}]
    <3>5. h[s] = f[p] + (f[x] + rest) /\ h[s \ {x}] = f[p] + rest /\ rest \in Nat
      BY <2>1, <3>1, <3>2, <3>3, <3>4
    <3> HIDE DEF rest
    <3> QED
      BY <3>4, <3>5
  <2> QED
    BY <2>2, <2>3
<1>4. S \in A
  <2> HIDE DEF A
  <2> QED
    BY <1>3, SubsetInduction
<1>5. SumFunctionOnSet(f, S) = h[S] /\ \A x \in S : SumFunctionOnSet(f, S \ {x}) = h[S \ {x}]
  BY <1>2
<1>6. h[S] \in Nat /\ (S = {} => h[S] = 0)
  BY <1>1 DEF SumStep
<1> QED
  BY <1>4, <1>5, <1>6

(* A sum over a set depends on the summands of its elements only.          *)
THEOREM SumSame ==
  ASSUME NEW S, IsFiniteSet(S), NEW f, NEW g,
         \A x \in S : f[x] \in Nat /\ g[x] = f[x]
  PROVE  SumFunctionOnSet(f, S) = SumFunctionOnSet(g, S)
<1> DEFINE A == {s \in SUBSET S : SumFunctionOnSet(f, s) = SumFunctionOnSet(g, s)}
<1>1. Inductive(A, S)
  <2> SUFFICES ASSUME NEW s \in SUBSET S, \A x \in s : s \ {x} \in A
               PROVE  SumFunctionOnSet(f, s) = SumFunctionOnSet(g, s)
    BY DEF Inductive
  <2>1. IsFiniteSet(s)
    BY FS_Subset
  <2>2. CASE s = {}
    BY <2>1, <2>2, SumRecursion
  <2>3. ASSUME NEW x \in s PROVE SumFunctionOnSet(f, s) = SumFunctionOnSet(g, s)
    <3>1. SumFunctionOnSet(f, s \ {x}) = SumFunctionOnSet(g, s \ {x})
      OBVIOUS
    <3>2. SumFunctionOnSet(f, s) = f[x] + SumFunctionOnSet(f, s \ {x})
      BY <2>1, SumRecursion
    <3>3. SumFunctionOnSet(g, s) = g[x] + SumFunctionOnSet(g, s \ {x})
      <4>1. \A y \in s : g[y] \in Nat
        OBVIOUS
      <4> QED
        BY <4>1, <2>1, SumRecursion
    <3> QED
      BY <3>1, <3>2, <3>3
  <2> QED
    BY <2>2, <2>3
<1> HIDE DEF A
<1>2. S \in A
  BY <1>1, SubsetInduction
<1> QED
  BY <1>2 DEF A

(* One summand is added or replaced.                                       *)
THEOREM SumChanged ==
  ASSUME NEW S, IsFiniteSet(S), NEW f, \A x \in S : f[x] \in Nat,
         NEW y, NEW g, g[y] \in Nat, \A x \in S \ {y} : g[x] = f[x]
  PROVE  SumFunctionOnSet(g, S \union {y}) =
           SumFunctionOnSet(f, S) + g[y] - IF y \in S THEN f[y] ELSE 0
<1> DEFINE T == S \union {y}
           R == S \ {y}
<1>1. IsFiniteSet(T) /\ IsFiniteSet(R)
  BY FS_AddElement, FS_RemoveElement, FS_Subset
<1>2. \A x \in T : g[x] \in Nat
  OBVIOUS
<1>3. SumFunctionOnSet(g, T) = g[y] + SumFunctionOnSet(g, T \ {y})
  <2>1. y \in T
    OBVIOUS
  <2> HIDE DEF T
  <2> QED
    BY <1>1, <1>2, <2>1, SumRecursion
<1>4. T \ {y} = R
  OBVIOUS
<1>5. SumFunctionOnSet(f, R) = SumFunctionOnSet(g, R)
  <2>1. \A x \in R : f[x] \in Nat /\ g[x] = f[x]
    OBVIOUS
  <2> HIDE DEF R
  <2> QED
    BY <1>1, <2>1, SumSame
<1>6. SumFunctionOnSet(f, R) \in Nat /\ SumFunctionOnSet(f, S) \in Nat
  <2>1. \A x \in R : f[x] \in Nat
    OBVIOUS
  <2> HIDE DEF R
  <2> QED
    BY <1>1, <2>1, SumRecursion
<1>7. y \in S => SumFunctionOnSet(f, S) = f[y] + SumFunctionOnSet(f, R)
  BY SumRecursion
<1>8. y \notin S => R = S
  OBVIOUS
<1> HIDE DEF T, R
<1>9. SumFunctionOnSet(g, T) = SumFunctionOnSet(f, S) + g[y] - IF y \in S THEN f[y] ELSE 0
  <2>1. CASE y \in S
    BY <1>3, <1>4, <1>5, <1>6, <1>7, <2>1
  <2>2. CASE y \notin S
    <3>1. SumFunctionOnSet(g, T \ {y}) = SumFunctionOnSet(f, S)
      BY <1>4, <1>5, <1>8, <2>2
    <3> QED
      BY <1>3, <1>6, <2>2, <3>1
  <2> QED
    BY <2>1, <2>2
<1> QED
  BY <1>9 DEF T

-----------------------------------------------------------------------------
(* Folds from left to right: of a set of positions the last is split off.  *)
LastOf(S) == [s \in SUBSET S |-> Max(s)]

(* A part of the numbers, each of them at most as large, adds up to less.  *)
THEOREM SumAtMost ==
  ASSUME NEW S, IsFiniteSet(S), NEW f, \A x \in S : f[x] \in Nat,
         NEW T \in SUBSET S, NEW g, \A x \in T : g[x] \in Nat /\ g[x] <= f[x]
  PROVE  SumFunctionOnSet(g, T) <= SumFunctionOnSet(f, S)
<1> DEFINE A == {s \in SUBSET S : SumFunctionOnSet(g, s \cap T) <= SumFunctionOnSet(f, s)}
<1>1. Inductive(A, S)
  <2> SUFFICES ASSUME NEW s \in SUBSET S, \A x \in s : s \ {x} \in A
               PROVE  SumFunctionOnSet(g, s \cap T) <= SumFunctionOnSet(f, s)
    BY DEF Inductive
  <2>1. IsFiniteSet(s) /\ IsFiniteSet(s \cap T)
    BY FS_Subset
  <2>2. (\A x \in s : f[x] \in Nat) /\ \A x \in s \cap T : g[x] \in Nat
    OBVIOUS
  <2>3. CASE s = {}
    <3>1. s \cap T = {}
      BY <2>3
    <3>2. SumFunctionOnSet(f, s) = 0
      BY <2>1, <2>2, <2>3, SumRecursion
    <3>3. SumFunctionOnSet(g, s \cap T) = 0
      BY <2>1, <2>2, <3>1, SumRecursion
    <3> QED
      BY <3>2, <3>3
  <2>4. CASE s # {}
    <3>1. PICK y \in s : TRUE
      BY <2>4
    <3> DEFINE r == s \ {y}
    <3>2. SumFunctionOnSet(g, r \cap T) <= SumFunctionOnSet(f, r)
      OBVIOUS
    <3>3. SumFunctionOnSet(f, s) = f[y] + SumFunctionOnSet(f, r) /\ f[y] \in Nat
      BY <2>1, <2>2, SumRecursion
    <3>4. SumFunctionOnSet(f, r) \in Nat /\ SumFunctionOnSet(g, r \cap T) \in Nat
      <4>1. IsFiniteSet(r) /\ IsFiniteSet(r \cap T)
        BY <2>1, FS_Subset
      <4>2. (\A x \in r : f[x] \in Nat) /\ \A x \in r \cap T : g[x] \in Nat
        BY <2>2
      <4> HIDE DEF r
      <4>3. SumFunctionOnSet(f, r) \in Nat
        BY <4>1, <4>2, SumRecursion
      <4>4. SumFunctionOnSet(g, r \cap T) \in Nat
        BY <4>1, <4>2, SumRecursion
      <4> QED
        BY <4>3, <4>4
    <3>5. CASE y \in T
      <4>1. (s \cap T) \ {y} = r \cap T /\ y \in s \cap T
        BY <3>5
      <4>2. SumFunctionOnSet(g, s \cap T) = g[y] + SumFunctionOnSet(g, (s \cap T) \ {y})
        BY <2>1, <2>2, <4>1, SumRecursion
      <4>3. g[y] \in Nat /\ g[y] <= f[y]
        BY <3>5
      <4> HIDE DEF r
      <4> QED
        BY <3>2, <3>3, <3>4, <4>1, <4>2, <4>3
    <3>6. CASE y \notin T
      <4>1. s \cap T = r \cap T
        BY <3>6
      <4> HIDE DEF r
      <4>2. SumFunctionOnSet(g, s \cap T) = SumFunctionOnSet(g, r \cap T)
        BY <4>1
      <4> QED
        BY <3>2, <3>3, <3>4, <4>2
    <3> QED
      BY <3>5, <3>6
  <2> QED
    BY <2>3, <2>4
<1> HIDE DEF A
<1>2. S \in A
  BY <1>1, SubsetInduction
<1>3. S \cap T = T
  OBVIOUS
<1> QED
  BY <1>2, <1>3 DEF A

(* The same with one number changed, or added, and others raised.          *)
THEOREM SumRaised ==
  ASSUME NEW S, IsFiniteSet(S), NEW f, \A x \in S : f[x] \in Nat,
         NEW y, NEW g, g[y] \in Nat,
         \A x \in S \ {y} : g[x] \in Nat /\ f[x] <= g[x]
  PROVE  SumFunctionOnSet(g, S \union {y}) >=
           SumFunctionOnSet(f, S) + g[y] - IF y \in S THEN f[y] ELSE 0
<1> DEFINE T == S \union {y}
           h == [x \in T |-> IF x = y THEN g[y] ELSE f[x]]
<1>1. h[y] = g[y] /\ h[y] \in Nat /\ \A x \in S \ {y} : h[x] = f[x]
  OBVIOUS
<1>2. \A x \in T : h[x] \in Nat /\ h[x] <= g[x] /\ g[x] \in Nat
  OBVIOUS
<1>3. IsFiniteSet(T)
  BY FS_AddElement
<1> HIDE DEF h
<1> HIDE DEF T
<1>4. SumFunctionOnSet(h, S \union {y}) =
        SumFunctionOnSet(f, S) + h[y] - IF y \in S THEN f[y] ELSE 0
  <2>1. IsFiniteSet(S) /\ (\A x \in S : f[x] \in Nat) /\ h[y] \in Nat
        /\ \A x \in S \ {y} : h[x] = f[x]
    BY <1>1
  <2> QED
    BY ONLY <2>1, SumChanged
<1>5. SumFunctionOnSet(h, T) <= SumFunctionOnSet(g, T)
  BY <1>2, <1>3, SumAtMost
<1>6. SumFunctionOnSet(h, T) \in Nat /\ SumFunctionOnSet(g, T) \in Nat
  <2>1. SumFunctionOnSet(h, T) \in Nat
    BY <1>2, <1>3, SumRecursion
  <2>2. SumFunctionOnSet(g, T) \in Nat
    BY <1>2, <1>3, SumRecursion
  <2> QED
    BY <2>1, <2>2
<1>7. SumFunctionOnSet(f, S) \in Nat /\ (y \in S => f[y] \in Nat)
  BY SumRecursion
<1> QED
  BY <1>1, <1>4, <1>5, <1>6, <1>7 DEF T

LEMMA LastPosition ==
  ASSUME NEW n \in Nat
  PROVE  /\ IsFiniteSet(1 .. n)
         /\ \A s \in SUBSET (1 .. n) : s # {} => Max(s) \in s
         /\ \A k \in 1 .. n : Max(1 .. k) = k /\ (1 .. k) \ {k} = 1 .. (k - 1)
<1>1. IsFiniteSet(1 .. n)
  BY FS_Interval
<1>2. ASSUME NEW s \in SUBSET (1 .. n), s # {}
      PROVE  Max(s) \in s /\ \A y \in s : Max(s) >= y
  <2>1. IsFiniteSet(s)
    BY <1>1, FS_Subset
  <2>2. s \in SUBSET Int
    OBVIOUS
  <2> QED
    BY <1>2, <2>1, <2>2, Extremes
<1>3. ASSUME NEW k \in 1 .. n PROVE Max(1 .. k) = k
  <2> DEFINE m == Max(1 .. k)
  <2>1. 1 .. k \in SUBSET (1 .. n) /\ 1 .. k # {} /\ k \in 1 .. k
    OBVIOUS
  <2>2. m \in 1 .. k /\ m >= k
    BY <1>2, <2>1
  <2> HIDE DEF m
  <2>3. m = k
    BY <2>2
  <2> QED
    BY <2>3 DEF m
<1> QED
  BY <1>1, <1>2, <1>3

(* A recursion from the left has a solution, whose values on the initial   *)
(* segments come about one from the other.                                 *)
LeftSolves(g, S, V, base, comb) ==
  /\ g \in [SUBSET S -> V]
  /\ Solves(g, S, base, LastOf(S), comb)
  /\ g[{}] = base
  /\ \A k \in S : g[1 .. k] = comb[<<k, g[1 .. (k - 1)]>>]

THEOREM LeftFoldExists ==
  ASSUME NEW n \in Nat, NEW S, S = 1 .. n,
         NEW V, NEW base \in V, NEW comb \in [S \X V -> V]
  PROVE  \E g : LeftSolves(g, S, V, base, comb)
<1> DEFINE pick == LastOf(S)
<1>1. \A s \in SUBSET S : pick[s] = Max(s)
  BY DEF LastOf
<1>2. IsFiniteSet(S) /\ \A s \in SUBSET S : s # {} => pick[s] \in s
  BY <1>1, LastPosition
<1>3. \A k \in S : /\ 1 .. k \in SUBSET S /\ 1 .. k # {}
                   /\ pick[1 .. k] = k /\ (1 .. k) \ {k} = 1 .. (k - 1)
  <2> HIDE DEF pick
  <2> SUFFICES ASSUME NEW k \in 1 .. n
               PROVE  /\ 1 .. k \in SUBSET S /\ 1 .. k # {}
                      /\ pick[1 .. k] = k /\ (1 .. k) \ {k} = 1 .. (k - 1)
    OBVIOUS
  <2>1. 1 .. k \in SUBSET S /\ k \in 1 .. k
    OBVIOUS
  <2>2. Max(1 .. k) = k /\ (1 .. k) \ {k} = 1 .. (k - 1)
    BY LastPosition
  <2> QED
    BY <1>1, <2>1, <2>2
<1> HIDE DEF pick
<1>4. PICK g \in [SUBSET S -> V] : Solves(g, S, base, pick, comb)
  BY <1>2, FoldExists
<1>5. g[{}] = base /\ \A k \in S : g[1 .. k] = comb[<<k, g[1 .. (k - 1)]>>]
  <2>1. g[{}] = base
    BY <1>4 DEF Solves
  <2>2. ASSUME NEW k \in S PROVE g[1 .. k] = comb[<<k, g[1 .. (k - 1)]>>]
    <3> DEFINE t == 1 .. k
    <3>1. t \in SUBSET S /\ t # {} /\ pick[t] = k /\ t \ {k} = 1 .. (k - 1)
      BY <1>3
    <3> HIDE DEF t
    <3>2. g[t] = comb[<<k, g[t \ {k}]>>]
      BY <3>1, <1>4 DEF Solves
    <3> QED
      BY <3>1, <3>2 DEF t
  <2> QED
    BY <2>1, <2>2
<1> QED
  BY <1>4, <1>5 DEF pick, LeftSolves

(* Induction along the initial segments.                                   *)
THEOREM SegmentInduction ==
  ASSUME NEW n \in Nat, NEW A, 0 \in A, \A k \in 1 .. n : k - 1 \in A => k \in A
  PROVE  n \in A
<1> DEFINE B == {k \in Nat : k <= n => k \in A}
<1>1. 0 \in B /\ \A k \in Nat : k \in B => k + 1 \in B
  <2> SUFFICES ASSUME NEW k \in Nat, k \in B, k + 1 <= n PROVE k + 1 \in A
    OBVIOUS
  <2>1. k + 1 \in 1 .. n /\ (k + 1) - 1 = k /\ k \in A
    OBVIOUS
  <2> QED
    BY <2>1
<1> HIDE DEF B
<1>2. n \in B
  BY <1>1, SetInduction
<1> QED
  BY <1>2 DEF B

-----------------------------------------------------------------------------
(* Two sequences of values that go on in the same way are the same.        *)
LEMMA SameRecursion ==
  ASSUME NEW n \in Nat, NEW h, NEW j, NEW step, h[0] = j[0],
         \A k \in Nat : k < n => h[k + 1] = step[h[k]] /\ j[k + 1] = step[j[k]]
  PROVE  h[n] = j[n]
<1> DEFINE A == {m \in Nat : m <= n => h[m] = j[m]}
<1>1. 0 \in A /\ \A m \in Nat : m \in A => m + 1 \in A
  OBVIOUS
<1> HIDE DEF A
<1>2. n \in A
  BY <1>1, SetInduction
<1> QED
  BY <1>2 DEF A

(* Recursion over the natural numbers: every next value is a function of   *)
(* the one before it.                                                      *)
GoesOn(g, V, base, step) ==
  g \in [Nat -> V] /\ g[0] = base /\ \A n \in Nat : g[n + 1] = step[g[n]]

THEOREM NatRecursion ==
  ASSUME NEW V, NEW base \in V, NEW step \in [V -> V]
  PROVE  \E g : GoesOn(g, V, base, step)
<1> DEFINE Rec(h, n) == h[0] = base /\ \A k \in Nat : k < n => h[k + 1] = step[h[k]]
           K == {n \in Nat : \E h \in [0 .. n -> V] : Rec(h, n)}
<1>1. 0 \in K
  <2> DEFINE h == [k \in 0 .. 0 |-> base]
  <2>1. h \in [0 .. 0 -> V] /\ h[0] = base /\ \A k \in Nat : ~(k < 0)
    OBVIOUS
  <2> HIDE DEF h
  <2> QED
    BY <2>1
<1>2. \A n \in Nat : n \in K => n + 1 \in K
  <2> SUFFICES ASSUME NEW n \in Nat, NEW h \in [0 .. n -> V], Rec(h, n) PROVE n + 1 \in K
    OBVIOUS
  <2> DEFINE j == [k \in 0 .. n + 1 |-> IF k = n + 1 THEN step[h[n]] ELSE h[k]]
  <2>1. /\ j \in [0 .. n + 1 -> V]
        /\ j[n + 1] = step[h[n]] /\ \A k \in 0 .. n : j[k] = h[k]
    OBVIOUS
  <2> HIDE DEF j
  <2>2. j[0] = base
    BY <2>1
  <2>3. \A k \in Nat : k < n + 1 => j[k + 1] = step[j[k]]
    <3> SUFFICES ASSUME NEW k \in Nat, k < n + 1 PROVE j[k + 1] = step[j[k]]
      OBVIOUS
    <3>1. CASE k = n
      BY <2>1, <3>1
    <3>2. CASE k # n
      BY <2>1, <3>2
    <3> QED
      BY <3>1, <3>2
  <2> QED
    BY <2>1, <2>2, <2>3
<1>3. \A n \in Nat : \E h \in [0 .. n -> V] : Rec(h, n)
  <2> HIDE DEF K
  <2>1. Nat \subseteq K
    BY <1>1, <1>2, SetInduction
  <2> QED
    BY <2>1 DEF K
<1> DEFINE pick == [n \in Nat |-> CHOOSE h \in [0 .. n -> V] : Rec(h, n)]
           g == [n \in Nat |-> pick[n][n]]
<1>4. \A n \in Nat : pick[n] \in [0 .. n -> V] /\ Rec(pick[n], n)
  <2> SUFFICES ASSUME NEW n \in Nat PROVE pick[n] \in [0 .. n -> V] /\ Rec(pick[n], n)
    OBVIOUS
  <2>1. \E h \in [0 .. n -> V] : Rec(h, n)
    BY <1>3
  <2> HIDE DEF Rec
  <2>2. pick[n] = CHOOSE h \in [0 .. n -> V] : Rec(h, n)
    OBVIOUS
  <2> HIDE DEF pick
  <2> QED
    BY <2>1, <2>2
<1> HIDE DEF pick
<1>5. g \in [Nat -> V] /\ \A n \in Nat : g[n] = pick[n][n]
  BY <1>4
<1> HIDE DEF g
<1>6. g[0] = base
  BY <1>4, <1>5
<1>7. ASSUME NEW n \in Nat PROVE g[n + 1] = step[g[n]]
  <2>1. n + 1 \in Nat /\ n < n + 1 /\ n <= n /\ n <= n + 1
    OBVIOUS
  <2>2. pick[n + 1][n + 1] = step[pick[n + 1][n]]
    BY <1>4, <2>1
  <2>3. pick[n + 1][n] = pick[n][n]
    <3> DEFINE h == pick[n + 1]
               j == pick[n]
    <3>1. h[0] = j[0] /\ \A k \in Nat : k < n => h[k + 1] = step[h[k]] /\ j[k + 1] = step[j[k]]
      BY <1>4, <2>1
    <3> HIDE DEF h, j
    <3>2. h[n] = j[n]
      BY <3>1, SameRecursion
    <3> QED
      BY <3>2 DEF h, j
  <2> QED
    BY <1>5, <2>1, <2>2, <2>3
<1> QED
  BY <1>5, <1>6, <1>7 DEF GoesOn

=============================================================================
