-------------------------- MODULE DiskBufferProofs --------------------------
(***************************************************************************)
(* What holds of the disk buffer for every number of lines, every size of  *)
(* lines, segments and quota, and any number of faults and restarts.       *)
(***************************************************************************)
EXTENDS DiskBuffer, FoldLemmas, SequenceTheorems

(* Concatenated as the solution of its recursion.                          *)
ConcatenationStep(h, f, S) ==
  h = [s \in SUBSET S |-> IF s = {} THEN <<>> ELSE f[Min(s)] \o h[s \ {Min(s)}]]

LEMMA LeastNumbers ==
  ASSUME NEW S \in SUBSET Nat, IsFiniteSet(S)
  PROVE  \A s \in SUBSET S : s # {} => Min(s) \in s /\ \A n \in s : Min(s) <= n
<1> SUFFICES ASSUME NEW s \in SUBSET S, s # {}
             PROVE  Min(s) \in s /\ \A n \in s : Min(s) <= n
  OBVIOUS
<1>1. s \in SUBSET Int
  OBVIOUS
<1>2. IsFiniteSet(s)
  BY FS_Subset
<1> QED
  BY <1>1, <1>2, Extremes

LEMMA LeastIs ==
  ASSUME NEW S \in SUBSET Nat, NEW m \in S, \A n \in S : m <= n
  PROVE  Min(S) = m
<1>1. Min(S) \in S /\ \A n \in S : Min(S) <= n
  BY DEF Min
<1>2. Min(S) <= m /\ m <= Min(S) /\ m \in Nat /\ Min(S) \in Nat
  BY <1>1
<1> QED
  BY <1>2

LEMMA ConcatenationSolution ==
  ASSUME NEW S \in SUBSET Nat, IsFiniteSet(S), NEW X, NEW f,
         \A n \in S : f[n] \in Seq(X)
  PROVE  \E h : /\ h \in [SUBSET S -> Seq(X)]
               /\ ConcatenationStep(h, f, S)
               /\ Concatenated(f, S) = h[S]
<1> DEFINE comb == [p \in S \X Seq(X) |-> f[p[1]] \o p[2]]
           pick == [s \in SUBSET S |-> Min(s)]
           it == CHOOSE h : ConcatenationStep(h, f, S)
<1>1. comb \in [S \X Seq(X) -> Seq(X)]
  BY ConcatProperties
<1>2. \A s \in SUBSET S : s # {} => pick[s] \in s
  BY LeastNumbers
<1>3. PICK g \in [SUBSET S -> Seq(X)] : Solves(g, S, <<>>, pick, comb)
  <2>1. <<>> \in Seq(X)
    OBVIOUS
  <2> HIDE DEF pick, comb
  <2> QED
    BY <2>1, <1>1, <1>2, FoldExists
<1>4. ConcatenationStep(g, f, S)
  <2>1. \A s \in SUBSET S : s # {} => g[s] = f[pick[s]] \o g[s \ {pick[s]}]
    <3> SUFFICES ASSUME NEW s \in SUBSET S, s # {}
                 PROVE  g[s] = f[pick[s]] \o g[s \ {pick[s]}]
      OBVIOUS
    <3> HIDE DEF pick
    <3>1. pick[s] \in S /\ s \ {pick[s]} \in SUBSET S
      BY <1>2
    <3>2. <<pick[s], g[s \ {pick[s]}]>> \in S \X Seq(X)
      BY <3>1
    <3>3. comb[<<pick[s], g[s \ {pick[s]}]>>] = f[pick[s]] \o g[s \ {pick[s]}]
      BY <3>2
    <3> HIDE DEF comb
    <3> QED
      BY <1>3, <3>3 DEF Solves
  <2>2. \A s \in SUBSET S : pick[s] = Min(s)
    OBVIOUS
  <2>3. \A s \in SUBSET S :
          g[s] = IF s = {} THEN <<>> ELSE f[Min(s)] \o g[s \ {Min(s)}]
    <3> HIDE DEF pick, comb
    <3> QED
      BY <1>3, <2>1, <2>2 DEF Solves
  <2> QED
    BY <2>3 DEF ConcatenationStep
<1>5. ConcatenationStep(it, f, S)
  <2> HIDE DEF it
  <2> QED
    BY <1>4 DEF it
<1>6. Concatenated(f, S) = it[S]
  BY DEF Concatenated, MapThenFoldSet, ConcatenationStep
<1>7. SUBSET S \subseteq {s \in SUBSET S : it[s] = g[s]}
  <2> DEFINE A == {s \in SUBSET S : it[s] = g[s]}
  <2> HIDE DEF it
  <2>1. Inductive(A, S)
    <3> SUFFICES ASSUME NEW s \in SUBSET S, \A x \in s : s \ {x} \in A
                 PROVE  it[s] = g[s]
      BY DEF Inductive
    <3>1. s # {} => Min(s) \in s
      BY <1>2
    <3> QED
      BY <1>4, <1>5, <3>1 DEF ConcatenationStep
  <2> HIDE DEF A
  <2> QED
    BY <2>1, SubsetInduction DEF A
<1>8. it = g
  <2> HIDE DEF it
  <2> QED
    BY <1>4, <1>5, <1>7 DEF ConcatenationStep
<1> QED
  BY <1>3, <1>4, <1>6, <1>8

(* A concatenation starts with the sequence of the least number and goes   *)
(* on with the concatenation of the others.                                *)
LEMMA ConcatenationRecursion ==
  ASSUME NEW S \in SUBSET Nat, IsFiniteSet(S), NEW X, NEW f,
         \A n \in S : f[n] \in Seq(X)
  PROVE  /\ Concatenated(f, S) \in Seq(X)
         /\ S = {} => Concatenated(f, S) = <<>>
         /\ S # {} => Concatenated(f, S) = f[Min(S)] \o Concatenated(f, S \ {Min(S)})
<1>1. PICK h \in [SUBSET S -> Seq(X)] :
        ConcatenationStep(h, f, S) /\ Concatenated(f, S) = h[S]
  BY ConcatenationSolution
<1>2. \A s \in SUBSET S : Concatenated(f, s) = h[s]
  <2> SUFFICES ASSUME NEW T \in SUBSET S
               PROVE  Concatenated(f, T) = h[T]
    OBVIOUS
  <2>1. IsFiniteSet(T)
    BY FS_Subset
  <2>2. PICK g \in [SUBSET T -> Seq(X)] :
          ConcatenationStep(g, f, T) /\ Concatenated(f, T) = g[T]
    BY <2>1, ConcatenationSolution
  <2> DEFINE A == {s \in SUBSET T : g[s] = h[s]}
  <2>3. Inductive(A, T)
    <3> SUFFICES ASSUME NEW s \in SUBSET T, \A x \in s : s \ {x} \in A
                 PROVE  g[s] = h[s]
      BY DEF Inductive
    <3>1. g[s] = IF s = {} THEN <<>> ELSE f[Min(s)] \o g[s \ {Min(s)}]
      BY <2>2 DEF ConcatenationStep
    <3>2. h[s] = IF s = {} THEN <<>> ELSE f[Min(s)] \o h[s \ {Min(s)}]
      BY <1>1 DEF ConcatenationStep
    <3>3. s \in SUBSET S /\ (s # {} => Min(s) \in s)
      BY LeastNumbers
    <3> QED
      BY <3>1, <3>2, <3>3
  <2>4. T \in A
    <3> HIDE DEF A
    <3> QED
      BY <2>1, <2>3, SubsetInduction
  <2> QED
    BY <2>2, <2>4
<1>3. S # {} => Concatenated(f, S \ {Min(S)}) = h[S \ {Min(S)}]
  BY <1>2
<1>4. h[S] = IF S = {} THEN <<>> ELSE f[Min(S)] \o h[S \ {Min(S)}]
  BY <1>1 DEF ConcatenationStep
<1>5. h[S] \in Seq(X)
  OBVIOUS
<1> QED
  BY <1>1, <1>3, <1>4, <1>5

(* A concatenation depends on the sequences it is made of only.            *)
LEMMA ConcatenationSame ==
  ASSUME NEW S \in SUBSET Nat, IsFiniteSet(S), NEW X, NEW f, NEW g,
         \A n \in S : f[n] \in Seq(X) /\ g[n] = f[n]
  PROVE  Concatenated(f, S) = Concatenated(g, S)
<1> DEFINE A == {s \in SUBSET S : Concatenated(f, s) = Concatenated(g, s)}
<1>1. Inductive(A, S)
  <2> SUFFICES ASSUME NEW s \in SUBSET S, \A x \in s : s \ {x} \in A
               PROVE  Concatenated(f, s) = Concatenated(g, s)
    BY DEF Inductive
  <2>1. IsFiniteSet(s) /\ s \in SUBSET Nat
    BY FS_Subset
  <2>2. \A n \in s : f[n] \in Seq(X)
    OBVIOUS
  <2>3. \A n \in s : g[n] \in Seq(X)
    OBVIOUS
  <2>4. s # {} => Min(s) \in s
    BY LeastNumbers
  <2>5. /\ s = {} => Concatenated(f, s) = <<>>
        /\ s # {} => Concatenated(f, s) = f[Min(s)] \o Concatenated(f, s \ {Min(s)})
    BY <2>1, <2>2, ConcatenationRecursion
  <2>6. /\ s = {} => Concatenated(g, s) = <<>>
        /\ s # {} => Concatenated(g, s) = g[Min(s)] \o Concatenated(g, s \ {Min(s)})
    BY <2>1, <2>3, ConcatenationRecursion
  <2> QED
    BY <2>4, <2>5, <2>6
<1> HIDE DEF A
<1>2. S \in A
  BY <1>1, SubsetInduction
<1> QED
  BY <1>2 DEF A

(* A segment with the highest number comes last.                           *)
LEMMA ConcatenationLast ==
  ASSUME NEW S \in SUBSET Nat, IsFiniteSet(S), NEW last \in Nat,
         \A n \in S : n < last, NEW X, NEW f,
         \A n \in S \union {last} : f[n] \in Seq(X)
  PROVE  Concatenated(f, S \union {last}) = Concatenated(f, S) \o f[last]
<1> DEFINE A == {s \in SUBSET S : Concatenated(f, s \union {last}) = Concatenated(f, s) \o f[last]}
<1>1. Inductive(A, S)
  <2> SUFFICES ASSUME NEW s \in SUBSET S, \A x \in s : s \ {x} \in A
               PROVE  Concatenated(f, s \union {last}) = Concatenated(f, s) \o f[last]
    BY DEF Inductive
  <2> DEFINE t == s \union {last}
  <2>1. IsFiniteSet(s) /\ s \in SUBSET Nat
    BY FS_Subset
  <2>2. IsFiniteSet(t) /\ t \in SUBSET Nat /\ t # {}
    BY <2>1, FS_AddElement
  <2>3. \A n \in t : f[n] \in Seq(X)
    OBVIOUS
  <2>4. Concatenated(f, t) = f[Min(t)] \o Concatenated(f, t \ {Min(t)})
    <3> HIDE DEF t
    <3> QED
      BY <2>2, <2>3, ConcatenationRecursion
  <2>5. \A n \in s : f[n] \in Seq(X)
    OBVIOUS
  <2>6. CASE s = {}
    <3>1. Min(t) = last
      <4>1. last \in t /\ \A n \in t : last <= n
        BY <2>6
      <4> HIDE DEF t
      <4> QED
        BY <2>2, <4>1, LeastIs
    <3>2. Concatenated(f, s) = <<>>
      BY <2>1, <2>5, <2>6, ConcatenationRecursion
    <3>3. t \ {Min(t)} = s
      BY <2>6, <3>1
    <3>4. f[last] \in Seq(X)
      OBVIOUS
    <3> HIDE DEF t
    <3>5. Concatenated(f, t) = f[last] \o <<>> /\ Concatenated(f, s) \o f[last] = <<>> \o f[last]
      BY <2>4, <3>1, <3>2, <3>3
    <3>6. Concatenated(f, t) = Concatenated(f, s) \o f[last]
      BY <3>4, <3>5, ConcatEmptySeq
    <3> QED
      BY <3>6 DEF t
  <2>7. CASE s # {}
    <3> DEFINE m == Min(s)
    <3>1. m \in s /\ \A n \in s : m <= n
      BY <2>7, LeastNumbers
    <3>2. Concatenated(f, s) = f[m] \o Concatenated(f, s \ {m})
      BY <2>1, <2>5, <2>7, ConcatenationRecursion
    <3> HIDE DEF m
    <3>3. Min(t) = m
      <4>1. m \in t /\ \A n \in t : m <= n
        BY <3>1
      <4> HIDE DEF t
      <4> QED
        BY <2>2, <4>1, LeastIs
    <3>4. t \ {m} = (s \ {m}) \union {last}
      BY <3>1
    <3>5. Concatenated(f, (s \ {m}) \union {last}) = Concatenated(f, s \ {m}) \o f[last]
      BY <3>1
    <3>6. Concatenated(f, s \ {m}) \in Seq(X)
      <4>1. IsFiniteSet(s \ {m}) /\ s \ {m} \in SUBSET Nat /\ \A n \in s \ {m} : f[n] \in Seq(X)
        BY <2>1, <2>5, FS_Subset
      <4> QED
        BY <4>1, ConcatenationRecursion
    <3>7. f[m] \in Seq(X) /\ f[last] \in Seq(X)
      BY <3>1
    <3> DEFINE rest == Concatenated(f, s \ {m})
    <3>8. Concatenated(f, t) = f[m] \o (rest \o f[last])
      <4> HIDE DEF t
      <4> QED
        BY <2>4, <3>3, <3>4, <3>5
    <3>9. (f[m] \o rest) \o f[last] = f[m] \o (rest \o f[last])
      <4>1. \A a, b, c \in Seq(X) : (a \o b) \o c = a \o (b \o c)
        BY ConcatAssociative
      <4>2. rest \in Seq(X)
        BY <3>6
      <4> HIDE DEF rest
      <4> QED
        BY <3>7, <4>1, <4>2
    <3> QED
      BY <3>2, <3>8, <3>9
  <2> QED
    BY <2>6, <2>7
<1> HIDE DEF A
<1>2. S \in A
  BY <1>1, SubsetInduction
<1> QED
  BY <1>2 DEF A

(* What a sequence holds that is put together.                             *)
LEMMA JoinHolds ==
  ASSUME NEW X, NEW s \in Seq(X), NEW t \in Seq(X)
  PROVE  ToSet(s \o t) = ToSet(s) \union ToSet(t)
<1>1. \A u \in Seq(X) : ToSet(u) = {u[i] : i \in 1 .. Len(u)}
  BY DEF ToSet
<1>2. \A i \in 1 .. Len(s) : i \in 1 .. Len(s) + Len(t) /\ (s \o t)[i] = s[i]
  BY ConcatProperties
<1>3. \A i \in 1 .. Len(t) : Len(s) + i \in 1 .. Len(s) + Len(t) /\ (s \o t)[Len(s) + i] = t[i]
  BY ConcatProperties
<1>4. \A i \in 1 .. Len(s) + Len(t) :
        IF i <= Len(s) THEN i \in 1 .. Len(s) /\ (s \o t)[i] = s[i]
        ELSE i - Len(s) \in 1 .. Len(t) /\ (s \o t)[i] = t[i - Len(s)]
  BY ConcatProperties
<1>5. s \o t \in Seq(X) /\ Len(s \o t) = Len(s) + Len(t)
  BY ConcatProperties
<1> DEFINE st == s \o t
<1>6. ASSUME NEW x \in ToSet(st) PROVE x \in ToSet(s) \union ToSet(t)
  <2>1. PICK i \in 1 .. Len(s) + Len(t) : x = st[i]
    BY <1>1, <1>5
  <2> QED
    BY <1>1, <1>4, <2>1
<1>7. ASSUME NEW x \in ToSet(s) PROVE x \in ToSet(st)
  <2>1. PICK i \in 1 .. Len(s) : x = s[i]
    BY <1>1
  <2>2. i \in 1 .. Len(st) /\ x = st[i]
    BY <1>2, <1>5, <2>1
  <2> QED
    BY <1>1, <1>5, <2>2
<1>8. ASSUME NEW x \in ToSet(t) PROVE x \in ToSet(st)
  <2>1. PICK i \in 1 .. Len(t) : x = t[i]
    BY <1>1
  <2>2. Len(s) + i \in 1 .. Len(st) /\ x = st[Len(s) + i]
    BY <1>3, <1>5, <2>1
  <2>3. ToSet(st) = {st[j] : j \in 1 .. Len(st)}
    BY <1>1, <1>5
  <2> HIDE DEF st
  <2> QED
    BY <2>2, <2>3
<1> HIDE DEF st
<1> QED
  BY <1>6, <1>7, <1>8 DEF st

LEMMA AppendHolds ==
  ASSUME NEW X, NEW s \in Seq(X), NEW x \in X
  PROVE  ToSet(Append(s, x)) = ToSet(s) \union {x}
<1>1. Append(s, x) = s \o <<x>> /\ <<x>> \in Seq(X)
  BY AppendIsConcat
<1>2. ToSet(<<x>>) = {x}
  BY DEF ToSet
<1>3. ToSet(s \o <<x>>) = ToSet(s) \union ToSet(<<x>>)
  <2> DEFINE t == <<x>>
  <2>1. t \in Seq(X)
    OBVIOUS
  <2> HIDE DEF t
  <2>2. ToSet(s \o t) = ToSet(s) \union ToSet(t)
    BY <2>1, JoinHolds
  <2> QED
    BY <2>2 DEF t
<1> QED
  BY <1>1, <1>2, <1>3

(* What a concatenation holds, and how long it is.                         *)
LEMMA ConcatenationHolds ==
  ASSUME NEW S \in SUBSET Nat, IsFiniteSet(S), NEW X, NEW f,
         \A n \in S : f[n] \in Seq(X)
  PROVE  ToSet(Concatenated(f, S)) = UNION {ToSet(f[n]) : n \in S}
<1> DEFINE A == {s \in SUBSET S : ToSet(Concatenated(f, s)) = UNION {ToSet(f[n]) : n \in s}}
<1>1. Inductive(A, S)
  <2> SUFFICES ASSUME NEW s \in SUBSET S, \A x \in s : s \ {x} \in A
               PROVE  ToSet(Concatenated(f, s)) = UNION {ToSet(f[n]) : n \in s}
    BY DEF Inductive
  <2>1. IsFiniteSet(s) /\ s \in SUBSET Nat
    BY FS_Subset
  <2>2. \A n \in s : f[n] \in Seq(X)
    OBVIOUS
  <2>3. CASE s = {}
    <3>1. Concatenated(f, s) = <<>>
      BY <2>1, <2>2, <2>3, ConcatenationRecursion
    <3> QED
      BY <2>3, <3>1 DEF ToSet
  <2>4. CASE s # {}
    <3> DEFINE m == Min(s)
               r == Concatenated(f, s \ {m})
    <3>1. m \in s
      BY <2>4, LeastNumbers
    <3>2. Concatenated(f, s) = f[m] \o r
      BY <2>1, <2>2, <2>4, ConcatenationRecursion
    <3> HIDE DEF m
    <3>3. r \in Seq(X)
      <4>1. IsFiniteSet(s \ {m}) /\ s \ {m} \in SUBSET Nat /\ \A n \in s \ {m} : f[n] \in Seq(X)
        BY <2>1, <2>2, FS_Subset
      <4> QED
        BY <4>1, ConcatenationRecursion
    <3>4. ToSet(r) = UNION {ToSet(f[n]) : n \in s \ {m}}
      BY <3>1
    <3> HIDE DEF r
    <3>5. ToSet(f[m] \o r) = ToSet(f[m]) \union ToSet(r)
      BY <2>2, <3>1, <3>3, JoinHolds
    <3> QED
      BY <3>1, <3>2, <3>4, <3>5
  <2> QED
    BY <2>3, <2>4
<1> HIDE DEF A
<1>2. S \in A
  BY <1>1, SubsetInduction
<1> QED
  BY <1>2 DEF A

LEMMA ConcatenationLength ==
  ASSUME NEW S \in SUBSET Nat, IsFiniteSet(S), NEW X, NEW f, NEW counts,
         \A n \in S : f[n] \in Seq(X) /\ counts[n] = Len(f[n])
  PROVE  Len(Concatenated(f, S)) = SumFunctionOnSet(counts, S)
<1> DEFINE A == {s \in SUBSET S : Len(Concatenated(f, s)) = SumFunctionOnSet(counts, s)}
<1>1. Inductive(A, S)
  <2> SUFFICES ASSUME NEW s \in SUBSET S, \A x \in s : s \ {x} \in A
               PROVE  Len(Concatenated(f, s)) = SumFunctionOnSet(counts, s)
    BY DEF Inductive
  <2>1. IsFiniteSet(s) /\ s \in SUBSET Nat
    BY FS_Subset
  <2>2. \A n \in s : f[n] \in Seq(X)
    OBVIOUS
  <2>3. \A n \in s : counts[n] \in Nat
    BY LenProperties
  <2>4. CASE s = {}
    <3>1. Concatenated(f, s) = <<>>
      BY <2>1, <2>2, <2>4, ConcatenationRecursion
    <3>2. SumFunctionOnSet(counts, s) = 0
      BY <2>1, <2>3, <2>4, SumRecursion
    <3> QED
      BY <3>1, <3>2
  <2>5. CASE s # {}
    <3> DEFINE m == Min(s)
               r == Concatenated(f, s \ {m})
    <3>1. m \in s
      BY <2>5, LeastNumbers
    <3>2. Concatenated(f, s) = f[m] \o r
      BY <2>1, <2>2, <2>5, ConcatenationRecursion
    <3> HIDE DEF m
    <3>3. r \in Seq(X)
      <4>1. IsFiniteSet(s \ {m}) /\ s \ {m} \in SUBSET Nat /\ \A n \in s \ {m} : f[n] \in Seq(X)
        BY <2>1, <2>2, FS_Subset
      <4> QED
        BY <4>1, ConcatenationRecursion
    <3>4. Len(r) = SumFunctionOnSet(counts, s \ {m})
      BY <3>1
    <3>5. SumFunctionOnSet(counts, s) = counts[m] + SumFunctionOnSet(counts, s \ {m})
      BY <2>1, <2>3, <3>1, SumRecursion
    <3> HIDE DEF r
    <3>6. Len(f[m] \o r) = Len(f[m]) + Len(r)
      BY <2>2, <3>1, <3>3, ConcatProperties
    <3> QED
      BY <3>1, <3>2, <3>4, <3>5, <3>6
  <2> QED
    BY <2>4, <2>5
<1> HIDE DEF A
<1>2. S \in A
  BY <1>1, SubsetInduction
<1> QED
  BY <1>2 DEF A

-----------------------------------------------------------------------------
(* A file is open only between calls, and has the last number given; only  *)
(* a ReadAll that has read the files has segments to remove and lines to   *)
(* return.                                                                 *)
Shape ==
  /\ TypeOK
  /\ IsFiniteSet(DOMAIN segments)
  /\ mode \in {"down", "removing"} => currentFile = NoFile
  /\ currentFile # NoFile => currentFile = segmentCounter - 1
  /\ mode # "removing" => todo = {} /\ taken = <<>>

(* What is read off the files.                                             *)
LEMMA ScannedTyped ==
  ASSUME NEW file \in Files
  PROVE  /\ Scanned(file) \in Seq(Elements)
         /\ ToSet(Scanned(file)) =
              ToSet(file.lines) \union IF file.rest = NoRest THEN {} ELSE {file.rest}
         /\ file.rest = NoRest => Scanned(file) = file.lines
         /\ file.lines \in Seq(Elements) /\ Len(file.lines) \in Nat
         /\ Len(Scanned(file)) = Len(file.lines) + IF file.rest = NoRest THEN 0 ELSE 1
<1>1. file.lines \in Seq(Elements) /\ file.rest \in Elements \union {NoRest}
  BY DEF Files
<1>2. Len(file.lines) \in Nat
  BY <1>1
<1>3. CASE file.rest = NoRest
  BY <1>1, <1>2, <1>3 DEF Scanned
<1>4. CASE file.rest # NoRest
  <2> DEFINE s == file.lines
             e == file.rest
  <2>1. s \in Seq(Elements) /\ e \in Elements
    BY <1>1, <1>4
  <2>2. Scanned(file) = Append(s, e)
    BY <1>4 DEF Scanned
  <2> HIDE DEF s, e
  <2>3. /\ Append(s, e) \in Seq(Elements) /\ Len(Append(s, e)) = Len(s) + 1
        /\ ToSet(Append(s, e)) = ToSet(s) \union {e}
    BY <2>1, AppendHolds, AppendProperties
  <2> QED
    BY <1>1, <1>2, <1>4, <2>2, <2>3 DEF s, e
<1> QED
  BY <1>3, <1>4

LEMMA DirectoryRead ==
  ASSUME DOMAIN segments \subseteq Nat, IsFiniteSet(DOMAIN segments),
         \A n \in DOMAIN segments : segments[n] \in Files
  PROVE  /\ StoredLines \in Seq(Elements)
         /\ StoredBytes \in Nat
         /\ \A n \in DOMAIN segments : Contents[n] \in Seq(Elements) /\ Sizes[n] \in Nat
         /\ ToSet(StoredLines) = UNION {ToSet(Scanned(segments[n])) : n \in DOMAIN segments}
<1>1. \A n \in DOMAIN segments : /\ Contents[n] = Scanned(segments[n])
                                 /\ Contents[n] \in Seq(Elements)
  BY ScannedTyped DEF Contents
<1>2. \A n \in DOMAIN segments : Sizes[n] \in Nat
  BY DEF Sizes, Files
<1>3. StoredLines \in Seq(Elements)
  BY <1>1, ConcatenationRecursion DEF StoredLines
<1>4. StoredBytes \in Nat
  BY <1>2, SumRecursion DEF StoredBytes
<1>5. ToSet(StoredLines) = UNION {ToSet(Contents[n]) : n \in DOMAIN segments}
  BY <1>1, ConcatenationHolds DEF StoredLines
<1> QED
  BY <1>1, <1>2, <1>3, <1>4, <1>5

(* NewDiskBuffer counts the lines of a segment, or stops at one it cannot  *)
(* read.                                                                   *)
LEMMA CountsBounded ==
  ASSUME Shape, NEW n \in DOMAIN segments
  PROVE  /\ Counts[n] \in Nat /\ Len(Contents[n]) \in Nat /\ Counts[n] <= Len(Contents[n])
         /\ ToSet(Contents[n]) \cap Unreadable = {} => Counts[n] = Len(Contents[n])
<1> DEFINE c == Contents[n]
           I == {i \in 1 .. Len(c) : c[i] \in Unreadable}
<1>1. c \in Seq(Elements) /\ Len(c) \in Nat
  <2>1. c \in Seq(Elements)
    BY DirectoryRead DEF Shape, TypeOK
  <2> QED
    BY <2>1
<1>2. FirstOverlong(n) = IF I # {} THEN Min(I) ELSE 0
  BY DEF FirstOverlong, SelectInSeq
<1>3. I # {} => Min(I) \in I
  <2>1. IsFiniteSet(1 .. Len(c)) /\ 1 .. Len(c) \in SUBSET Nat
    BY <1>1, FS_Interval
  <2>2. I \in SUBSET (1 .. Len(c))
    OBVIOUS
  <2> HIDE DEF I, c
  <2> QED
    BY <2>1, <2>2, LeastNumbers
<1>4. I # {} => FirstOverlong(n) \in 1 .. Len(c)
  BY <1>2, <1>3
<1>5. ToSet(c) \cap Unreadable = {} => I = {}
  BY <1>1 DEF ToSet
<1>6. Counts[n] = IF FirstOverlong(n) = 0 THEN Len(c) ELSE FirstOverlong(n) - 1
  BY DEF Counts, Counted
<1> HIDE DEF I
<1>7. CASE I = {}
  BY <1>1, <1>2, <1>6, <1>7
<1>8. CASE I # {}
  BY <1>1, <1>4, <1>5, <1>6, <1>8
<1> QED
  BY <1>7, <1>8

LEMMA FoundTyped ==
  ASSUME Shape, NEW S \in SUBSET DOMAIN segments
  PROVE  IsFiniteSet(S) /\ BytesFound(S) \in Nat /\ LinesFound(S) \in Nat
<1>1. IsFiniteSet(S)
  BY FS_Subset DEF Shape
<1>2. \A n \in S : Sizes[n] \in Nat /\ Counts[n] \in Nat
  BY DirectoryRead, CountsBounded DEF Shape, TypeOK
<1>3. SumFunctionOnSet(Sizes, S) \in Nat
  BY <1>1, <1>2, SumRecursion
<1>4. SumFunctionOnSet(Counts, S) \in Nat
  BY <1>1, <1>2, SumRecursion
<1> QED
  BY <1>1, <1>3, <1>4 DEF BytesFound, LinesFound

(* What a write does to the directory.                                     *)
LEMMA WriteToMoves ==
  ASSUME Shape, mode = "ready", NEW l \in Lines, NEW file \in Files, WriteTo(l, file)
  PROVE  /\ Target(l) \in Nat
         /\ DOMAIN segments' = DOMAIN segments \union {Target(l)}
         /\ IsFiniteSet(DOMAIN segments')
         /\ segments'[Target(l)] = file
         /\ \A n \in DOMAIN segments \ {Target(l)} : segments'[n] = segments[n]
         /\ \A n \in DOMAIN segments' : segments'[n] \in Files
         /\ segmentCounter' \in Nat
         /\ currentFile' = Target(l)
         /\ NewSegment(l) => Target(l) = segmentCounter /\ segmentCounter' = segmentCounter + 1
         /\ ~NewSegment(l) => /\ Target(l) = currentFile /\ currentFile \in DOMAIN segments
                              /\ segmentCounter' = segmentCounter
<1>1. ~NewSegment(l) => currentFile # NoFile
  BY DEF NewSegment
<1>2. /\ Target(l) \in Nat
      /\ NewSegment(l) => Target(l) = segmentCounter
      /\ ~NewSegment(l) => Target(l) = currentFile /\ currentFile \in DOMAIN segments
  BY <1>1 DEF Target, Shape, TypeOK
<1>3. segments' = [n \in DOMAIN segments \union {Target(l)} |->
                    IF n = Target(l) THEN file ELSE segments[n]]
  BY DEF WriteTo
<1>4. IsFiniteSet(DOMAIN segments')
  BY <1>3, FS_AddElement DEF Shape
<1> QED
  BY <1>2, <1>3, <1>4 DEF WriteTo, Shape, TypeOK

LEMMA TargetTyped ==
  ASSUME Shape, NEW l \in Lines
  PROVE  /\ TargetFile(l) \in Files
         /\ NewSegment(l) => TargetFile(l) = EmptyFile
         /\ ~NewSegment(l) => TargetFile(l) = segments[currentFile]
<1>1. EmptyFile \in Files
  BY DEF EmptyFile, Files
<1> QED
  BY <1>1 DEF TargetFile, NewSegment, Shape, TypeOK

(* The files an Accept and a failing Write leave.                          *)
LEMMA JoinedTyped ==
  ASSUME NEW file \in Files, NEW e \in Elements
  PROVE  /\ Joined(file.rest, e) \subseteq Elements
         /\ file.rest = NoRest => Joined(file.rest, e) = {e}
         /\ file.rest # NoRest => Joined(file.rest, e) \subseteq {Garbled, TooLong}
BY DEF Joined, Elements

LEMMA PartTyped ==
  ASSUME NEW l \in Lines, NEW n
  PROVE  Part(l, n) \subseteq {l, Garbled, TooLong} /\ Part(l, n) \subseteq Elements
BY DEF Part, Elements

LEMMA WrittenTyped ==
  ASSUME NEW file \in Files, NEW l \in Lines, NEW e \in Elements, NEW n \in Nat
  PROVE  /\ Grown(file, e, l) \in Files /\ Torn(file, e, n) \in Files
         /\ Grown(file, e, l).lines = Append(file.lines, e)
         /\ Grown(file, e, l).rest = NoRest
         /\ Grown(file, e, l).size = file.size + Bytes[l]
         /\ Torn(file, e, n).lines = file.lines
         /\ Torn(file, e, n).rest = e
         /\ Torn(file, e, n).size = file.size + n
<1>1. /\ file.lines \in Seq(Elements) /\ Append(file.lines, e) \in Seq(Elements)
      /\ file.size \in Nat
  BY DEF Files
<1>2. file.size + Bytes[l] \in Nat /\ file.size + n \in Nat
  BY <1>1, SizesAssumption
<1> QED
  BY <1>1, <1>2 DEF Files, Grown, Torn

(* What a failing write that reached the file has written.                 *)
Tears(l, file) ==
  \E n \in 1 .. Bytes[l] - 1 : \E part \in Part(l, n) :
    \E e \in Joined(TargetFile(l).rest, part) : file = Torn(TargetFile(l), e, n)

Extends(l, file) ==
  \E e \in Joined(TargetFile(l).rest, l) : file = Grown(TargetFile(l), e, l)

LEMMA TearsTyped ==
  ASSUME NEW l \in Lines, TargetFile(l) \in Files, NEW file, Tears(l, file)
  PROVE  file \in Files /\ file.lines = TargetFile(l).lines /\ file.rest # NoRest
         /\ file.rest \in {l, Garbled, TooLong} /\ file.size \in Nat
         /\ file.size >= TargetFile(l).size
<1>1. PICK n, part, e : /\ n \in 1 .. Bytes[l] - 1 /\ part \in Part(l, n)
                         /\ e \in Joined(TargetFile(l).rest, part)
                         /\ file = Torn(TargetFile(l), e, n)
  BY DEF Tears
<1>2. n \in Nat
  BY <1>1, SizesAssumption
<1>3. part \in {l, Garbled, TooLong} /\ part \in Elements
  BY <1>1, PartTyped
<1>4. e \in {l, Garbled, TooLong} /\ e \in Elements
  <2> DEFINE file1 == TargetFile(l)
  <2>1. file1 \in Files
    OBVIOUS
  <2> HIDE DEF file1
  <2>2. /\ file1.rest = NoRest => Joined(file1.rest, part) = {part}
        /\ file1.rest # NoRest => Joined(file1.rest, part) \subseteq {Garbled, TooLong}
        /\ Joined(file1.rest, part) \subseteq Elements
    BY <1>3, <2>1, JoinedTyped
  <2>3. e \in Joined(file1.rest, part)
    BY <1>1 DEF file1
  <2> QED
    BY <1>3, <2>2, <2>3
<1>5. NoRest \notin Elements
  BY DEF Elements, Lines, NoRest, Garbled, TooLong
<1>6. file \in Files /\ file.lines = TargetFile(l).lines /\ file.rest = e
      /\ file.size = TargetFile(l).size + n
  BY <1>1, <1>2, <1>4, WrittenTyped
<1>7. TargetFile(l).size \in Nat
  BY DEF Files
<1> QED
  BY <1>2, <1>4, <1>5, <1>6, <1>7

LEMMA ExtendsTyped ==
  ASSUME NEW l \in Lines, TargetFile(l) \in Files, NEW file, Extends(l, file)
  PROVE  /\ file \in Files /\ file.rest = NoRest
         /\ file.size = TargetFile(l).size + Bytes[l]
         /\ \E e \in {l, Garbled, TooLong} : file.lines = Append(TargetFile(l).lines, e)
         /\ TargetFile(l).rest = NoRest => file.lines = Append(TargetFile(l).lines, l)
<1>1. PICK e \in Joined(TargetFile(l).rest, l) : file = Grown(TargetFile(l), e, l)
  BY DEF Extends
<1>2. l \in Elements
  BY DEF Elements
<1>3. e \in {l, Garbled, TooLong} /\ e \in Elements /\ (TargetFile(l).rest = NoRest => e = l)
  BY <1>2, JoinedTyped
<1>4. 0 \in Nat
  OBVIOUS
<1>5. /\ Grown(TargetFile(l), e, l) \in Files
      /\ Grown(TargetFile(l), e, l).lines = Append(TargetFile(l).lines, e)
      /\ Grown(TargetFile(l), e, l).rest = NoRest
      /\ Grown(TargetFile(l), e, l).size = TargetFile(l).size + Bytes[l]
  BY <1>3, <1>4, WrittenTyped
<1> QED
  BY <1>1, <1>3, <1>5

(* What a Write comes to: only the first two change a file.                *)
Accepts(l, file) ==
  /\ Extends(l, file) /\ WriteTo(l, file) /\ ~Full(l)
  /\ currentBytes' = currentBytes + Bytes[l] /\ lineCount' = lineCount + 1
  /\ accepted' = accepted \union {l} /\ UNCHANGED <<cut, faults, failed, restarts>>

Fails(l, kind) ==
  /\ kind \in Failing /\ faults < MaxFaults /\ faults' = faults + 1
  /\ failed' = failed \union {kind}
  /\ UNCHANGED <<currentBytes, lineCount, accepted, restarts>>

Ignored ==
  UNCHANGED <<segments, segmentCounter, currentFile, currentBytes, lineCount,
              accepted, cut, faults, failed, restarts>>

LEMMA WriteOutcomes ==
  ASSUME Shape, Write
  PROVE  /\ mode = "ready" /\ mode' = "ready" /\ next \in Lines /\ next' = next + 1
         /\ next' \in 1 .. NumLines + 1
         /\ UNCHANGED <<todo, taken, handed>> /\ todo = {} /\ taken = <<>>
         /\ TargetFile(next) \in Files
         /\ \/ \E file \in Files : Accepts(next, file)
            \/ /\ Fails(next, "create") /\ currentFile' = NoFile
               /\ UNCHANGED <<segments, segmentCounter, cut>>
            \/ /\ Fails(next, "write") /\ WriteTo(next, TargetFile(next))
               /\ UNCHANGED cut
            \/ /\ Fails(next, "torn") /\ cut' = cut \union {next}
               /\ \E file \in Files : Tears(next, file) /\ WriteTo(next, file)
            \/ Ignored
<1> DEFINE l == next
<1>1. /\ mode = "ready" /\ mode' = "ready" /\ l \in Lines /\ next' = next + 1
      /\ next' \in 1 .. NumLines + 1
      /\ UNCHANGED <<todo, taken, handed>> /\ todo = {} /\ taken = <<>>
  BY SizesAssumption DEF Write, Shape, TypeOK, Lines, reading
<1>2. TargetFile(l) \in Files
  BY <1>1, TargetTyped
<1> HIDE DEF l
<1>3. CASE Accept(l)
  <2>1. PICK e \in Joined(TargetFile(l).rest, l) : WriteTo(l, Grown(TargetFile(l), e, l))
    BY <1>3 DEF Accept
  <2>2. Extends(l, Grown(TargetFile(l), e, l))
    BY <2>1 DEF Extends
  <2>3. Grown(TargetFile(l), e, l) \in Files
    BY <1>1, <1>2, <2>2, ExtendsTyped
  <2> QED
    BY <1>1, <1>2, <1>3, <2>1, <2>2, <2>3 DEF Accept, Accepts, bounds, l
<1>4. CASE WriteError(l) /\ TornWrite(l)
  <2>1. PICK n, part, e : /\ n \in 1 .. Bytes[l] - 1 /\ part \in Part(l, n)
                           /\ e \in Joined(TargetFile(l).rest, part)
                           /\ WriteTo(l, Torn(TargetFile(l), e, n))
    BY <1>4 DEF TornWrite
  <2>2. Tears(l, Torn(TargetFile(l), e, n))
    BY <2>1 DEF Tears
  <2>3. Torn(TargetFile(l), e, n) \in Files
    BY <1>1, <1>2, <2>2, TearsTyped
  <2>4. Fails(l, "torn") /\ cut' = cut \union {l}
    BY <1>4 DEF WriteError, TornWrite, Fault, Fails
  <2> QED
    BY <1>1, <1>2, <2>1, <2>2, <2>3, <2>4 DEF l
<1>5. CASE WriteError(l) /\ ~TornWrite(l)
  BY <1>1, <1>2, <1>5 DEF WriteError, CreateError, Fault, Fails, l
<1>6. CASE Refuse(l)
  BY <1>1, <1>2, <1>6 DEF Refuse, Ignored, counters, bounds, l
<1> QED
  BY <1>3, <1>4, <1>5, <1>6 DEF Write, l

LEMMA WriteKeepsShape == Shape /\ Write => Shape'
<1> SUFFICES ASSUME Shape, Write PROVE Shape'
  OBVIOUS
<1> USE SizesAssumption
<1> DEFINE l == next
<1>1. /\ mode = "ready" /\ mode' = "ready" /\ l \in Lines
      /\ next' \in 1 .. NumLines + 1
      /\ UNCHANGED <<todo, taken, handed>> /\ todo = {} /\ taken = <<>>
      /\ TargetFile(l) \in Files
  BY WriteOutcomes
<1> HIDE DEF l
<1>2. ASSUME NEW file \in Files, WriteTo(l, file), currentBytes' \in Nat, lineCount' \in Nat,
             accepted' \subseteq Lines, cut' \subseteq Lines, failed' \subseteq Failing,
             faults' \in 0 .. MaxFaults, restarts' = restarts
      PROVE  Shape'
  <2>1. /\ DOMAIN segments' = DOMAIN segments \union {Target(l)}
        /\ Target(l) \in Nat
        /\ IsFiniteSet(DOMAIN segments')
        /\ \A n \in DOMAIN segments' : segments'[n] \in Files
        /\ segmentCounter' \in Nat
        /\ currentFile' = Target(l)
    BY <1>1, <1>2, WriteToMoves
  <2>2. currentFile' = segmentCounter' - 1
    <3>1. /\ currentFile' = Target(l) /\ segmentCounter \in Nat
          /\ NewSegment(l) => Target(l) = segmentCounter /\ segmentCounter' = segmentCounter + 1
          /\ ~NewSegment(l) => Target(l) = currentFile /\ segmentCounter' = segmentCounter
      BY <1>1, <1>2, WriteToMoves DEF Shape, TypeOK
    <3>2. ~NewSegment(l) => currentFile # NoFile
      BY DEF NewSegment
    <3> QED
      BY <3>1, <3>2 DEF Shape
  <2> QED
    BY <1>1, <1>2, <2>1, <2>2 DEF Shape, TypeOK
<1>3. ASSUME NEW file \in Files, Accepts(l, file) PROVE Shape'
  <2>1. /\ currentBytes' \in Nat /\ lineCount' \in Nat
        /\ accepted' \subseteq Lines /\ cut' \subseteq Lines /\ failed' \subseteq Failing
        /\ faults' \in 0 .. MaxFaults /\ restarts' = restarts
    BY <1>1, <1>3 DEF Accepts, Shape, TypeOK
  <2> QED
    BY <1>2, <1>3, <2>1 DEF Accepts
<1>4. ASSUME NEW kind, Fails(l, kind), cut' \in {cut, cut \union {l}}
      PROVE  /\ currentBytes' \in Nat /\ lineCount' \in Nat
             /\ accepted' \subseteq Lines /\ cut' \subseteq Lines /\ failed' \subseteq Failing
             /\ faults' \in 0 .. MaxFaults /\ restarts' = restarts
  BY <1>1, <1>4 DEF Fails, Shape, TypeOK
<1>5. CASE /\ Fails(l, "create") /\ currentFile' = NoFile
           /\ UNCHANGED <<segments, segmentCounter, cut>>
  <2>1. /\ currentBytes' \in Nat /\ lineCount' \in Nat
        /\ accepted' \subseteq Lines /\ cut' \subseteq Lines /\ failed' \subseteq Failing
        /\ faults' \in 0 .. MaxFaults /\ restarts' = restarts
    BY <1>4, <1>5
  <2> QED
    BY <1>1, <1>5, <2>1 DEF Shape, TypeOK
<1>6. CASE Fails(l, "write") /\ WriteTo(l, TargetFile(l)) /\ UNCHANGED cut
  BY <1>1, <1>2, <1>4, <1>6
<1>7. ASSUME NEW file \in Files, WriteTo(l, file), Fails(l, "torn"), cut' = cut \union {l}
      PROVE  Shape'
  BY <1>2, <1>4, <1>7
<1>8. CASE Ignored
  BY <1>1, <1>8 DEF Ignored, Shape, TypeOK
<1> QED
  BY <1>3, <1>5, <1>6, <1>7, <1>8, WriteOutcomes DEF l

LEMMA ReadAllKeepsShape == Shape /\ ReadAll => Shape'
<1> SUFFICES ASSUME Shape, ReadAll PROVE Shape'
  OBVIOUS
<1> USE SizesAssumption DEF counters, reading, inputs, bounds
<1>1. CASE ReadNothing
  BY <1>1 DEF ReadNothing, Fault, Reading, CurrentClosed, Shape, TypeOK
<1>2. CASE ReadError
  BY <1>2 DEF ReadError, Fault, Reading, CurrentClosed, Shape, TypeOK
<1>3. CASE ReadSegments
  <2>1. taken' \in Seq(Elements)
    BY <1>3, DirectoryRead DEF ReadSegments, Shape, TypeOK
  <2> QED
    BY <1>3, <2>1 DEF ReadSegments, CurrentClosed, Shape, TypeOK
<1>4. CASE RemoveSegment
  <2>1. Min(todo) \in todo
    <3>1. IsFiniteSet(todo) /\ todo \in SUBSET Nat
      BY FS_Subset DEF Shape, TypeOK
    <3> QED
      BY <1>4, <3>1, LeastNumbers DEF RemoveSegment
  <2>2. todo' = todo \ {Min(todo)} /\ mode' = mode /\ mode = "removing" /\ currentFile' = NoFile
    BY <1>4 DEF RemoveSegment, Shape
  <2>3. CASE segments' = Restrict(segments, DOMAIN segments \ {Min(todo)}) /\ UNCHANGED bounds
    <3>1. /\ DOMAIN segments' = DOMAIN segments \ {Min(todo)}
          /\ \A n \in DOMAIN segments' : segments'[n] = segments[n]
      BY <2>3 DEF Restrict
    <3>2. IsFiniteSet(DOMAIN segments')
      BY <3>1, FS_Subset DEF Shape
    <3> QED
      BY <1>4, <2>1, <2>2, <2>3, <3>1, <3>2 DEF RemoveSegment, Shape, TypeOK
  <2>4. CASE Fault({"remove"}) /\ UNCHANGED segments
    BY <1>4, <2>2, <2>4 DEF RemoveSegment, Fault, Shape, TypeOK
  <2> QED
    BY <1>4, <2>3, <2>4 DEF RemoveSegment
<1>5. CASE Return
  <2>1. handed' \in Seq(Elements)
    BY <1>5, ConcatProperties DEF Return, Shape, TypeOK
  <2> QED
    BY <1>5, <2>1 DEF Return, Reset, Shape, TypeOK
<1> QED
  BY <1>1, <1>2, <1>3, <1>4, <1>5 DEF ReadAll

(* The number NewDiskBuffer goes on with is above every file it found.      *)
LEMMA SegmentsBelow ==
  ASSUME Shape
  PROVE  NextSegment \in Nat /\ \A n \in DOMAIN segments : n < NextSegment
<1>1. DOMAIN segments \in SUBSET Int /\ DOMAIN segments \in SUBSET Nat /\ IsFiniteSet(DOMAIN segments)
  BY DEF Shape, TypeOK
<1>2. DOMAIN segments # {} => /\ Max(DOMAIN segments) \in DOMAIN segments
                             /\ \A n \in DOMAIN segments : Max(DOMAIN segments) >= n
  BY <1>1, Extremes
<1>3. CASE DOMAIN segments = {}
  BY <1>3 DEF NextSegment
<1>4. CASE DOMAIN segments # {}
  BY <1>1, <1>2, <1>4 DEF NextSegment
<1> QED
  BY <1>3, <1>4

LEMMA StepKeepsShape == Shape /\ [Next]_vars => Shape'
<1> SUFFICES ASSUME Shape, [Next]_vars PROVE Shape'
  OBVIOUS
<1> USE SizesAssumption DEF counters, reading, inputs, bounds
<1>1. CASE Open
  <2>1. PICK sized \in SUBSET DOMAIN segments :
          /\ currentBytes' = BytesFound(sized) /\ lineCount' \in 0 .. LinesFound(sized)
          /\ UNCHANGED bounds \/ Fault(Skipped(sized))
    BY <1>1 DEF Open
  <2>2. BytesFound(sized) \in Nat /\ LinesFound(sized) \in Nat
    BY FoundTyped
  <2>3. faults' \in 0 .. MaxFaults /\ failed' \subseteq Failing /\ restarts' = restarts
    BY <2>1 DEF Fault, Shape, TypeOK
  <2>4. NextSegment \in Nat
    BY SegmentsBelow
  <2>5. currentBytes' \in Nat /\ lineCount' \in Nat
    BY <2>1, <2>2
  <2> QED
    BY <1>1, <2>3, <2>4, <2>5 DEF Open, Shape, TypeOK
<1>7. CASE OpenUnlisted \/ OpenFails
  BY <1>7 DEF OpenUnlisted, OpenFails, Reset, Fault, Shape, TypeOK
<1>2. CASE Write
  BY <1>2, WriteKeepsShape
<1>3. CASE ReadAll
  BY <1>3, ReadAllKeepsShape
<1>4. CASE Close
  BY <1>4 DEF Close, CurrentClosed, Shape, TypeOK
<1>5. CASE Crash
  BY <1>5 DEF Crash, Shape, TypeOK
<1>6. CASE UNCHANGED vars
  BY <1>6 DEF vars, Shape, TypeOK
<1> QED
  BY <1>1, <1>2, <1>3, <1>4, <1>5, <1>6, <1>7 DEF Next

LEMMA InitialShape == Init => Shape
<1> SUFFICES ASSUME Init PROVE Shape
  OBVIOUS
<1>1. DOMAIN segments = {} /\ IsFiniteSet(DOMAIN segments)
  BY FS_EmptySet DEF Init
<1> QED
  BY <1>1, SizesAssumption DEF Init, Shape, TypeOK

LEMMA ShapeKept == Spec => []Shape
<1> QED
  BY InitialShape, StepKeepsShape, PTL DEF Spec

(* Files, counters and what ReadAll works on stay well-formed through      *)
(* rotation, torn writes, failed removals and restarts (disk.go); a file   *)
(* is open only while the buffer is, and is one of the directory.          *)
THEOREM DiskTypeCorrect == Spec => []TypeOK
<1>1. Shape => TypeOK
  BY DEF Shape
<1> QED
  BY <1>1, ShapeKept, PTL

-----------------------------------------------------------------------------
(* Nothing but accepted lines, and what is left of others, is stored, to   *)
(* be returned or returned; the lines accepted and those cut short are     *)
(* different lines already offered.                                        *)
Written == accepted \union cut \union {Garbled, TooLong}

Honest ==
  /\ \A n \in DOMAIN segments :
       /\ ToSet(segments[n].lines) \subseteq Written
       /\ segments[n].rest \in cut \union {Garbled, TooLong, NoRest}
  /\ ToSet(taken) \subseteq Written
  /\ ToSet(handed) \subseteq Written
  /\ accepted \cap cut = {}
  /\ \A l \in accepted \union cut : l < next

LEMMA StoredHonest ==
  ASSUME Shape, Honest
  PROVE  ToSet(StoredLines) \subseteq Written
<1>1. ASSUME NEW n \in DOMAIN segments
      PROVE  ToSet(Scanned(segments[n])) \subseteq Written
  <2>1. ToSet(Scanned(segments[n])) =
          ToSet(segments[n].lines) \union
          IF segments[n].rest = NoRest THEN {} ELSE {segments[n].rest}
    BY ScannedTyped DEF Shape, TypeOK
  <2>2. ToSet(segments[n].lines) \subseteq Written
    BY DEF Honest
  <2>3. segments[n].rest \in cut \union {Garbled, TooLong, NoRest}
    BY DEF Honest
  <2> QED
    BY <2>1, <2>2, <2>3 DEF Written
<1>2. ToSet(StoredLines) = UNION {ToSet(Scanned(segments[n])) : n \in DOMAIN segments}
  BY DirectoryRead DEF Shape, TypeOK
<1> QED
  BY <1>1, <1>2

LEMMA ExtendedHolds ==
  ASSUME NEW l \in Lines, TargetFile(l) \in Files, NEW file, Extends(l, file)
  PROVE  /\ ToSet(TargetFile(l).lines) \subseteq ToSet(file.lines)
         /\ ToSet(file.lines) \subseteq ToSet(TargetFile(l).lines) \union {l, Garbled, TooLong}
         /\ TargetFile(l).rest = NoRest => l \in ToSet(file.lines)
<1>1. /\ \E e \in {l, Garbled, TooLong} : file.lines = Append(TargetFile(l).lines, e)
      /\ TargetFile(l).rest = NoRest => file.lines = Append(TargetFile(l).lines, l)
  BY ExtendsTyped
<1> DEFINE s == TargetFile(l).lines
<1>2. s \in Seq(Elements)
  BY DEF Files
<1>3. {l, Garbled, TooLong} \subseteq Elements
  BY DEF Elements
<1> HIDE DEF s
<1>4. \A e \in Elements : ToSet(Append(s, e)) = ToSet(s) \union {e}
  BY <1>2, AppendHolds
<1> QED
  BY <1>1, <1>3, <1>4 DEF s

LEMMA WriteKeepsHonest == Shape /\ Honest /\ Write => Honest'
<1> SUFFICES ASSUME Shape, Honest, Write PROVE Honest'
  OBVIOUS
<1> DEFINE l == next
<1>1. /\ mode = "ready" /\ l \in Lines /\ next' = l + 1 /\ TargetFile(l) \in Files
      /\ UNCHANGED <<taken, handed>> /\ next \in Nat
  BY WriteOutcomes DEF Lines
<1>2. /\ ToSet(TargetFile(l).lines) \subseteq Written
      /\ TargetFile(l).rest \in cut \union {Garbled, TooLong, NoRest}
  <2>1. ToSet(EmptyFile.lines) = {} /\ EmptyFile.rest = NoRest
    BY DEF EmptyFile, ToSet
  <2>2. ~NewSegment(l) => currentFile \in DOMAIN segments
    BY DEF NewSegment, Shape, TypeOK
  <2> QED
    BY <1>1, <2>1, <2>2, TargetTyped DEF Honest
<1>3. \A k \in accepted \union cut : k \in Nat /\ k < l
  BY DEF Honest, Shape, TypeOK, Lines
<1> HIDE DEF l
<1>4. ASSUME accepted' \subseteq accepted \union {l}, cut' \subseteq cut \union {l},
             accepted \subseteq accepted', cut \subseteq cut',
             accepted' = accepted \/ cut' = cut
      PROVE  /\ Written \subseteq Written'
             /\ accepted' \cap cut' = {}
             /\ \A k \in accepted' \union cut' : k < next'
  <2>1. l \notin accepted \union cut
    BY <1>1, <1>3 DEF Lines
  <2>2. accepted \cap cut = {}
    BY DEF Honest
  <2>3. \A k \in accepted' \union cut' : k < next'
    BY <1>1, <1>3, <1>4 DEF Lines
  <2> QED
    BY <1>4, <2>1, <2>2, <2>3 DEF Written
<1>5. ASSUME NEW file \in Files, WriteTo(l, file), ToSet(file.lines) \subseteq Written',
             file.rest \in cut' \union {Garbled, TooLong, NoRest},
             Written \subseteq Written', cut \subseteq cut',
             accepted' \cap cut' = {}, \A k \in accepted' \union cut' : k < next'
      PROVE  Honest'
  <2>1. /\ DOMAIN segments' = DOMAIN segments \union {Target(l)}
        /\ segments'[Target(l)] = file
        /\ \A n \in DOMAIN segments \ {Target(l)} : segments'[n] = segments[n]
    BY <1>1, <1>5, WriteToMoves
  <2>2. ASSUME NEW n \in DOMAIN segments'
        PROVE  /\ ToSet(segments'[n].lines) \subseteq Written'
               /\ segments'[n].rest \in cut' \union {Garbled, TooLong, NoRest}
    <3>1. CASE n = Target(l)
      BY <1>5, <2>1, <3>1
    <3>2. CASE n # Target(l)
      BY <1>5, <2>1, <3>2 DEF Honest
    <3> QED
      BY <3>1, <3>2
  <2> QED
    BY <1>1, <1>5, <2>2 DEF Honest
<1>6. ASSUME NEW file \in Files, Accepts(l, file) PROVE Honest'
  <2>1. accepted' = accepted \union {l} /\ cut' = cut
    BY <1>6 DEF Accepts
  <2>2. ToSet(file.lines) \subseteq ToSet(TargetFile(l).lines) \union {l, Garbled, TooLong}
    BY <1>1, <1>6, ExtendedHolds DEF Accepts
  <2>3. file.rest = NoRest
    BY <1>1, <1>6, ExtendsTyped DEF Accepts
  <2>4. ToSet(file.lines) \subseteq Written'
    BY <1>2, <2>1, <2>2 DEF Written
  <2> QED
    BY <1>4, <1>5, <1>6, <2>1, <2>3, <2>4 DEF Accepts
<1>7. ASSUME UNCHANGED <<segments, accepted, cut>> PROVE Honest'
  <2>1. Written' = Written /\ \A k \in accepted' \union cut' : k < next'
    BY <1>1, <1>3, <1>7 DEF Written, Lines
  <2> QED
    BY <1>1, <1>7, <2>1 DEF Honest
<1>8. CASE Fails(l, "write") /\ WriteTo(l, TargetFile(l)) /\ UNCHANGED cut
  <2>1. accepted' = accepted /\ cut' = cut
    BY <1>8 DEF Fails
  <2>2. Written' = Written
    BY <2>1 DEF Written
  <2> QED
    BY <1>1, <1>2, <1>4, <1>5, <1>8, <2>1, <2>2
<1>9. ASSUME NEW file \in Files, Tears(l, file), WriteTo(l, file), Fails(l, "torn"),
             cut' = cut \union {l}
      PROVE  Honest'
  <2>1. file.lines = TargetFile(l).lines /\ file.rest \in {l, Garbled, TooLong}
    BY <1>1, <1>9, TearsTyped
  <2>2. accepted' = accepted
    BY <1>9 DEF Fails
  <2>3. Written \subseteq Written'
    BY <1>4, <1>9, <2>2
  <2> QED
    BY <1>2, <1>4, <1>5, <1>9, <2>1, <2>2, <2>3
<1> QED
  BY <1>6, <1>7, <1>8, <1>9, WriteOutcomes DEF l, Fails, Ignored

LEMMA StepKeepsHonest == Shape /\ Honest /\ [Next]_vars => Honest'
<1> SUFFICES ASSUME Shape, Honest, [Next]_vars PROVE Honest'
  OBVIOUS
<1> USE DEF counters, reading, inputs, bounds
<1>1. CASE Open \/ OpenUnlisted \/ OpenFails
  BY <1>1 DEF Open, OpenUnlisted, OpenFails, Honest, Written
<1>2. CASE Write
  BY <1>2, WriteKeepsHonest
<1>3. CASE ReadNothing \/ ReadError \/ Close
  BY <1>3 DEF ReadNothing, ReadError, Close, Honest, Written
<1>4. CASE ReadSegments
  BY <1>4, StoredHonest DEF ReadSegments, Honest, Written
<1>5. CASE RemoveSegment
  <2>1. /\ DOMAIN segments' \subseteq DOMAIN segments
        /\ \A n \in DOMAIN segments' : segments'[n] = segments[n]
    BY <1>5 DEF RemoveSegment, Restrict
  <2> QED
    BY <1>5, <2>1 DEF RemoveSegment, Honest, Written
<1>6. CASE Return
  <2>1. ToSet(handed \o taken) = ToSet(handed) \union ToSet(taken)
    BY JoinHolds DEF Shape, TypeOK
  <2>2. ToSet(<<>>) = {}
    BY DEF ToSet
  <2> QED
    BY <1>6, <2>1, <2>2 DEF Return, Honest, Written
<1>7. CASE Crash
  <2>1. ToSet(<<>>) = {}
    BY DEF ToSet
  <2> QED
    BY <1>7, <2>1 DEF Crash, Honest, Written
<1>8. CASE UNCHANGED vars
  BY <1>8 DEF vars, Honest, Written
<1> QED
  BY <1>1, <1>2, <1>3, <1>4, <1>5, <1>6, <1>7, <1>8 DEF Next, ReadAll

LEMMA HonestKept == Spec => []Honest
<1>1. Init => Honest
  <2>1. ToSet(<<>>) = {}
    BY DEF ToSet
  <2> QED
    BY <2>1 DEF Init, Honest
<1> QED
  BY <1>1, ShapeKept, StepKeepsHonest, PTL DEF Spec

(* Main counts a line as not processed when Write returns an error or      *)
(* refuses it: it comes out of a ReadAll or a Replay only if that Write    *)
(* was cut short in the middle of the line, whatever else fails, tears a   *)
(* line or leaves files behind.                                            *)
THEOREM OnlyWrittenComesOut == Spec => []RefusedStayOut
<1>1. Shape /\ Honest => RefusedStayOut
  <2>1. Garbled \notin Lines /\ TooLong \notin Lines
    BY DEF Lines, Garbled, TooLong
  <2> QED
    BY <2>1, StoredHonest DEF Honest, Written, RefusedStayOut
<1> QED
  BY <1>1, ShapeKept, HonestKept, PTL

-----------------------------------------------------------------------------
(* The record of what has failed only grows.                               *)
LEMMA FailuresStay == [Next]_vars => failed \subseteq failed'
<1> SUFFICES ASSUME [Next]_vars PROVE failed \subseteq failed'
  OBVIOUS
<1> QED
  BY DEF Next, Open, OpenUnlisted, OpenFails, Write, Accept, WriteError, CreateError, TornWrite,
         Refuse, ReadAll, ReadNothing, ReadError, ReadSegments, RemoveSegment, Return, Close, Crash,
         Fault, bounds, vars

(* While the directory is listed and removals succeed the counter is above *)
(* the number of every file, and ReadAll removes exactly what is in the    *)
(* directory.                                                              *)
Numbered ==
  /\ mode \in {"replay", "ready"} => \A n \in DOMAIN segments : n < segmentCounter
  /\ mode = "removing" => todo = DOMAIN segments

LEMMA StepKeepsNumbered ==
  ASSUME {"remove", "list"} \cap failed' = {}, Shape, Numbered, [Next]_vars
  PROVE  Numbered'
<1> USE DEF counters, reading, inputs, bounds
<1>1. CASE Open
  BY <1>1, SegmentsBelow DEF Open, Numbered, Shape
<1>2. CASE Write
  <2> DEFINE l == next
  <2>1. /\ mode = "ready" /\ mode' = "ready" /\ l \in Lines /\ UNCHANGED <<todo, taken, handed>>
        /\ TargetFile(l) \in Files
    BY <1>2, WriteOutcomes
  <2> HIDE DEF l
  <2>2. ASSUME NEW file \in Files, WriteTo(l, file) PROVE Numbered'
    <3>1. /\ DOMAIN segments' = DOMAIN segments \union {Target(l)}
          /\ currentFile' = Target(l)
          /\ NewSegment(l) => Target(l) = segmentCounter /\ segmentCounter' = segmentCounter + 1
          /\ ~NewSegment(l) => /\ Target(l) = currentFile /\ currentFile \in DOMAIN segments
                               /\ segmentCounter' = segmentCounter
      BY <2>1, <2>2, WriteToMoves
    <3>2. \A n \in DOMAIN segments : n \in Nat /\ n < segmentCounter
      BY <2>1 DEF Numbered, Shape, TypeOK
    <3>3. segmentCounter \in Nat
      BY DEF Shape, TypeOK
    <3>4. CASE NewSegment(l)
      BY <2>1, <3>1, <3>2, <3>3, <3>4 DEF Numbered
    <3>5. CASE ~NewSegment(l)
      <4>3. \A n \in DOMAIN segments' : n < segmentCounter'
        BY <3>1, <3>2, <3>5
      <4> QED
        BY <2>1, <4>3 DEF Numbered
    <3> QED
      BY <3>4, <3>5
  <2>3. CASE UNCHANGED <<segments, segmentCounter>>
    BY <2>1, <2>3 DEF Numbered
  <2> QED
    BY <1>2, <2>1, <2>2, <2>3, WriteOutcomes DEF l, Accepts, Ignored
<1>3. CASE ReadNothing \/ ReadError \/ Close
  BY <1>3 DEF ReadNothing, ReadError, Close, Fault, Reading, CurrentClosed, Numbered
<1>4. CASE ReadSegments
  BY <1>4 DEF ReadSegments, CurrentClosed, Numbered
<1>5. CASE RemoveSegment
  BY <1>5 DEF RemoveSegment, Restrict, Fault, Numbered, Shape
<1>6. CASE Return
  BY <1>6 DEF Return, Numbered, Shape
<1>7. CASE Crash \/ OpenFails
  BY <1>7 DEF Crash, OpenFails, Numbered
<1>8. CASE OpenUnlisted
  BY <1>8 DEF OpenUnlisted, Fault
<1>9. CASE UNCHANGED vars
  BY <1>9 DEF vars, Numbered
<1> QED
  BY <1>1, <1>2, <1>3, <1>4, <1>5, <1>6, <1>7, <1>8, <1>9 DEF Next, ReadAll

Numbering == {"remove", "list"} \cap failed = {} => Numbered

LEMMA NumberingKept == Spec => []Numbering
<1>1. Init => Numbering
  BY DEF Init, Numbering, Numbered
<1>2. Shape /\ Numbering /\ [Next]_vars => Numbering'
  BY FailuresStay, StepKeepsNumbered DEF Numbering
<1> QED
  BY <1>1, <1>2, ShapeKept, PTL DEF Spec

(* Files without rests of lines that are all listed, sized and removed     *)
(* take what the account says, and no more than the quota.                 *)
Sized ==
  /\ mode \in {"replay", "ready"} => currentBytes = StoredBytes
  /\ MaxBytes > 0 => StoredBytes <= MaxBytes

LEMMA WriteToBytes ==
  ASSUME Shape, Numbered, mode = "ready", NEW l \in Lines, NEW file \in Files,
         WriteTo(l, file)
  PROVE  StoredBytes' = StoredBytes + file.size - TargetFile(l).size
<1> DEFINE T == Target(l)
           S == DOMAIN segments
<1>1. /\ DOMAIN segments' = S \union {T}
      /\ segments'[T] = file
      /\ \A n \in S \ {T} : segments'[n] = segments[n]
      /\ NewSegment(l) => T = segmentCounter
      /\ ~NewSegment(l) => T = currentFile /\ T \in S
  BY WriteToMoves
<1>2. NewSegment(l) => T \notin S
  BY <1>1 DEF Numbered, Shape, TypeOK
<1>3. TargetFile(l).size = IF T \in S THEN Sizes[T] ELSE 0
  BY <1>1, <1>2, TargetTyped DEF Sizes, EmptyFile
<1>4. \A n \in S : Sizes[n] \in Nat
  BY DirectoryRead DEF Shape, TypeOK
<1>5. file.size \in Nat
  BY DEF Files
<1>6. Sizes'[T] = file.size /\ \A n \in S \ {T} : Sizes'[n] = Sizes[n]
  BY <1>1 DEF Sizes
<1>7. StoredBytes' = SumFunctionOnSet(Sizes', S \union {T})
  BY <1>1 DEF StoredBytes
<1>8. IsFiniteSet(S)
  BY DEF Shape
<1> HIDE DEF S, T
<1>9. SumFunctionOnSet(Sizes', S \union {T}) =
        SumFunctionOnSet(Sizes, S) + Sizes'[T] - IF T \in S THEN Sizes[T] ELSE 0
  <2> DEFINE f == Sizes
             g == Sizes'
  <2>1. g[T] \in Nat /\ \A n \in S \ {T} : g[n] = f[n]
    BY <1>5, <1>6
  <2>2. \A n \in S : f[n] \in Nat
    BY <1>4
  <2> HIDE DEF f, g
  <2>3. SumFunctionOnSet(g, S \union {T}) =
          SumFunctionOnSet(f, S) + g[T] - IF T \in S THEN f[T] ELSE 0
    BY <1>8, <2>1, <2>2, SumChanged
  <2> QED
    BY <2>3 DEF f, g
<1> QED
  BY <1>3, <1>6, <1>7, <1>9 DEF StoredBytes, S

LEMMA SameDirectory ==
  ASSUME UNCHANGED segments
  PROVE  StoredBytes' = StoredBytes /\ StoredLines' = StoredLines
BY DEF StoredBytes, Sizes, StoredLines, Contents

LEMMA EmptyDirectory ==
  ASSUME Shape, DOMAIN segments = {}
  PROVE  StoredBytes = 0 /\ StoredLines = <<>>
<1>1. \A n \in DOMAIN segments : Sizes[n] \in Nat /\ Contents[n] \in Seq(Elements)
  OBVIOUS
<1>2. StoredBytes = 0
  BY <1>1, SumRecursion DEF StoredBytes, Shape
<1>3. StoredLines = <<>>
  BY <1>1, ConcatenationRecursion DEF StoredLines, Shape, TypeOK
<1> QED
  BY <1>2, <1>3

LEMMA BytesTyped == Shape => StoredBytes \in Nat
BY DirectoryRead DEF Shape, TypeOK

LEMMA BytesStayTyped == (Shape => StoredBytes \in Nat)'
BY BytesTyped, PTL

LEMMA LinesTyped == Shape => StoredLines \in Seq(Elements)
BY DirectoryRead DEF Shape, TypeOK

LEMMA LinesStayTyped == (Shape => StoredLines \in Seq(Elements))'
BY LinesTyped, PTL

LEMMA RemovedBytes ==
  ASSUME Shape, NEW n \in DOMAIN segments, segments' = Restrict(segments, DOMAIN segments \ {n})
  PROVE  StoredBytes' <= StoredBytes
<1>1. \A k \in DOMAIN segments : Sizes[k] \in Nat
  BY DirectoryRead DEF Shape, TypeOK
<1>2. /\ DOMAIN segments' = DOMAIN segments \ {n}
      /\ \A k \in DOMAIN segments \ {n} : Sizes'[k] = Sizes[k]
  BY DEF Restrict, Sizes
<1>3. StoredBytes = Sizes[n] + SumFunctionOnSet(Sizes, DOMAIN segments \ {n})
  BY <1>1, SumRecursion DEF StoredBytes, Shape
<1>4. IsFiniteSet(DOMAIN segments \ {n})
  BY FS_Subset DEF Shape
<1>5. SumFunctionOnSet(Sizes, DOMAIN segments \ {n}) \in Nat
  BY <1>1, <1>4, SumRecursion
<1>6. SumFunctionOnSet(Sizes, DOMAIN segments \ {n}) = StoredBytes'
  <2> DEFINE f == Sizes
             g == Sizes'
             R == DOMAIN segments \ {n}
  <2>1. IsFiniteSet(R) /\ \A k \in R : f[k] \in Nat /\ g[k] = f[k]
    BY <1>1, <1>2, <1>4
  <2> HIDE DEF f, g, R
  <2>2. SumFunctionOnSet(f, R) = SumFunctionOnSet(g, R)
    BY <2>1, SumSame
  <2> QED
    BY <1>2, <2>2 DEF f, g, R, StoredBytes
<1> QED
  BY <1>1, <1>3, <1>5, <1>6

LEMMA WriteKeepsSized ==
  ASSUME "torn" \notin failed', Shape, Numbered, Sized, Write
  PROVE  Sized'
<1> DEFINE l == next
<1>1. mode = "ready" /\ mode' = "ready" /\ l \in Lines /\ TargetFile(l) \in Files
  BY WriteOutcomes
<1>2. currentBytes = StoredBytes /\ StoredBytes \in Nat /\ (MaxBytes > 0 => StoredBytes <= MaxBytes)
  BY <1>1, BytesTyped DEF Sized
<1>3. TargetFile(l).size \in Nat /\ Bytes[l] \in Nat /\ MaxBytes \in Nat
  BY <1>1, SizesAssumption DEF Files
<1> HIDE DEF l
<1>4. ASSUME NEW file \in Files, Accepts(l, file) PROVE Sized'
  <2>1. file.size = TargetFile(l).size + Bytes[l]
    BY <1>1, <1>4, ExtendsTyped DEF Accepts
  <2>2. StoredBytes' = StoredBytes + file.size - TargetFile(l).size
    BY <1>1, <1>4, WriteToBytes DEF Accepts
  <2>3. currentBytes' = currentBytes + Bytes[l] /\ (MaxBytes > 0 => currentBytes + Bytes[l] <= MaxBytes)
    BY <1>2, <1>3, <1>4 DEF Accepts, Full
  <2>4. StoredBytes' = currentBytes'
    BY <1>2, <1>3, <2>1, <2>2, <2>3
  <2> QED
    BY <2>3, <2>4 DEF Sized
<1>5. CASE WriteTo(l, TargetFile(l)) /\ UNCHANGED currentBytes
  <2>1. StoredBytes' = StoredBytes + TargetFile(l).size - TargetFile(l).size
    BY <1>1, <1>5, WriteToBytes
  <2>2. StoredBytes' = StoredBytes
    BY <1>2, <1>3, <2>1
  <2> QED
    BY <1>2, <1>5, <2>2 DEF Sized
<1>6. CASE UNCHANGED <<segments, currentBytes>>
  BY <1>2, <1>6, SameDirectory DEF Sized
<1>7. ~Fails(l, "torn")
  BY DEF Fails
<1> QED
  BY <1>4, <1>5, <1>6, <1>7, WriteOutcomes DEF l, Fails, Ignored

LEMMA StepKeepsSized ==
  ASSUME {"torn", "remove", "list", "stat"} \cap failed' = {},
         Shape, Numbered, Sized, [Next]_vars
  PROVE  Sized'
<1> USE DEF counters, reading, inputs, bounds
<1>1. CASE Open
  <2>1. PICK sized \in SUBSET DOMAIN segments :
          /\ currentBytes' = BytesFound(sized)
          /\ Skipped(sized) = {} \/ Fault(Skipped(sized))
    BY <1>1 DEF Open
  <2>2. "stat" \notin Skipped(sized)
    BY <2>1 DEF Fault
  <2>3. sized = DOMAIN segments
    BY <2>2 DEF Skipped
  <2> QED
    BY <1>1, <2>1, <2>3, SameDirectory DEF Open, BytesFound, StoredBytes, Sized
<1>2. CASE Write
  BY <1>2, WriteKeepsSized
<1>3. CASE ReadNothing \/ ReadError \/ ReadSegments \/ Close \/ Crash \/ OpenFails
  BY <1>3, SameDirectory
     DEF ReadNothing, ReadError, ReadSegments, Close, Crash, OpenFails, Reading, Sized
<1>4. CASE RemoveSegment
  <2>1. /\ mode' = "removing"
        /\ Min(todo) \in DOMAIN segments
        /\ segments' = Restrict(segments, DOMAIN segments \ {Min(todo)})
    BY <1>4, LeastNumbers DEF RemoveSegment, Fault, Numbered, Shape, TypeOK
  <2>2. StoredBytes' <= StoredBytes
    BY <2>1, RemovedBytes
  <2>3. StoredBytes \in Nat /\ StoredBytes' \in Nat
    <3>1. Shape'
      BY <1>4, ReadAllKeepsShape DEF ReadAll
    <3> QED
      BY <3>1, BytesTyped, BytesStayTyped
  <2> QED
    BY <2>1, <2>2, <2>3, SizesAssumption DEF Sized
<1>5. CASE Return
  <2>1. DOMAIN segments = {} /\ UNCHANGED segments
    BY <1>5 DEF Return, Numbered
  <2>2. StoredBytes' = 0
    BY <2>1, EmptyDirectory, SameDirectory
  <2> QED
    BY <1>5, <2>2, SizesAssumption DEF Return, Reset, Sized
<1>6. CASE OpenUnlisted
  BY <1>6 DEF OpenUnlisted, Fault
<1>7. CASE UNCHANGED vars
  BY <1>7, SameDirectory DEF vars, Sized
<1> QED
  BY <1>1, <1>2, <1>3, <1>4, <1>5, <1>6, <1>7 DEF Next, ReadAll

Sizing == {"torn", "remove", "list", "stat"} \cap failed = {} => Sized

LEMMA SizingKept == Spec => []Sizing
<1>1. Init => Sizing
  <2> SUFFICES ASSUME Init PROVE Sized
    BY DEF Sizing
  <2>1. Shape /\ DOMAIN segments = {}
    BY InitialShape DEF Init
  <2>2. StoredBytes = 0
    BY <2>1, EmptyDirectory
  <2> QED
    BY <2>2, SizesAssumption DEF Init, Sized
<1>2. Shape /\ Numbering /\ Sizing /\ [Next]_vars => Sizing'
  <2> SUFFICES ASSUME Shape, Numbering, Sizing, [Next]_vars,
                      {"torn", "remove", "list", "stat"} \cap failed' = {}
               PROVE  Sized'
    BY DEF Sizing
  <2>1. Numbered /\ Sized
    BY FailuresStay DEF Numbering, Sizing
  <2> QED
    BY <2>1, StepKeepsSized
<1> QED
  BY <1>1, <1>2, ShapeKept, NumberingKept, PTL DEF Spec

-----------------------------------------------------------------------------
(* What both counters count is in files below the segment counter, where   *)
(* no new segment truncates them: they claim no more than that, whatever   *)
(* failed.  The rest at the end of the current file is not counted, and    *)
(* the next line is appended to it.                                        *)
Below == {n \in DOMAIN segments : n < segmentCounter}

Weights ==
  [n \in DOMAIN segments |->
     IF n = currentFile THEN Len(segments[n].lines) ELSE Len(Contents[n])]

Account ==
  mode \in {"replay", "ready"} =>
    /\ currentBytes <= SumFunctionOnSet(Sizes, Below)
    /\ lineCount <= SumFunctionOnSet(Weights, Below)

LEMMA WeightsTyped ==
  ASSUME Shape
  PROVE  /\ IsFiniteSet(Below) /\ IsFiniteSet(DOMAIN segments)
         /\ \A n \in DOMAIN segments :
              /\ Sizes[n] \in Nat /\ Weights[n] \in Nat /\ Len(Contents[n]) \in Nat
              /\ Len(segments[n].lines) \in Nat
              /\ Len(segments[n].lines) <= Weights[n] /\ Weights[n] <= Len(Contents[n])
         /\ SumFunctionOnSet(Sizes, Below) \in Nat /\ SumFunctionOnSet(Weights, Below) \in Nat
<1>1. IsFiniteSet(Below) /\ IsFiniteSet(DOMAIN segments)
  BY FS_Subset DEF Shape, Below
<1>2. ASSUME NEW n \in DOMAIN segments
      PROVE  /\ Sizes[n] \in Nat /\ Weights[n] \in Nat /\ Len(Contents[n]) \in Nat
             /\ Len(segments[n].lines) \in Nat
             /\ Len(segments[n].lines) <= Weights[n] /\ Weights[n] <= Len(Contents[n])
  <2>1. segments[n] \in Files
    BY DEF Shape, TypeOK
  <2>2. /\ Len(segments[n].lines) \in Nat /\ Len(Contents[n]) \in Nat
        /\ Len(segments[n].lines) <= Len(Contents[n])
    <3>1. /\ Len(segments[n].lines) \in Nat
          /\ \/ Len(Scanned(segments[n])) = Len(segments[n].lines) + 0
             \/ Len(Scanned(segments[n])) = Len(segments[n].lines) + 1
      BY <2>1, ScannedTyped
    <3>2. Contents[n] = Scanned(segments[n])
      BY DEF Contents
    <3> QED
      BY <3>1, <3>2
  <2>3. Sizes[n] \in Nat
    BY DirectoryRead DEF Shape, TypeOK
  <2>4. Weights[n] \in {Len(segments[n].lines), Len(Contents[n])}
    BY DEF Weights
  <2> QED
    BY <2>2, <2>3, <2>4
<1>3. \A n \in Below : Sizes[n] \in Nat /\ Weights[n] \in Nat
  BY <1>2 DEF Below
<1>4. SumFunctionOnSet(Sizes, Below) \in Nat
  BY <1>1, <1>3, SumRecursion
<1>5. SumFunctionOnSet(Weights, Below) \in Nat
  BY <1>1, <1>3, SumRecursion
<1> QED
  BY <1>1, <1>2, <1>4, <1>5

LEMMA AccountCovered ==
  ASSUME Shape, Account, mode \in {"replay", "ready"}
  PROVE  currentBytes <= StoredBytes /\ lineCount <= Len(StoredLines)
<1> DEFINE S == DOMAIN segments
           lengths == [n \in S |-> Len(Contents[n])]
<1>1. /\ IsFiniteSet(S) /\ Below \in SUBSET S
      /\ \A n \in S : /\ Sizes[n] \in Nat /\ lengths[n] \in Nat
                       /\ Weights[n] \in Nat /\ Weights[n] <= lengths[n]
      /\ SumFunctionOnSet(Sizes, Below) \in Nat /\ SumFunctionOnSet(Weights, Below) \in Nat
  BY WeightsTyped DEF Below
<1>2. \A n \in S : Contents[n] \in Seq(Elements) /\ lengths[n] = Len(Contents[n])
  BY DirectoryRead DEF Shape, TypeOK
<1>3. Len(StoredLines) = SumFunctionOnSet(lengths, S)
  <2> HIDE DEF lengths
  <2>1. S \in SUBSET Nat
    BY DEF Shape, TypeOK
  <2> QED
    BY <1>1, <1>2, <2>1, ConcatenationLength DEF StoredLines
<1> HIDE DEF lengths, S
<1>4. SumFunctionOnSet(Sizes, Below) <= SumFunctionOnSet(Sizes, S)
  <2>1. \A n \in Below : Sizes[n] \in Nat /\ Sizes[n] <= Sizes[n]
    BY <1>1
  <2> QED
    BY <1>1, <2>1, SumAtMost
<1>5. SumFunctionOnSet(Weights, Below) <= SumFunctionOnSet(lengths, S)
  <2>1. \A n \in Below : Weights[n] \in Nat /\ Weights[n] <= lengths[n]
    BY <1>1
  <2> QED
    BY <1>1, <2>1, SumAtMost
<1>6. SumFunctionOnSet(Sizes, S) \in Nat /\ SumFunctionOnSet(lengths, S) \in Nat
  <2>1. SumFunctionOnSet(Sizes, S) \in Nat
    BY <1>1, SumRecursion
  <2>2. SumFunctionOnSet(lengths, S) \in Nat
    BY <1>1, SumRecursion
  <2> QED
    BY <2>1, <2>2
<1>7. currentBytes \in Nat /\ lineCount \in Nat
  BY DEF Shape, TypeOK
<1> QED
  BY <1>1, <1>3, <1>4, <1>5, <1>6, <1>7 DEF Account, StoredBytes, S

Weighed ==
  /\ \A n \in DOMAIN segments : Sizes[n] \in Nat /\ Weights[n] \in Nat
  /\ SumFunctionOnSet(Sizes, Below) \in Nat /\ SumFunctionOnSet(Weights, Below) \in Nat

LEMMA WeightsKnown == Shape => Weighed
BY WeightsTyped DEF Weighed

LEMMA WeightsStayKnown == (Shape => Weighed)'
BY WeightsKnown, PTL

LEMMA WeightsStayTyped == Shape' =>
  /\ \A n \in DOMAIN segments' : Sizes'[n] \in Nat /\ Weights'[n] \in Nat
  /\ SumFunctionOnSet(Sizes', Below') \in Nat /\ SumFunctionOnSet(Weights', Below') \in Nat
BY WeightsStayKnown DEF Weighed

(* A write adds to the files below the counter what it adds to its own.    *)
LEMMA WriteToAdds ==
  ASSUME Shape, Shape', mode = "ready", NEW l \in Lines, NEW file \in Files, WriteTo(l, file)
  PROVE  /\ SumFunctionOnSet(Sizes', Below') >=
              SumFunctionOnSet(Sizes, Below) + file.size - TargetFile(l).size
         /\ SumFunctionOnSet(Weights', Below') >=
              SumFunctionOnSet(Weights, Below) + Len(file.lines) - Len(TargetFile(l).lines)
<1> DEFINE T == Target(l)
<1>1. /\ T \in Nat /\ DOMAIN segments' = DOMAIN segments \union {T}
      /\ segments'[T] = file
      /\ \A n \in DOMAIN segments \ {T} : segments'[n] = segments[n]
      /\ currentFile' = T
      /\ NewSegment(l) => T = segmentCounter /\ segmentCounter' = segmentCounter + 1
      /\ ~NewSegment(l) => /\ T = currentFile /\ currentFile \in DOMAIN segments
                           /\ segmentCounter' = segmentCounter
  BY WriteToMoves
<1>2. segmentCounter \in Nat /\ DOMAIN segments \subseteq Nat
  BY DEF Shape, TypeOK
<1>3. ~NewSegment(l) => T = segmentCounter - 1
  BY <1>1 DEF NewSegment, Shape
<1>4. Below' = Below \union {T} /\ (T \in Below <=> ~NewSegment(l))
  <2>1. CASE NewSegment(l)
    BY <1>1, <1>2, <2>1 DEF Below
  <2>2. CASE ~NewSegment(l)
    BY <1>1, <1>2, <1>3, <2>2 DEF Below
  <2> QED
    BY <2>1, <2>2
<1>5. IF T \in Below THEN TargetFile(l) = segments[T] /\ T = currentFile ELSE TargetFile(l) = EmptyFile
  BY <1>1, <1>4, TargetTyped
<1>6. EmptyFile.size = 0 /\ Len(EmptyFile.lines) = 0
  BY DEF EmptyFile
<1>7. Sizes'[T] = file.size /\ Weights'[T] = Len(file.lines) /\ T \in DOMAIN segments'
  BY <1>1 DEF Sizes, Weights
<1>8. T \in Below => Sizes[T] = TargetFile(l).size /\ Weights[T] = Len(TargetFile(l).lines)
  BY <1>5 DEF Sizes, Weights, Below
<1>9. ASSUME NEW n \in Below \ {T}
      PROVE  Sizes[n] <= Sizes'[n] /\ Weights[n] <= Weights'[n] /\ Sizes'[n] \in Nat /\ Weights'[n] \in Nat
  <2>1. n \in DOMAIN segments /\ n \in DOMAIN segments' /\ segments'[n] = segments[n] /\ n # currentFile'
    BY <1>1 DEF Below
  <2>2. Weights'[n] = Len(Contents[n]) /\ Sizes'[n] = Sizes[n]
    BY <2>1 DEF Weights, Contents, Sizes
  <2>3. Weights[n] <= Len(Contents[n]) /\ Sizes[n] \in Nat /\ Len(Contents[n]) \in Nat
    BY <2>1, WeightsTyped
  <2> QED
    BY <2>2, <2>3
<1>10. /\ IsFiniteSet(Below)
       /\ \A n \in Below : Sizes[n] \in Nat /\ Weights[n] \in Nat
       /\ Sizes'[T] \in Nat /\ Weights'[T] \in Nat
  BY <1>7, WeightsTyped, WeightsStayTyped DEF Below
<1> HIDE DEF T
<1>11. SumFunctionOnSet(Sizes', Below \union {T}) >=
         SumFunctionOnSet(Sizes, Below) + Sizes'[T] - IF T \in Below THEN Sizes[T] ELSE 0
  <2> DEFINE f == Sizes
             g == Sizes'
             S == Below
  <2>1. /\ IsFiniteSet(S) /\ (\A x \in S : f[x] \in Nat) /\ g[T] \in Nat
        /\ \A x \in S \ {T} : g[x] \in Nat /\ f[x] <= g[x]
    BY <1>9, <1>10
  <2> HIDE DEF f, g, S
  <2>2. SumFunctionOnSet(g, S \union {T}) >= SumFunctionOnSet(f, S) + g[T] - IF T \in S THEN f[T] ELSE 0
    BY <2>1, SumRaised
  <2> QED
    BY <2>2 DEF f, g, S
<1>12. SumFunctionOnSet(Weights', Below \union {T}) >=
         SumFunctionOnSet(Weights, Below) + Weights'[T] - IF T \in Below THEN Weights[T] ELSE 0
  <2> DEFINE f == Weights
             g == Weights'
             S == Below
  <2>1. /\ IsFiniteSet(S) /\ (\A x \in S : f[x] \in Nat) /\ g[T] \in Nat
        /\ \A x \in S \ {T} : g[x] \in Nat /\ f[x] <= g[x]
    BY <1>9, <1>10
  <2> HIDE DEF f, g, S
  <2>2. SumFunctionOnSet(g, S \union {T}) >= SumFunctionOnSet(f, S) + g[T] - IF T \in S THEN f[T] ELSE 0
    BY <2>1, SumRaised
  <2> QED
    BY <2>2 DEF f, g, S
<1> QED
  BY <1>4, <1>5, <1>6, <1>7, <1>8, <1>11, <1>12

(* Closing the current file makes its rest one of the lines.               *)
LEMMA ClosingAdds ==
  ASSUME Shape, Shape', UNCHANGED <<segments, segmentCounter>>, currentFile' \in {currentFile, NoFile}
  PROVE  /\ SumFunctionOnSet(Sizes', Below') = SumFunctionOnSet(Sizes, Below)
         /\ SumFunctionOnSet(Weights, Below) <= SumFunctionOnSet(Weights', Below')
<1>1. Sizes' = Sizes /\ Below' = Below /\ Contents' = Contents
  BY DEF Sizes, Below, Contents
<1>2. ASSUME NEW n \in Below
      PROVE  Weights[n] \in Nat /\ Weights'[n] \in Nat /\ Weights[n] <= Weights'[n]
  <2>1. n \in DOMAIN segments /\ n \in Nat
    BY DEF Below, Shape, TypeOK
  <2>2. Weights'[n] \in {Weights[n], Len(Contents[n])}
    BY <1>1, <2>1 DEF Weights, NoFile
  <2> QED
    BY <2>1, <2>2, WeightsTyped
<1>3. IsFiniteSet(Below)
  BY WeightsTyped
<1> DEFINE f == Weights
           g == Weights'
           S == Below
<1>4. /\ IsFiniteSet(S) /\ S \in SUBSET S /\ \A x \in S : g[x] \in Nat
      /\ \A x \in S : f[x] \in Nat /\ f[x] <= g[x]
  BY <1>2, <1>3
<1> HIDE DEF f, g, S
<1>5. SumFunctionOnSet(f, S) <= SumFunctionOnSet(g, S)
  BY <1>4, SumAtMost
<1> QED
  BY <1>1, <1>5 DEF f, g, S

LEMMA WriteKeepsAccount ==
  ASSUME Shape, Shape', Account, Write
  PROVE  Account'
<1> DEFINE l == next
           B == SumFunctionOnSet(Sizes, Below)
           L == SumFunctionOnSet(Weights, Below)
<1>1. mode = "ready" /\ mode' = "ready" /\ l \in Lines /\ TargetFile(l) \in Files
  BY WriteOutcomes
<1>2. /\ B \in Nat /\ L \in Nat /\ B' \in Nat /\ L' \in Nat
      /\ currentBytes \in Nat /\ lineCount \in Nat /\ currentBytes <= B /\ lineCount <= L
  BY <1>1, WeightsTyped, WeightsStayTyped DEF Account, Shape, TypeOK
<1>3. TargetFile(l).size \in Nat /\ Len(TargetFile(l).lines) \in Nat /\ Bytes[l] \in Nat
      /\ TargetFile(l).lines \in Seq(Elements)
  BY <1>1, SizesAssumption, ScannedTyped DEF Files
<1> HIDE DEF l, B, L
<1>4. ASSUME currentBytes' <= B', lineCount' <= L' PROVE Account'
  BY <1>4 DEF Account, B, L
<1>5. ASSUME NEW file \in Files, WriteTo(l, file)
      PROVE  /\ B' >= B + file.size - TargetFile(l).size
             /\ L' >= L + Len(file.lines) - Len(TargetFile(l).lines)
  BY <1>1, <1>5, WriteToAdds DEF B, L
<1>6. ASSUME NEW file \in Files, Accepts(l, file) PROVE Account'
  <2>1. /\ file.size = TargetFile(l).size + Bytes[l]
        /\ \E e \in {l, Garbled, TooLong} : file.lines = Append(TargetFile(l).lines, e)
    BY <1>1, <1>6, ExtendsTyped DEF Accepts
  <2>2. Len(file.lines) = Len(TargetFile(l).lines) + 1
    <3>1. {l, Garbled, TooLong} \subseteq Elements
      BY <1>1 DEF Elements
    <3> QED
      BY <1>3, <2>1, <3>1, AppendProperties
  <2>3. currentBytes' = currentBytes + Bytes[l] /\ lineCount' = lineCount + 1 /\ WriteTo(l, file)
    BY <1>6 DEF Accepts
  <2>4. B' >= B + file.size - TargetFile(l).size /\ L' >= L + Len(file.lines) - Len(TargetFile(l).lines)
    BY <1>5, <2>3
  <2> QED
    BY <1>2, <1>3, <1>4, <2>1, <2>2, <2>3, <2>4
<1>7. ASSUME NEW file \in Files, WriteTo(l, file), file.lines = TargetFile(l).lines,
             file.size \in Nat, file.size >= TargetFile(l).size, UNCHANGED <<currentBytes, lineCount>>
      PROVE  Account'
  <2>1. B' >= B + file.size - TargetFile(l).size /\ L' >= L + Len(file.lines) - Len(TargetFile(l).lines)
    BY <1>5, <1>7
  <2> QED
    BY <1>2, <1>3, <1>4, <1>7, <2>1
<1>8. CASE WriteTo(l, TargetFile(l)) /\ UNCHANGED <<currentBytes, lineCount>>
  BY <1>1, <1>3, <1>7, <1>8
<1>9. ASSUME NEW file \in Files, Tears(l, file), WriteTo(l, file), UNCHANGED <<currentBytes, lineCount>>
      PROVE  Account'
  <2>1. file.lines = TargetFile(l).lines /\ file.size \in Nat /\ file.size >= TargetFile(l).size
    BY <1>1, <1>9, TearsTyped
  <2> QED
    BY <1>7, <1>9, <2>1
<1>10. CASE /\ UNCHANGED <<segments, segmentCounter, currentBytes, lineCount>>
            /\ currentFile' \in {currentFile, NoFile}
  <2>1. B' = B /\ L <= L'
    BY <1>10, ClosingAdds DEF B, L
  <2> QED
    BY <1>2, <1>4, <1>10, <2>1
<1> QED
  BY <1>6, <1>8, <1>9, <1>10, WriteOutcomes DEF l, Fails, Ignored

(* What NewDiskBuffer counts is there.                                     *)
LEMMA OpenKeepsAccount ==
  ASSUME Shape, Shape', Open
  PROVE  Account'
<1> DEFINE S == DOMAIN segments
<1>1. PICK sized \in SUBSET S : currentBytes' = BytesFound(sized) /\ lineCount' \in 0 .. LinesFound(sized)
  BY DEF Open
<1>2. /\ UNCHANGED <<segments, currentFile>> /\ currentFile = NoFile
      /\ segmentCounter' = NextSegment
  BY DEF Open, Shape
<1>3. Below' = S /\ Sizes' = Sizes
  BY <1>2, SegmentsBelow DEF Below, Sizes
<1>4. \A n \in S : Weights'[n] = Len(Contents[n])
  <2>1. \A n \in S : n # NoFile
    BY DEF Shape, TypeOK, NoFile
  <2> QED
    BY <1>2, <2>1 DEF Weights, Contents
<1>5. /\ IsFiniteSet(S) /\ IsFiniteSet(sized)
      /\ \A n \in S : Sizes[n] \in Nat /\ Counts[n] \in Nat /\ Weights'[n] \in Nat
      /\ \A n \in S : Counts[n] <= Weights'[n]
  BY <1>4, WeightsTyped, CountsBounded, FoundTyped
<1> HIDE DEF S
<1>6. SumFunctionOnSet(Sizes, sized) <= SumFunctionOnSet(Sizes, S)
  <2>1. \A n \in sized : Sizes[n] \in Nat /\ Sizes[n] <= Sizes[n]
    BY <1>5
  <2> QED
    BY <1>5, <2>1, SumAtMost
<1>7. SumFunctionOnSet(Counts, sized) <= SumFunctionOnSet(Weights', S)
  <2> DEFINE f == Weights'
             g == Counts
  <2>1. (\A n \in S : f[n] \in Nat) /\ \A n \in sized : g[n] \in Nat /\ g[n] <= f[n]
    BY <1>5
  <2> HIDE DEF f, g
  <2>2. SumFunctionOnSet(g, sized) <= SumFunctionOnSet(f, S)
    BY <1>5, <2>1, SumAtMost
  <2> QED
    BY <2>2 DEF f, g
<1>8. BytesFound(sized) \in Nat /\ LinesFound(sized) \in Nat
  BY FoundTyped DEF S
<1>9. SumFunctionOnSet(Sizes', Below') \in Nat /\ SumFunctionOnSet(Weights', Below') \in Nat
  BY WeightsStayTyped
<1> QED
  BY <1>1, <1>3, <1>6, <1>7, <1>8, <1>9 DEF Account, BytesFound, LinesFound

LEMMA StepKeepsAccount == Shape /\ Account /\ [Next]_vars => Account'
<1> SUFFICES ASSUME Shape, Account, [Next]_vars PROVE Account'
  OBVIOUS
<1> USE DEF counters, reading, inputs, bounds
<1>1. Shape'
  BY StepKeepsShape
<1>2. CASE Open
  BY <1>1, <1>2, OpenKeepsAccount
<1>3. CASE Write
  BY <1>1, <1>3, WriteKeepsAccount
<1>4. CASE ReadNothing \/ ReadError \/ Close \/ UNCHANGED vars
  <2>1. /\ UNCHANGED <<segments, segmentCounter, currentBytes, lineCount>>
        /\ currentFile' \in {currentFile, NoFile}
        /\ mode' \in {"replay", "ready"} => mode \in {"replay", "ready"}
    BY <1>4 DEF ReadNothing, ReadError, Close, Reading, CurrentClosed, vars
  <2>2. /\ SumFunctionOnSet(Sizes', Below') = SumFunctionOnSet(Sizes, Below)
        /\ SumFunctionOnSet(Weights, Below) <= SumFunctionOnSet(Weights', Below')
    BY <1>1, <2>1, ClosingAdds
  <2>3. /\ SumFunctionOnSet(Weights, Below) \in Nat /\ SumFunctionOnSet(Weights', Below') \in Nat
        /\ lineCount \in Nat
    BY <1>1, WeightsTyped, WeightsStayTyped DEF Shape, TypeOK
  <2> QED
    BY <2>1, <2>2, <2>3 DEF Account
<1>5. CASE ReadSegments \/ RemoveSegment \/ Crash \/ OpenFails
  BY <1>5 DEF ReadSegments, RemoveSegment, Crash, OpenFails, Account
<1>6. CASE Return \/ OpenUnlisted
  <2>1. currentBytes' = 0 /\ lineCount' = 0
    BY <1>6 DEF Return, OpenUnlisted, Reset
  <2> QED
    BY <1>1, <2>1, WeightsStayTyped DEF Account
<1> QED
  BY <1>2, <1>3, <1>4, <1>5, <1>6 DEF Next, ReadAll

LEMMA AccountKept == Spec => []Account
<1>1. Init => Account
  BY DEF Init, Account
<1> QED
  BY <1>1, ShapeKept, StepKeepsAccount, PTL DEF Spec

(* The account by which Write enforces the quota never claims bytes that   *)
(* are not there, whatever fails, in every life of the process; it is the  *)
(* number of bytes in the directory until a write is cut short, a file is  *)
(* not removed, or a restart cannot list or size one, after rotations,     *)
(* other failures, and crashes in the middle of a ReadAll.                 *)
THEOREM BytesTracked == Spec => []SizeTracked
<1>1. Shape /\ Account /\ Sizing => SizeTracked
  BY AccountCovered DEF Sizing, Sized, SizeTracked
<1> QED
  BY <1>1, ShapeKept, AccountKept, SizingKept, PTL

(* The files never take more than max_disk_bytes, also across restarts,    *)
(* until one of these failures lets the account fall short of them.        *)
THEOREM QuotaKept == Spec => []WithinLimit
<1>1. Sizing => WithinLimit
  BY DEF Sizing, Sized, WithinLimit
<1> QED
  BY <1>1, SizingKept, PTL

-----------------------------------------------------------------------------
(* The lines, while every write is whole and removals succeed.             *)
Whole == \A n \in DOMAIN segments : segments[n].rest = NoRest

(* ReadAll removes from the front what it is going to return.              *)
Draining ==
  mode = "removing" =>
    \E front \in Seq(Elements) : taken = front \o StoredLines

Ordered == Whole /\ Draining

LEMMA RestOfJoin ==
  ASSUME NEW X, NEW s \in Seq(X), NEW t \in Seq(X)
  PROVE  SubSeq(s \o t, Len(s) + 1, Len(s \o t)) = t
<1>1. s \o t \in Seq(X) /\ Len(s \o t) = Len(s) + Len(t)
  BY ConcatProperties
<1>2. CASE t = <<>>
  BY <1>1, <1>2, SubSeqEmpty
<1>3. CASE t # <<>>
  <2>1. Len(t) \in Nat \ {0} /\ Len(s) \in Nat
    BY <1>3, EmptySeq
  <2>2. SubSeq(s \o t, Len(s) + 1, Len(s) + Len(t)) = SubSeq(t, 1, Len(t))
    <3>1. /\ Len(s) + 1 \in Len(s) + 1 .. Len(s) + Len(t)
          /\ Len(s) + Len(t) \in Len(s) + 1 .. Len(s) + Len(t)
          /\ (Len(s) + 1) - Len(s) = 1 /\ (Len(s) + Len(t)) - Len(s) = Len(t)
      BY <2>1
    <3> QED
      BY <3>1, SubSeqOfConcat2
  <2>3. SubSeq(t, 1, Len(t)) = t
    BY SubSeqFull
  <2> QED
    BY <1>1, <2>2, <2>3
<1> QED
  BY <1>2, <1>3

(* A write changes the last file, or adds one behind it.                   *)
LEMMA WriteToLines ==
  ASSUME Shape, Numbered, mode = "ready", NEW l \in Lines, NEW file \in Files,
         WriteTo(l, file)
  PROVE  \E before \in Seq(Elements) :
           /\ StoredLines = before \o Scanned(TargetFile(l))
           /\ StoredLines' = before \o Scanned(file)
<1> DEFINE T == Target(l)
           S == DOMAIN segments
           R == S \ {T}
           before == Concatenated(Contents, R)
<1>1. /\ T \in Nat
      /\ DOMAIN segments' = S \union {T}
      /\ segments'[T] = file
      /\ \A n \in R : segments'[n] = segments[n]
      /\ NewSegment(l) => T = segmentCounter
      /\ ~NewSegment(l) => T = currentFile /\ T \in S
  BY WriteToMoves
<1>2. \A n \in S : n \in Nat /\ n < segmentCounter
  BY DEF Numbered, Shape, TypeOK
<1>3. \A n \in R : n < T
  <2>1. CASE NewSegment(l)
    BY <1>1, <1>2, <2>1
  <2>2. CASE ~NewSegment(l)
    <3>1. T = segmentCounter - 1
      BY <1>1, <2>2 DEF NewSegment, Shape
    <3>2. segmentCounter \in Nat
      BY DEF Shape, TypeOK
    <3> QED
      BY <1>2, <3>1, <3>2
  <2> QED
    BY <2>1, <2>2
<1>4. R \in SUBSET Nat /\ IsFiniteSet(R)
  BY FS_Subset DEF Shape, TypeOK
<1>5. \A n \in S : Contents[n] \in Seq(Elements) /\ Contents[n] = Scanned(segments[n])
  BY DirectoryRead DEF Shape, TypeOK, Contents
<1>6. Scanned(file) \in Seq(Elements) /\ Contents'[T] = Scanned(file)
  BY <1>1, ScannedTyped DEF Contents
<1>7. \A n \in R : Contents'[n] = Contents[n]
  BY <1>1 DEF Contents
<1>8. before \in Seq(Elements)
  <2>1. \A n \in R : Contents[n] \in Seq(Elements)
    BY <1>5
  <2> HIDE DEF R
  <2> QED
    BY <1>4, <2>1, ConcatenationRecursion
<1>9. StoredLines = before \o Scanned(TargetFile(l))
  <2>1. CASE T \in S
    <3>1. ~NewSegment(l)
      BY <1>1, <1>2, <2>1 DEF Shape, TypeOK
    <3>2. Scanned(TargetFile(l)) = Contents[T]
      BY <1>1, <1>5, <3>1, TargetTyped
    <3>3. R \union {T} = S
      BY <2>1
    <3>4. \A n \in R \union {T} : Contents[n] \in Seq(Elements)
      BY <1>5, <2>1
    <3>5. Concatenated(Contents, R \union {T}) = before \o Contents[T]
      <4> HIDE DEF R
      <4> QED
        BY <1>1, <1>3, <1>4, <3>4, ConcatenationLast
    <3> QED
      BY <3>2, <3>3, <3>5 DEF StoredLines
  <2>2. CASE T \notin S
    <3>1. Scanned(TargetFile(l)) = <<>>
      <4>1. TargetFile(l) = EmptyFile /\ EmptyFile.lines = <<>> /\ EmptyFile.rest = NoRest
        BY <1>1, <2>2, TargetTyped DEF EmptyFile
      <4> QED
        BY <4>1, TargetTyped, ScannedTyped
    <3>2. R = S
      BY <2>2
    <3>3. before \o <<>> = before
      BY <1>8, ConcatEmptySeq
    <3> QED
      BY <3>1, <3>2, <3>3 DEF StoredLines
  <2> QED
    BY <2>1, <2>2
<1>10. StoredLines' = before \o Scanned(file)
  <2> DEFINE f == Contents
             g == Contents'
  <2>1. \A n \in R \union {T} : g[n] \in Seq(Elements)
    BY <1>5, <1>6, <1>7
  <2>2. \A n \in R : f[n] \in Seq(Elements) /\ g[n] = f[n]
    BY <1>5, <1>7
  <2>3. R \union {T} = S \union {T}
    OBVIOUS
  <2> HIDE DEF f, g, R
  <2>4. Concatenated(g, R \union {T}) = Concatenated(g, R) \o g[T]
    BY <1>1, <1>3, <1>4, <2>1, ConcatenationLast
  <2>5. Concatenated(f, R) = Concatenated(g, R)
    BY <1>4, <2>2, ConcatenationSame
  <2> QED
    BY <1>1, <1>6, <2>3, <2>4, <2>5 DEF f, g, StoredLines
<1> QED
  BY <1>8, <1>9, <1>10

LEMMA WholeTarget ==
  ASSUME Shape, Whole, NEW l \in Lines
  PROVE  TargetFile(l).rest = NoRest
<1>1. NewSegment(l) => TargetFile(l) = EmptyFile
  BY TargetTyped
<1>2. ~NewSegment(l) => TargetFile(l) = segments[currentFile] /\ currentFile \in DOMAIN segments
  BY TargetTyped DEF NewSegment, Shape, TypeOK
<1> QED
  BY <1>1, <1>2 DEF EmptyFile, Whole

LEMMA AcceptAppends ==
  ASSUME Shape, Numbered, Whole, mode = "ready", NEW l \in Lines, NEW new \in Files, Accepts(l, new)
  PROVE  StoredLines' = Append(StoredLines, l)
<1> DEFINE file == TargetFile(l)
<1>1. file \in Files /\ file.rest = NoRest
  BY TargetTyped, WholeTarget
<1>2. new.lines = Append(file.lines, l) /\ new.rest = NoRest /\ WriteTo(l, new)
  BY <1>1, ExtendsTyped DEF Accepts
<1>3. \E before \in Seq(Elements) :
        /\ StoredLines = before \o Scanned(file)
        /\ StoredLines' = before \o Scanned(new)
  BY <1>2, WriteToLines
<1> HIDE DEF file
<1>4. /\ Scanned(file) = file.lines
      /\ Scanned(new) = Append(file.lines, l)
      /\ file.lines \in Seq(Elements)
  BY <1>1, <1>2, ScannedTyped
<1>5. PICK before \in Seq(Elements) :
        /\ StoredLines = before \o file.lines
        /\ StoredLines' = before \o Append(file.lines, l)
  BY <1>3, <1>4
<1>6. l \in Elements
  BY DEF Elements
<1>7. Append(file.lines, l) = file.lines \o <<l>> /\ <<l>> \in Seq(Elements)
  BY <1>4, <1>6, AppendIsConcat
<1>8. before \o (file.lines \o <<l>>) = (before \o file.lines) \o <<l>>
  <2>1. \A a, b, c \in Seq(Elements) : (a \o b) \o c = a \o (b \o c)
    BY ConcatAssociative
  <2> QED
    BY <1>4, <1>7, <2>1
<1>9. StoredLines \in Seq(Elements)
  BY LinesTyped
<1>10. Append(StoredLines, l) = StoredLines \o <<l>>
  BY <1>6, <1>9, AppendIsConcat
<1> QED
  BY <1>5, <1>7, <1>8, <1>10

(* The front of the directory is removed.                                  *)
LEMMA RemovedLines ==
  ASSUME Shape, DOMAIN segments # {},
         segments' = Restrict(segments, DOMAIN segments \ {Min(DOMAIN segments)})
  PROVE  /\ Contents[Min(DOMAIN segments)] \in Seq(Elements)
         /\ StoredLines = Contents[Min(DOMAIN segments)] \o StoredLines'
<1> DEFINE S == DOMAIN segments
           n == Min(S)
           R == S \ {n}
<1>1. n \in S
  BY LeastNumbers DEF Shape, TypeOK
<1>2. \A k \in S : Contents[k] \in Seq(Elements)
  BY DirectoryRead DEF Shape, TypeOK
<1>3. StoredLines = Contents[n] \o Concatenated(Contents, R)
  BY <1>2, ConcatenationRecursion DEF StoredLines, Shape, TypeOK
<1>4. R \in SUBSET Nat /\ IsFiniteSet(R)
  BY FS_Subset DEF Shape, TypeOK
<1>5. DOMAIN segments' = R /\ \A k \in R : Contents'[k] = Contents[k]
  BY DEF Restrict, Contents
<1>6. Concatenated(Contents, R) = StoredLines'
  <2> DEFINE f == Contents
             g == Contents'
  <2>1. \A k \in R : f[k] \in Seq(Elements) /\ g[k] = f[k]
    BY <1>2, <1>5
  <2> HIDE DEF f, g, R
  <2>2. Concatenated(f, R) = Concatenated(g, R)
    BY <1>4, <2>1, ConcatenationSame
  <2> QED
    BY <1>5, <2>2 DEF f, g, StoredLines
<1> QED
  BY <1>1, <1>2, <1>3, <1>6

(* What a Write does to the lines when no write is cut short.              *)
LEMMA WriteOfLines ==
  ASSUME "torn" \notin failed', Shape, Numbered, Whole, Write
  PROVE  /\ mode = "ready" /\ mode' = "ready" /\ next \in Lines /\ UNCHANGED handed
         /\ Whole'
         /\ \/ StoredLines' = Append(StoredLines, next) /\ lineCount' = lineCount + 1
            \/ StoredLines' = StoredLines /\ lineCount' = lineCount
<1> DEFINE l == next
<1>1. mode = "ready" /\ mode' = "ready" /\ l \in Lines /\ UNCHANGED handed /\ TargetFile(l) \in Files
  BY WriteOutcomes
<1>2. TargetFile(l).rest = NoRest
  BY <1>1, WholeTarget
<1> HIDE DEF l
<1>3. ASSUME NEW file \in Files, file.rest = NoRest, WriteTo(l, file) PROVE Whole'
  BY <1>1, <1>3, WriteToMoves DEF Whole
<1>4. ASSUME NEW file \in Files, Accepts(l, file)
      PROVE  Whole' /\ StoredLines' = Append(StoredLines, l) /\ lineCount' = lineCount + 1
  <2>1. file.rest = NoRest /\ WriteTo(l, file) /\ lineCount' = lineCount + 1
    BY <1>1, <1>4, ExtendsTyped DEF Accepts
  <2> QED
    BY <1>1, <1>3, <1>4, <2>1, AcceptAppends
<1>5. CASE WriteTo(l, TargetFile(l)) /\ UNCHANGED lineCount
  <2>1. StoredLines' = StoredLines
    BY <1>1, <1>5, WriteToLines
  <2>2. Whole'
    BY <1>1, <1>2, <1>3, <1>5
  <2> QED
    BY <1>1, <1>5, <2>1, <2>2 DEF l
<1>6. CASE UNCHANGED <<segments, lineCount>>
  <2>1. Whole'
    BY <1>6 DEF Whole
  <2> QED
    BY <1>1, <1>6, <2>1, SameDirectory DEF l
<1>7. ~Fails(l, "torn")
  BY DEF Fails
<1> QED
  BY <1>1, <1>4, <1>5, <1>6, <1>7, WriteOutcomes DEF l, Fails, Ignored

LEMMA StepKeepsOrdered ==
  ASSUME {"torn", "remove", "list"} \cap failed' = {}, Shape, Numbered, Ordered, [Next]_vars
  PROVE  Ordered'
<1> USE DEF counters, reading, inputs, bounds
<1>1. CASE Open \/ OpenUnlisted \/ OpenFails \/ ReadNothing \/ ReadError \/ Close \/ Crash
  <2>1. UNCHANGED segments /\ mode' # "removing"
    BY <1>1 DEF Open, OpenUnlisted, OpenFails, ReadNothing, ReadError, Close, Crash
  <2> QED
    BY <2>1 DEF Ordered, Whole, Draining
<1>2. CASE Write
  <2>1. mode' # "removing"
    BY <1>2 DEF Write
  <2> QED
    BY <1>2, <2>1, WriteOfLines DEF Ordered, Draining
<1>3. CASE ReadSegments
  <2>1. StoredLines' = StoredLines /\ taken' = StoredLines
    BY <1>3, SameDirectory DEF ReadSegments
  <2>2. StoredLines \in Seq(Elements) /\ <<>> \in Seq(Elements)
    BY DirectoryRead DEF Shape, TypeOK
  <2>3. StoredLines = <<>> \o StoredLines
    BY <2>2, ConcatEmptySeq
  <2> QED
    BY <1>3, <2>1, <2>2, <2>3 DEF ReadSegments, Ordered, Whole, Draining
<1>4. CASE RemoveSegment
  <2>1. /\ mode = "removing" /\ mode' = "removing" /\ taken' = taken
        /\ todo = DOMAIN segments /\ DOMAIN segments # {}
        /\ segments' = Restrict(segments, DOMAIN segments \ {Min(DOMAIN segments)})
    BY <1>4 DEF RemoveSegment, Fault, Numbered
  <2>2. Whole'
    BY <2>1 DEF Restrict, Ordered, Whole
  <2>3. PICK front \in Seq(Elements) : taken = front \o StoredLines
    BY <2>1 DEF Ordered, Draining
  <2> DEFINE first == Contents[Min(DOMAIN segments)]
  <2>4. first \in Seq(Elements) /\ StoredLines = first \o StoredLines'
    BY <2>1, RemovedLines
  <2> HIDE DEF first
  <2>5. StoredLines' \in Seq(Elements)
    <3>1. Shape'
      BY <1>4, ReadAllKeepsShape DEF ReadAll
    <3> QED
      BY <3>1, LinesStayTyped
  <2>6. front \o first \in Seq(Elements) /\ taken' = (front \o first) \o StoredLines'
    <3>1. \A a, b, c \in Seq(Elements) : (a \o b) \o c = a \o (b \o c)
      BY ConcatAssociative
    <3>2. (front \o first) \o StoredLines' = front \o (first \o StoredLines')
      BY <2>4, <2>5, <3>1
    <3> QED
      BY <2>1, <2>3, <2>4, <3>2, ConcatProperties
  <2> QED
    BY <2>2, <2>6 DEF Ordered, Draining
<1>5. CASE Return
  BY <1>5 DEF Return, Ordered, Whole, Draining
<1>6. CASE UNCHANGED vars
  BY <1>6, SameDirectory DEF vars, Ordered, Whole, Draining
<1> QED
  BY <1>1, <1>2, <1>3, <1>4, <1>5, <1>6 DEF Next, ReadAll

Ordering == {"torn", "remove", "list"} \cap failed = {} => Ordered

LEMMA OrderingKept == Spec => []Ordering
<1>1. Init => Ordering
  BY DEF Init, Ordering, Ordered, Whole, Draining
<1>2. Shape /\ Numbering /\ Ordering /\ [Next]_vars => Ordering'
  <2> SUFFICES ASSUME Shape, Numbering, Ordering, [Next]_vars,
                      {"torn", "remove", "list"} \cap failed' = {}
               PROVE  Ordered'
    BY DEF Ordering
  <2>1. Numbered /\ Ordered
    BY FailuresStay DEF Numbering, Ordering
  <2> QED
    BY <2>1, StepKeepsOrdered
<1> QED
  BY <1>1, <1>2, ShapeKept, NumberingKept, PTL DEF Spec

-----------------------------------------------------------------------------
(* While every line can be read, NewDiskBuffer counts all of them.         *)
LEMMA CountedAll ==
  ASSUME Shape, ToSet(StoredLines) \cap Unreadable = {}
  PROVE  LinesFound(DOMAIN segments) = Len(StoredLines)
<1>1. \A n \in DOMAIN segments : Contents[n] \in Seq(Elements)
  BY DirectoryRead DEF Shape, TypeOK
<1>2. ToSet(StoredLines) = UNION {ToSet(Contents[n]) : n \in DOMAIN segments}
  BY <1>1, ConcatenationHolds DEF StoredLines, Shape, TypeOK
<1>3. ASSUME NEW n \in DOMAIN segments PROVE Counts[n] = Len(Contents[n])
  <2>1. ToSet(Contents[n]) \cap Unreadable = {}
    BY <1>2
  <2> QED
    BY <2>1, CountsBounded
<1> QED
  BY <1>1, <1>3, ConcatenationLength DEF LinesFound, StoredLines, Shape, TypeOK

AllCounted ==
  mode \in {"replay", "ready"} /\ ToSet(StoredLines) \cap Unreadable = {} =>
    lineCount = Len(StoredLines)

LEMMA StepKeepsCounted ==
  ASSUME {"torn", "remove", "list", "stat", "scan"} \cap failed' = {},
         Shape, Numbered, Ordered, AllCounted, [Next]_vars
  PROVE  AllCounted'
<1> USE DEF counters, reading, inputs, bounds
<1>1. CASE Open
  <2>1. PICK sized \in SUBSET DOMAIN segments :
          Skipped(sized) = {} \/ Fault(Skipped(sized))
    BY <1>1 DEF Open
  <2>2. "stat" \notin Skipped(sized) /\ "scan" \notin Skipped(sized)
    BY <2>1 DEF Fault
  <2>3. lineCount' = LinesFound(DOMAIN segments)
    BY <2>2 DEF Skipped
  <2>4. StoredLines' = StoredLines
    BY <1>1, SameDirectory DEF Open
  <2> QED
    BY <2>3, <2>4, CountedAll DEF AllCounted
<1>2. CASE Write
  <2>1. /\ mode = "ready" /\ next \in Lines
        /\ \/ StoredLines' = Append(StoredLines, next) /\ lineCount' = lineCount + 1
           \/ StoredLines' = StoredLines /\ lineCount' = lineCount
    BY <1>2, WriteOfLines DEF Ordered
  <2>2. StoredLines \in Seq(Elements) /\ next \in Elements
    BY <2>1, LinesTyped DEF Elements
  <2>3. CASE StoredLines' = Append(StoredLines, next) /\ lineCount' = lineCount + 1
    <3>1. Len(Append(StoredLines, next)) = Len(StoredLines) + 1
      BY <2>2, AppendProperties
    <3>2. ToSet(Append(StoredLines, next)) = ToSet(StoredLines) \union {next}
      BY <2>2, AppendHolds
    <3> QED
      BY <2>1, <2>3, <3>1, <3>2 DEF AllCounted
  <2>4. CASE StoredLines' = StoredLines /\ lineCount' = lineCount
    BY <2>1, <2>4 DEF AllCounted
  <2> QED
    BY <2>1, <2>3, <2>4
<1>3. CASE ReadNothing \/ ReadError \/ Close
  BY <1>3, SameDirectory DEF ReadNothing, ReadError, Close, Reading, AllCounted
<1>4. CASE ReadSegments \/ RemoveSegment \/ Crash \/ OpenFails
  BY <1>4 DEF ReadSegments, RemoveSegment, Crash, OpenFails, AllCounted
<1>5. CASE Return
  <2>1. DOMAIN segments = {} /\ UNCHANGED segments
    BY <1>5 DEF Return, Numbered
  <2>2. Len(StoredLines') = 0
    BY <2>1, EmptyDirectory, SameDirectory
  <2> QED
    BY <1>5, <2>2 DEF Return, Reset, AllCounted
<1>6. CASE OpenUnlisted
  BY <1>6 DEF OpenUnlisted, Fault
<1>7. CASE UNCHANGED vars
  BY <1>7, SameDirectory DEF vars, AllCounted
<1> QED
  BY <1>1, <1>2, <1>3, <1>4, <1>5, <1>6, <1>7 DEF Next, ReadAll

Counting == {"torn", "remove", "list", "stat", "scan"} \cap failed = {} => AllCounted

LEMMA CountingKept == Spec => []Counting
<1>1. Init => Counting
  BY DEF Init, Counting, AllCounted
<1>2. Shape /\ Numbering /\ Ordering /\ Counting /\ [Next]_vars => Counting'
  <2> SUFFICES ASSUME Shape, Numbering, Ordering, Counting, [Next]_vars,
                      {"torn", "remove", "list", "stat", "scan"} \cap failed' = {}
               PROVE  AllCounted'
    BY DEF Counting
  <2>1. Numbered /\ Ordered /\ AllCounted
    BY FailuresStay DEF Numbering, Ordering, Counting
  <2> QED
    BY <2>1, StepKeepsCounted
<1> QED
  BY <1>1, <1>2, ShapeKept, NumberingKept, OrderingKept, PTL DEF Spec

(* Len, by which main decides that a batch is full, never exceeds the      *)
(* lines the files hold, in every life of the process and whatever fails.  *)
(* It is their number until a write is cut short, a file is not removed or *)
(* a restart cannot list, size or read one, as long as no line is stored   *)
(* that the scanner which counts cannot pass.                              *)
THEOREM LinesCounted == Spec => []LenTracked
<1>1. Shape /\ Account /\ Counting => LenTracked
  BY AccountCovered DEF Counting, AllCounted, LenTracked
<1> QED
  BY <1>1, ShapeKept, AccountKept, CountingKept, PTL

-----------------------------------------------------------------------------
(* The queue the directory stands for.                                     *)
Queued == IF mode = "removing" THEN taken ELSE StoredLines

LEMMA QueueStutters ==
  ASSUME UNCHANGED <<Queued, handed>>
  PROVE  UNCHANGED Queue!vars
BY DEF Queued, Queue!vars

LEMMA StepOfQueue ==
  ASSUME {"torn", "remove", "list"} \cap failed' = {}, Shape, Numbered, Ordered, [Next]_vars
  PROVE  [Queue!Next]_Queue!vars
<1> USE DEF counters, reading, inputs, bounds
<1>1. CASE Open \/ OpenUnlisted \/ OpenFails \/ ReadNothing \/ ReadError \/ Close
  <2>1. UNCHANGED <<segments, handed>> /\ mode # "removing" /\ mode' # "removing"
    BY <1>1 DEF Open, OpenUnlisted, OpenFails, ReadNothing, ReadError, Close, Reading
  <2>2. UNCHANGED <<Queued, handed>>
    BY <2>1, SameDirectory DEF Queued
  <2> QED
    BY <2>2, QueueStutters
<1>2. CASE Write
  <2>1. /\ mode = "ready" /\ mode' = "ready" /\ next \in Lines /\ UNCHANGED handed
        /\ StoredLines' = Append(StoredLines, next) \/ StoredLines' = StoredLines
    BY <1>2, WriteOfLines DEF Ordered
  <2>2. CASE StoredLines' = Append(StoredLines, next)
    <3>1. Queue!Write(next)
      BY <2>1, <2>2 DEF Queue!Write
    <3> QED
      BY <2>1, <3>1 DEF Queue!Next
  <2>3. CASE StoredLines' = StoredLines
    BY <2>1, <2>3, QueueStutters DEF Queued
  <2> QED
    BY <2>1, <2>2, <2>3
<1>3. CASE ReadSegments
  BY <1>3, QueueStutters DEF ReadSegments, Reading, Queued
<1>4. CASE RemoveSegment
  BY <1>4, QueueStutters DEF RemoveSegment, Queued
<1>5. CASE Return
  <2>1. DOMAIN segments = {} /\ UNCHANGED segments
    BY <1>5 DEF Return, Numbered
  <2>2. StoredLines' = <<>>
    BY <2>1, EmptyDirectory, SameDirectory
  <2>3. Queue!ReadAll
    BY <1>5, <2>2 DEF Return, Queue!ReadAll
  <2> QED
    BY <2>3 DEF Queue!Next
<1>6. CASE Crash
  <2>1. UNCHANGED <<segments, handed>> /\ mode' = "down"
    BY <1>6 DEF Crash
  <2>2. StoredLines' = StoredLines
    BY <2>1, SameDirectory
  <2>3. CASE mode # "removing"
    BY <2>1, <2>2, <2>3, QueueStutters DEF Queued
  <2>4. CASE mode = "removing"
    <3>1. PICK front \in Seq(Elements) : taken = front \o StoredLines
      BY <2>4 DEF Ordered, Draining
    <3>2. StoredLines \in Seq(Elements)
      BY LinesTyped
    <3>3. CASE front = <<>>
      <4>1. taken = StoredLines
        BY <3>1, <3>2, <3>3, ConcatEmptySeq
      <4> QED
        BY <2>1, <2>2, <2>4, <4>1, QueueStutters DEF Queued
    <3>4. CASE front # <<>>
      <4> DEFINE lost == Len(front)
      <4>1. lost \in 1 .. Len(taken)
        BY <3>1, <3>2, <3>4, ConcatProperties, EmptySeq
      <4>2. SubSeq(taken, lost + 1, Len(taken)) = StoredLines
        BY <3>1, <3>2, RestOfJoin
      <4> HIDE DEF lost
      <4>3. Queue!LoseFront
        BY <2>1, <2>2, <2>4, <4>1, <4>2 DEF Queue!LoseFront
      <4> QED
        BY <4>3 DEF Queue!Next
    <3> QED
      BY <3>3, <3>4
  <2> QED
    BY <2>3, <2>4
<1>7. CASE UNCHANGED vars
  BY <1>7, SameDirectory, QueueStutters DEF vars, Queued
<1> QED
  BY <1>1, <1>2, <1>3, <1>4, <1>5, <1>6, <1>7 DEF Next, ReadAll

(* The numbered files are one queue in the order of the writes: rotation   *)
(* and failed writes do not show, ReadAll hands over everything and leaves *)
(* nothing, and a crash in its middle costs the front of the queue only    *)
(* (Write, ReadAll, NewDiskBuffer; disk.go:69).                            *)
THEOREM DiskIsAQueue ==
  ASSUME {"torn", "remove", "list"} \cap Failing = {}
  PROVE  Spec => ImplementsQueue
<1>1. Init => Queue!Init
  <2> SUFFICES ASSUME Init PROVE Queue!Init
    OBVIOUS
  <2>1. StoredLines = <<>>
    BY InitialShape, EmptyDirectory DEF Init
  <2> QED
    BY <2>1 DEF Init, Queue!Init
<1>2. Shape /\ Numbering /\ Ordering /\ [Next]_vars => [Queue!Next]_Queue!vars
  <2> SUFFICES ASSUME Shape, Numbering, Ordering, [Next]_vars PROVE [Queue!Next]_Queue!vars
    OBVIOUS
  <2>1. Shape'
    BY StepKeepsShape
  <2>2. failed \subseteq Failing /\ failed' \subseteq Failing
    BY <2>1 DEF Shape, TypeOK
  <2>3. Numbered /\ Ordered
    BY <2>2 DEF Numbering, Ordering
  <2> QED
    BY <2>2, <2>3, StepOfQueue
<1> QED
  BY <1>1, <1>2, ShapeKept, NumberingKept, OrderingKept, PTL DEF Spec, ImplementsQueue, Queue!Spec

-----------------------------------------------------------------------------
(* The accepted lines that are nowhere any more, file by file, and the     *)
(* files that end in a part of a line.                                     *)
Gone ==
  {l \in accepted : /\ l \notin ToSet(taken) \union ToSet(handed)
                    /\ \A n \in DOMAIN segments : l \notin ToSet(segments[n].lines)}

Wounds == {n \in DOMAIN segments : segments[n].rest # NoRest}

(* In the first life of the process.  A segment that could not be removed  *)
(* holds lines that have been returned, or are going to be: overwriting it *)
(* costs nothing.                                                          *)
Damage ==
  restarts = 0 =>
    /\ Cardinality(Gone) + Cardinality(Wounds) <= faults
    /\ mode = "down" => DOMAIN segments = {}
    /\ mode \in {"replay", "ready"} =>
         \A n \in DOMAIN segments : n >= segmentCounter =>
           ToSet(segments[n].lines) \subseteq ToSet(handed) \union {Garbled, TooLong}
    /\ mode = "removing" =>
         \A n \in DOMAIN segments :
           ToSet(segments[n].lines) \subseteq ToSet(taken) \union {Garbled, TooLong}

LEMMA MissingAreGone == Shape /\ Honest => Missing = Gone
<1> SUFFICES ASSUME Shape, Honest PROVE Missing = Gone
  OBVIOUS
<1>1. ToSet(StoredLines) = UNION {ToSet(Scanned(segments[n])) : n \in DOMAIN segments}
  BY DirectoryRead DEF Shape, TypeOK
<1>2. \A n \in DOMAIN segments : \A l \in accepted :
        l \in ToSet(Scanned(segments[n])) <=> l \in ToSet(segments[n].lines)
  <2>1. Garbled \notin accepted /\ TooLong \notin accepted
    BY DEF Shape, TypeOK, Lines, Garbled, TooLong
  <2>2. \A n \in DOMAIN segments :
          segments[n].rest \in cut \union {Garbled, TooLong, NoRest} /\ accepted \cap cut = {}
    BY DEF Honest
  <2>3. \A n \in DOMAIN segments : ToSet(Scanned(segments[n])) =
          ToSet(segments[n].lines) \union
          IF segments[n].rest = NoRest THEN {} ELSE {segments[n].rest}
    BY ScannedTyped DEF Shape, TypeOK
  <2> QED
    BY <2>1, <2>2, <2>3
<1> QED
  BY <1>1, <1>2 DEF Missing, Gone

(* How the damage adds up.                                                 *)
LEMMA DamageKept ==
  ASSUME NEW G, IsFiniteSet(G), NEW W, IsFiniteSet(W), NEW A, NEW B,
         A \subseteq G, B \subseteq W
  PROVE  /\ Cardinality(A) \in Nat /\ Cardinality(B) \in Nat
         /\ Cardinality(A) + Cardinality(B) <= Cardinality(G) + Cardinality(W)
<1>1. Cardinality(A) <= Cardinality(G) /\ Cardinality(B) <= Cardinality(W)
  BY FS_Subset
<1>2. IsFiniteSet(A) /\ IsFiniteSet(B)
  BY FS_Subset
<1>3. /\ Cardinality(A) \in Nat /\ Cardinality(B) \in Nat
      /\ Cardinality(G) \in Nat /\ Cardinality(W) \in Nat
  BY <1>2, FS_CardinalityType
<1> QED
  BY <1>1, <1>3

LEMMA OneMore ==
  ASSUME NEW G, IsFiniteSet(G), NEW x
  PROVE  /\ IsFiniteSet(G \union {x}) /\ Cardinality(G) \in Nat
         /\ Cardinality(G \union {x}) <= Cardinality(G) + 1
<1>1. /\ IsFiniteSet(G \union {x})
      /\ Cardinality(G \union {x}) = IF x \in G THEN Cardinality(G) ELSE Cardinality(G) + 1
  BY FS_AddElement
<1>2. Cardinality(G) \in Nat
  BY FS_CardinalityType
<1> QED
  BY <1>1, <1>2

LEMMA DamageMoved ==
  ASSUME NEW G, IsFiniteSet(G), NEW W, IsFiniteSet(W), NEW A, NEW B, NEW x, NEW n \in W,
         A \subseteq G \union {x}, B \subseteq W \ {n}
  PROVE  /\ Cardinality(A) \in Nat /\ Cardinality(B) \in Nat
         /\ Cardinality(A) + Cardinality(B) <= Cardinality(G) + Cardinality(W)
<1>1. /\ IsFiniteSet(G \union {x}) /\ Cardinality(G \union {x}) <= Cardinality(G) + 1
      /\ Cardinality(G) \in Nat
  BY OneMore
<1>2. IsFiniteSet(W \ {n}) /\ Cardinality(W \ {n}) = Cardinality(W) - 1 /\ Cardinality(W) \in Nat
  BY FS_RemoveElement, FS_CardinalityType
<1>3. Cardinality(A) + Cardinality(B) <= Cardinality(G \union {x}) + Cardinality(W \ {n})
  BY <1>1, <1>2, DamageKept
<1>4. IsFiniteSet(A) /\ IsFiniteSet(B)
  BY <1>1, <1>2, FS_Subset
<1>5. Cardinality(A) \in Nat /\ Cardinality(B) \in Nat /\ Cardinality(G \union {x}) \in Nat
  BY <1>1, <1>4, FS_CardinalityType
<1> QED
  BY <1>1, <1>2, <1>3, <1>5

LEMMA DamageDone ==
  ASSUME NEW G, IsFiniteSet(G), NEW W, IsFiniteSet(W), NEW A, NEW B, NEW n,
         A \subseteq G, B \subseteq W \union {n}
  PROVE  /\ Cardinality(A) \in Nat /\ Cardinality(B) \in Nat
         /\ Cardinality(A) + Cardinality(B) <= Cardinality(G) + Cardinality(W) + 1
<1>1. /\ IsFiniteSet(W \union {n}) /\ Cardinality(W \union {n}) <= Cardinality(W) + 1
      /\ Cardinality(W) \in Nat
  BY OneMore
<1>2. Cardinality(A) + Cardinality(B) <= Cardinality(G) + Cardinality(W \union {n})
  BY <1>1, DamageKept
<1>3. IsFiniteSet(A) /\ IsFiniteSet(B)
  BY <1>1, FS_Subset
<1>4. /\ Cardinality(A) \in Nat /\ Cardinality(B) \in Nat
      /\ Cardinality(G) \in Nat /\ Cardinality(W \union {n}) \in Nat
  BY <1>1, <1>3, FS_CardinalityType
<1> QED
  BY <1>1, <1>2, <1>4

LEMMA DamageTyped ==
  ASSUME Shape
  PROVE  /\ IsFiniteSet(Gone) /\ IsFiniteSet(Wounds)
         /\ Cardinality(Gone) \in Nat /\ Cardinality(Wounds) \in Nat /\ faults \in Nat
<1>1. IsFiniteSet(Lines) /\ Gone \subseteq Lines
  <2>1. IsFiniteSet(1 .. NumLines)
    BY FS_Interval, SizesAssumption
  <2> QED
    BY <2>1 DEF Lines, Gone, Shape, TypeOK
<1>2. IsFiniteSet(Gone)
  BY <1>1, FS_Subset
<1>3. IsFiniteSet(Wounds)
  <2>1. IsFiniteSet(DOMAIN segments) /\ Wounds \subseteq DOMAIN segments
    BY DEF Shape, Wounds
  <2> QED
    BY <2>1, FS_Subset
<1> QED
  BY <1>2, <1>3, FS_CardinalityType, SizesAssumption DEF Shape, TypeOK

(* A write that leaves the lines of its file alone loses none; a segment   *)
(* that it overwrites has been returned.                                   *)
LEMMA WriteToLoses ==
  ASSUME Shape, Damage, restarts = 0, mode = "ready", NEW l \in Lines, NEW file \in Files,
         WriteTo(l, file), ToSet(TargetFile(l).lines) \subseteq ToSet(file.lines),
         UNCHANGED <<taken, handed>>, accepted' \subseteq accepted \union {l}
  PROVE  /\ Gone' \subseteq Gone \union {l}
         /\ l \in ToSet(file.lines) \/ accepted' = accepted => Gone' \subseteq Gone
         /\ Wounds' \subseteq (Wounds \ {Target(l)}) \union {Target(l)}
         /\ file.rest = NoRest => Wounds' \subseteq Wounds \ {Target(l)}
         /\ \A n \in DOMAIN segments' : n >= segmentCounter' =>
              ToSet(segments'[n].lines) \subseteq ToSet(handed') \union {Garbled, TooLong}
<1> DEFINE T == Target(l)
<1>1. /\ T \in Nat
      /\ DOMAIN segments' = DOMAIN segments \union {T}
      /\ segments'[T] = file
      /\ \A n \in DOMAIN segments \ {T} : segments'[n] = segments[n]
      /\ NewSegment(l) => T = segmentCounter /\ segmentCounter' = segmentCounter + 1
      /\ ~NewSegment(l) => /\ T = currentFile /\ currentFile \in DOMAIN segments
                           /\ segmentCounter' = segmentCounter
  BY WriteToMoves
<1>2. segmentCounter \in Nat /\ \A n \in DOMAIN segments : n \in Nat
  BY DEF Shape, TypeOK
<1>3. ~NewSegment(l) => T = segmentCounter - 1
  BY <1>1 DEF NewSegment, Shape
<1>4. \A n \in DOMAIN segments : n >= segmentCounter =>
        ToSet(segments[n].lines) \subseteq ToSet(handed) \union {Garbled, TooLong}
  BY DEF Damage
<1>5. T \in DOMAIN segments =>
        ToSet(segments[T].lines) \subseteq ToSet(file.lines) \union ToSet(handed) \union {Garbled, TooLong}
  <2>1. CASE NewSegment(l)
    BY <1>1, <1>2, <1>4, <2>1
  <2>2. CASE ~NewSegment(l)
    BY <1>1, <2>2, TargetTyped
  <2> QED
    BY <2>1, <2>2
<1> HIDE DEF T
<1>6. \A x \in accepted : x # Garbled /\ x # TooLong
  BY DEF Shape, TypeOK, Lines, Garbled, TooLong
<1>7. ASSUME NEW x \in accepted, x \in Gone' PROVE x \in Gone
  <2>1. \A n \in DOMAIN segments : x \notin ToSet(segments[n].lines)
    <3> SUFFICES ASSUME NEW n \in DOMAIN segments, x \in ToSet(segments[n].lines) PROVE FALSE
      OBVIOUS
    <3>1. x \notin ToSet(handed) /\ \A k \in DOMAIN segments' : x \notin ToSet(segments'[k].lines)
      BY <1>7 DEF Gone
    <3>2. CASE n = T
      BY <1>1, <1>5, <1>6, <3>1, <3>2
    <3>3. CASE n # T
      BY <1>1, <3>1, <3>3
    <3> QED
      BY <3>2, <3>3
  <2> QED
    BY <1>7, <2>1 DEF Gone
<1>8. Gone' \subseteq accepted'
  BY DEF Gone
<1>9. l \in ToSet(file.lines) => l \notin Gone'
  BY <1>1 DEF Gone
<1>10. Wounds' \subseteq (Wounds \ {T}) \union {T} /\ (file.rest = NoRest => Wounds' \subseteq Wounds \ {T})
  BY <1>1 DEF Wounds
<1>11. ASSUME NEW n \in DOMAIN segments', n >= segmentCounter'
       PROVE  ToSet(segments'[n].lines) \subseteq ToSet(handed') \union {Garbled, TooLong}
  <2>1. n # T /\ n >= segmentCounter
    <3>1. CASE NewSegment(l)
      BY <1>1, <1>2, <1>11, <3>1
    <3>2. CASE ~NewSegment(l)
      BY <1>1, <1>2, <1>3, <1>11, <3>2
    <3> QED
      BY <3>1, <3>2
  <2> QED
    BY <1>1, <1>4, <2>1
<1> QED
  BY <1>7, <1>8, <1>9, <1>10, <1>11 DEF T

LEMMA WriteKeepsDamage == Shape /\ Damage /\ Write => Damage'
<1> SUFFICES ASSUME Shape, Damage, Write, restarts' = 0 PROVE Damage'
  BY DEF Damage
<1> DEFINE l == next
<1>1. /\ mode = "ready" /\ mode' = "ready" /\ l \in Lines /\ restarts = 0
      /\ UNCHANGED <<taken, handed>> /\ TargetFile(l) \in Files
  BY WriteOutcomes DEF Accepts, Fails, Ignored
<1>2. \/ \E file \in Files : Accepts(l, file)
      \/ Fails(l, "create") /\ UNCHANGED <<segments, segmentCounter>>
      \/ Fails(l, "write") /\ WriteTo(l, TargetFile(l))
      \/ Fails(l, "torn") /\ \E file \in Files : Tears(l, file) /\ WriteTo(l, file)
      \/ Ignored
  BY WriteOutcomes
<1>3. Cardinality(Gone) + Cardinality(Wounds) <= faults
  BY <1>1 DEF Damage
<1>4. /\ IsFiniteSet(Gone) /\ IsFiniteSet(Wounds)
      /\ Cardinality(Gone) \in Nat /\ Cardinality(Wounds) \in Nat /\ faults \in Nat
  BY DamageTyped
<1> HIDE DEF l
<1>5. ASSUME NEW file \in Files, Accepts(l, file) PROVE Damage'
  <2> DEFINE old == TargetFile(l)
  <2>1. WriteTo(l, file) /\ accepted' = accepted \union {l} /\ faults' = faults
    BY <1>5 DEF Accepts
  <2>2. /\ file.rest = NoRest /\ ToSet(old.lines) \subseteq ToSet(file.lines)
        /\ old.rest = NoRest => l \in ToSet(file.lines)
    BY <1>1, <1>5, ExtendsTyped, ExtendedHolds DEF Accepts
  <2>3. old.rest # NoRest => Target(l) \in Wounds
    <3>1. NewSegment(l) => old.rest = NoRest
      BY <1>1, TargetTyped DEF EmptyFile
    <3>2. ~NewSegment(l) => currentFile \in DOMAIN segments
      BY DEF NewSegment, Shape, TypeOK
    <3> QED
      BY <1>1, <3>1, <3>2, TargetTyped DEF Wounds, Target
  <2>4. /\ Gone' \subseteq Gone \union {l}
        /\ l \in ToSet(file.lines) => Gone' \subseteq Gone
        /\ Wounds' \subseteq Wounds \ {Target(l)}
        /\ \A n \in DOMAIN segments' : n >= segmentCounter' =>
             ToSet(segments'[n].lines) \subseteq ToSet(handed') \union {Garbled, TooLong}
    BY <1>1, <2>1, <2>2, WriteToLoses
  <2> HIDE DEF old
  <2>5. /\ Cardinality(Gone') \in Nat /\ Cardinality(Wounds') \in Nat
        /\ Cardinality(Gone') + Cardinality(Wounds') <= Cardinality(Gone) + Cardinality(Wounds)
    <3>1. CASE old.rest # NoRest
      BY <1>4, <2>3, <2>4, <3>1, DamageMoved
    <3>2. CASE old.rest = NoRest
      <4>1. Gone' \subseteq Gone /\ Wounds' \subseteq Wounds
        BY <2>2, <2>4, <3>2
      <4> QED
        BY <1>4, <4>1, DamageKept
    <3> QED
      BY <3>1, <3>2
  <2>6. Cardinality(Gone') + Cardinality(Wounds') <= faults'
    BY <1>3, <1>4, <2>1, <2>5
  <2> QED
    BY <1>1, <2>4, <2>6 DEF Damage
<1>6. ASSUME NEW kind, Fails(l, kind), NEW file \in Files, WriteTo(l, file),
             file.lines = TargetFile(l).lines
      PROVE  Damage'
  <2>1. accepted' = accepted /\ faults' = faults + 1
    BY <1>6 DEF Fails
  <2>2. /\ Gone' \subseteq Gone
        /\ Wounds' \subseteq Wounds \union {Target(l)}
        /\ \A n \in DOMAIN segments' : n >= segmentCounter' =>
             ToSet(segments'[n].lines) \subseteq ToSet(handed') \union {Garbled, TooLong}
    BY <1>1, <1>6, <2>1, WriteToLoses
  <2>3. /\ Cardinality(Gone') \in Nat /\ Cardinality(Wounds') \in Nat
        /\ Cardinality(Gone') + Cardinality(Wounds') <= Cardinality(Gone) + Cardinality(Wounds) + 1
    BY <1>4, <2>2, DamageDone
  <2>4. Cardinality(Gone') + Cardinality(Wounds') <= faults'
    BY <1>3, <1>4, <2>1, <2>3
  <2> QED
    BY <1>1, <2>2, <2>4 DEF Damage
<1>7. CASE Fails(l, "create") /\ UNCHANGED <<segments, segmentCounter>>
  <2>1. accepted' = accepted /\ faults' = faults + 1
    BY <1>7 DEF Fails
  <2>2. Gone' = Gone /\ Wounds' = Wounds
    BY <1>1, <1>7, <2>1 DEF Gone, Wounds
  <2> QED
    BY <1>1, <1>3, <1>4, <1>7, <2>1, <2>2 DEF Damage
<1>8. CASE Ignored
  <2>1. Gone' = Gone /\ Wounds' = Wounds
    BY <1>1, <1>8 DEF Ignored, Gone, Wounds
  <2> QED
    BY <1>1, <1>8, <2>1 DEF Ignored, Damage
<1>9. CASE Fails(l, "torn") /\ \E file \in Files : Tears(l, file) /\ WriteTo(l, file)
  <2>1. PICK file \in Files : Tears(l, file) /\ WriteTo(l, file)
    BY <1>9
  <2>2. file.lines = TargetFile(l).lines
    BY <1>1, <2>1, TearsTyped
  <2> QED
    BY <1>6, <1>9, <2>1, <2>2
<1>10. CASE Fails(l, "write") /\ WriteTo(l, TargetFile(l))
  BY <1>1, <1>6, <1>10
<1> QED
  BY <1>2, <1>5, <1>7, <1>8, <1>9, <1>10

LEMMA StepKeepsDamage == Shape /\ Damage /\ [Next]_vars => Damage'
<1> SUFFICES ASSUME Shape, Damage, [Next]_vars, restarts' = 0 PROVE Damage'
  BY DEF Damage
<1> USE DEF counters, reading, inputs, bounds
<1>1. CASE Write
  BY <1>1, WriteKeepsDamage
<1>2. CASE ~Write
  <2>1. restarts = 0 /\ ~Crash
    BY <1>2, SizesAssumption
       DEF Next, Open, OpenUnlisted, OpenFails, ReadAll, ReadNothing, ReadError, ReadSegments, RemoveSegment, Return, Close,
           Crash, Fault, vars, Shape, TypeOK
  <2>2. /\ IsFiniteSet(Gone) /\ IsFiniteSet(Wounds)
        /\ Cardinality(Gone) \in Nat /\ Cardinality(Wounds) \in Nat /\ faults \in Nat
    BY DamageTyped
  <2>3. Cardinality(Gone) + Cardinality(Wounds) <= faults
    BY <2>1 DEF Damage
  <2>4. ASSUME Gone' \subseteq Gone, Wounds' \subseteq Wounds, faults' \in {faults, faults + 1}
        PROVE  Cardinality(Gone') + Cardinality(Wounds') <= faults'
    <3>1. /\ Cardinality(Gone') \in Nat /\ Cardinality(Wounds') \in Nat
          /\ Cardinality(Gone') + Cardinality(Wounds') <= Cardinality(Gone) + Cardinality(Wounds)
      BY <2>2, <2>4, DamageKept
    <3> QED
      BY <2>2, <2>3, <2>4, <3>1
  <2>5. CASE Open \/ OpenUnlisted \/ OpenFails
    <3>1. Gone' = Gone /\ Wounds' = Wounds /\ faults' \in {faults, faults + 1}
      BY <2>5 DEF Open, OpenUnlisted, OpenFails, Fault, Gone, Wounds
    <3>2. /\ DOMAIN segments = {} /\ segments' = segments
          /\ mode' \in {"down", "replay"}
      BY <2>1, <2>5 DEF Open, OpenUnlisted, OpenFails, Damage
    <3> QED
      BY <2>4, <3>1, <3>2 DEF Damage
  <2>6. CASE ReadNothing \/ ReadError \/ Close
    <3>1. /\ Gone' = Gone /\ Wounds' = Wounds /\ faults' \in {faults, faults + 1}
          /\ mode \in {"replay", "ready"} /\ mode' = "ready"
          /\ UNCHANGED <<segments, segmentCounter, handed>>
      BY <2>6 DEF ReadNothing, ReadError, Close, Reading, Fault, Gone, Wounds
    <3> QED
      BY <2>1, <2>4, <3>1 DEF Damage
  <2>7. CASE ReadSegments
    <3>1. \A n \in DOMAIN segments : ToSet(segments[n].lines) \subseteq ToSet(StoredLines)
      <4>1. ToSet(StoredLines) = UNION {ToSet(Scanned(segments[n])) : n \in DOMAIN segments}
        BY DirectoryRead DEF Shape, TypeOK
      <4>2. \A n \in DOMAIN segments : ToSet(segments[n].lines) \subseteq ToSet(Scanned(segments[n]))
        <5>1. \A n \in DOMAIN segments : ToSet(Scanned(segments[n])) =
                ToSet(segments[n].lines) \union
                IF segments[n].rest = NoRest THEN {} ELSE {segments[n].rest}
          BY ScannedTyped DEF Shape, TypeOK
        <5> QED
          BY <5>1
      <4> QED
        BY <4>1, <4>2
    <3>2. ToSet(taken) = {}
      BY <2>7 DEF ReadSegments, Reading, Shape, ToSet
    <3>3. Gone' \subseteq Gone /\ Wounds' = Wounds /\ faults' = faults
      BY <2>7, <3>2 DEF ReadSegments, Gone, Wounds
    <3> QED
      BY <2>4, <2>7, <3>1, <3>3 DEF ReadSegments, Damage
  <2>8. CASE RemoveSegment
    <3>1. /\ DOMAIN segments' \subseteq DOMAIN segments
          /\ \A n \in DOMAIN segments' : segments'[n] = segments[n]
          /\ mode = "removing" /\ mode' = "removing" /\ UNCHANGED <<taken, handed, accepted>>
          /\ faults' \in {faults, faults + 1}
      BY <2>8 DEF RemoveSegment, Restrict, Fault
    <3>2. \A n \in DOMAIN segments :
            ToSet(segments[n].lines) \subseteq ToSet(taken) \union {Garbled, TooLong}
      BY <2>1, <3>1 DEF Damage
    <3>3. Garbled \notin accepted /\ TooLong \notin accepted
      BY DEF Shape, TypeOK, Lines, Garbled, TooLong
    <3>4. Gone' \subseteq Gone /\ Wounds' \subseteq Wounds
      BY <3>1, <3>2, <3>3 DEF Gone, Wounds
    <3> QED
      BY <2>4, <3>1, <3>2, <3>4 DEF Damage
  <2>9. CASE Return
    <3>1. ToSet(handed') = ToSet(handed) \union ToSet(taken) /\ ToSet(taken') = {}
      <4>1. ToSet(handed \o taken) = ToSet(handed) \union ToSet(taken)
        BY JoinHolds DEF Shape, TypeOK
      <4>2. ToSet(<<>>) = {}
        BY DEF ToSet
      <4> QED
        BY <2>9, <4>1, <4>2 DEF Return
    <3>2. Gone' = Gone /\ Wounds' = Wounds /\ faults' = faults
      BY <2>9, <3>1 DEF Return, Gone, Wounds
    <3>3. \A n \in DOMAIN segments :
            ToSet(segments[n].lines) \subseteq ToSet(taken) \union {Garbled, TooLong}
      BY <2>1, <2>9 DEF Return, Damage
    <3> QED
      BY <2>4, <2>9, <3>1, <3>2, <3>3 DEF Return, Damage
  <2>10. CASE UNCHANGED vars
    <3>1. Gone' = Gone /\ Wounds' = Wounds
      BY <2>10 DEF vars, Gone, Wounds
    <3> QED
      BY <2>1, <2>10, <3>1 DEF vars, Damage
  <2> QED
    BY <1>2, <2>1, <2>5, <2>6, <2>7, <2>8, <2>9, <2>10 DEF Next, ReadAll
<1> QED
  BY <1>1, <1>2

(* While the process lives a call in which a file operation fails costs at *)
(* most one line that Write accepted, the one that is appended to the rest *)
(* of a torn line: whatever was torn, left behind or overwritten before    *)
(* (openSegment truncates, ReadAll ignores the errors of os.Remove and     *)
(* starts numbering anew).                                                 *)
THEOREM FaultsCostOneEach == Spec => []DamageBounded
<1>1. Init => Damage
  <2> SUFFICES ASSUME Init PROVE Damage
    OBVIOUS
  <2>1. Gone = {} /\ Wounds = {} /\ faults = 0 /\ mode = "down" /\ DOMAIN segments = {}
    BY DEF Init, Gone, Wounds
  <2>2. Cardinality({}) = 0
    BY FS_EmptySet
  <2> QED
    BY <2>1, <2>2 DEF Damage
<1>2. Shape /\ Honest /\ Damage => DamageBounded
  <2> SUFFICES ASSUME Shape, Honest, Damage, restarts = 0 PROVE Cardinality(Missing) <= faults
    BY DEF DamageBounded
  <2>1. Cardinality(Gone) + Cardinality(Wounds) <= faults
    BY DEF Damage
  <2> QED
    BY <2>1, MissingAreGone, DamageTyped
<1> QED
  BY <1>1, <1>2, ShapeKept, HonestKept, StepKeepsDamage, PTL DEF Spec

=============================================================================
