-------------------------- MODULE SelectionProofs --------------------------
(***************************************************************************)
(* Selection by index and by label, proved for every number of dimensions, *)
(* every set of variables, sizes, coordinates and any sequence of calls.   *)
(*                                                                         *)
(* Where the model walks over a sequence (FlattenSeq, the windows of       *)
(* IselVector) the proof is by induction over positions. The induction     *)
(* theorems of the library take a predicate; Induction below states the    *)
(* same for a set, and follows from the pigeon hole principle.             *)
(***************************************************************************)
EXTENDS Selection, FiniteSetTheorems, SequenceTheorems, TLAPS

USE DimsAssumption, SlicesAssumption, VariablesAssumption

-----------------------------------------------------------------------------
(* Numbers *)

\* Counting down from a number that is not in T would fit T's complement into
\* a part of itself.
LEMMA Induction ==
    ASSUME NEW T \in SUBSET Nat, 0 \in T, \A n \in T : n + 1 \in T
    PROVE  T = Nat
<1> SUFFICES ASSUME NEW N \in Nat, N \notin T PROVE FALSE
    OBVIOUS
<1> DEFINE S == {n \in 0..N : n \notin T}
           U == S \ {N}
           f == [x \in S |-> x - 1]
<1>1. IsFiniteSet(S)
    <2>1. IsFiniteSet(0..N)
        BY FS_Interval
    <2>2. S \in SUBSET (0..N)
        OBVIOUS
    <2> QED
        BY <2>1, <2>2, FS_Subset
<1>2. N \in S
    OBVIOUS
<1>3. f \in [S -> U]
    OBVIOUS
<1> HIDE DEF S, f
<1>4. Cardinality(S) \in Nat
    BY <1>1, FS_CardinalityType
<1>5. IsFiniteSet(U) /\ Cardinality(U) = Cardinality(S) - 1
    BY <1>1, <1>2, FS_RemoveElement
<1> HIDE DEF U
<1>6. \E x, y \in S : x # y /\ f[x] = f[y]
    BY <1>1, <1>3, <1>4, <1>5, FS_PigeonHole
<1> QED
    BY <1>6 DEF f, S

LEMMA LeastElement ==
    ASSUME NEW T \in SUBSET Nat, T # {}
    PROVE  \E x \in T : \A y \in T : x <= y
<1> SUFFICES ASSUME \A x \in T : \E y \in T : ~(x <= y) PROVE FALSE
    OBVIOUS
<1> DEFINE U == {n \in Nat : \A m \in T : ~(m <= n)}
<1>1. U \in SUBSET Nat
    OBVIOUS
<1>2. 0 \in U
    <2> SUFFICES ASSUME NEW m \in T, m <= 0 PROVE FALSE
        OBVIOUS
    <2>1. PICK y \in T : ~(m <= y)
        OBVIOUS
    <2> QED
        BY <2>1
<1>3. ASSUME NEW n \in U PROVE n + 1 \in U
    <2>1. n \in Nat /\ n + 1 \in Nat
        OBVIOUS
    <2> SUFFICES ASSUME NEW m \in T, m <= n + 1 PROVE FALSE
        BY <2>1
    <2>2. PICK y \in T : ~(m <= y)
        OBVIOUS
    <2>3. ~(y <= n)
        BY <1>3
    <2> QED
        BY <2>1, <2>2, <2>3
<1> HIDE DEF U
<1>4. U = Nat
    BY <1>1, <1>2, <1>3, Induction
<1>5. PICK x \in T : TRUE
    OBVIOUS
<1> QED
    BY <1>4, <1>5 DEF U

\* How many elements of S are below x.
Below(S, x) == {y \in S : y < x}

LEMMA BelowIncreases ==
    ASSUME NEW S \in SUBSET Int, IsFiniteSet(S), NEW x \in S, NEW y \in S, x < y
    PROVE  Cardinality(Below(S, x)) < Cardinality(Below(S, y))
<1> DEFINE A == Below(S, x)
           B == Below(S, y)
<1>1. A \in SUBSET B /\ A # B
    <2>1. x \in B /\ x \notin A
        BY DEF Below
    <2>2. ASSUME NEW z \in A PROVE z \in B
        <3>1. z \in S /\ z < x /\ z \in Int /\ x \in Int /\ y \in Int
            BY <2>2 DEF Below
        <3> QED
            BY <3>1 DEF Below
    <2> QED
        BY <2>1, <2>2
<1>2. IsFiniteSet(A) /\ IsFiniteSet(B)
    BY FS_Subset DEF Below
<1>3. Cardinality(A) \in Nat /\ Cardinality(B) \in Nat
    BY <1>2, FS_CardinalityType
<1> HIDE DEF A, B
<1>4. Cardinality(A) <= Cardinality(B) /\ Cardinality(A) # Cardinality(B)
    BY <1>1, <1>2, FS_Subset
<1>5. Cardinality(A) < Cardinality(B)
    BY <1>3, <1>4
<1> QED
    BY <1>5 DEF A, B

\* Sorted(S) lists the elements of a finite set of integers by rank.
LEMMA SortedRanks ==
    ASSUME NEW S \in SUBSET Int, IsFiniteSet(S)
    PROVE  /\ Cardinality(S) \in Nat
           /\ Sorted(S) \in [1..Cardinality(S) -> S]
           /\ \A k \in 1..Cardinality(S) : Cardinality(Below(S, Sorted(S)[k])) = k - 1
<1> DEFINE n == Cardinality(S)
           rank == [x \in S |-> Cardinality(Below(S, x)) + 1]
<1>1. n \in Nat
    BY FS_CardinalityType
<1>2. \A x \in S : IsFiniteSet(Below(S, x)) /\ Cardinality(Below(S, x)) \in Nat
    BY FS_Subset, FS_CardinalityType DEF Below
<1>3. ASSUME NEW x \in S, NEW y \in S, x < y
      PROVE  Cardinality(Below(S, x)) < Cardinality(Below(S, y))
    BY <1>3, BelowIncreases
<1>4. ASSUME NEW x \in S PROVE Cardinality(Below(S, x)) < n
    <2>1. Below(S, x) \in SUBSET S /\ Below(S, x) # S
        BY <1>4 DEF Below
    <2>2. Cardinality(Below(S, x)) <= n /\ Cardinality(Below(S, x)) # n
        BY <2>1, FS_Subset
    <2> QED
        BY <1>1, <1>2, <1>4, <2>2
<1>5. rank \in [S -> 1..n]
    BY <1>1, <1>2, <1>4
<1>6. ASSUME NEW x \in S, NEW y \in S, rank[x] = rank[y] PROVE x = y
    BY <1>2, <1>3, <1>6
<1>7. rank \in Injection(S, 1..n)
    BY <1>5, <1>6 DEF Injection, IsInjective
<1>8. IsFiniteSet(1..n) /\ Cardinality(1..n) = n
    BY <1>1, FS_Interval
<1>9. rank \in Surjection(S, 1..n)
    <2> HIDE DEF rank
    <2> QED
        BY <1>7, <1>8, FS_Injection
<1>10. \A k \in 1..n : \E x \in S : rank[x] = k
    <2> HIDE DEF rank
    <2> QED
        BY <1>9 DEF Surjection
<1>11. \A k \in 1..n : \E x \in S : Cardinality(Below(S, x)) = k - 1
    BY <1>1, <1>2, <1>10
<1>12. \A k \in 1..n : Sorted(S)[k] = CHOOSE x \in S : Cardinality(Below(S, x)) = k - 1
    BY DEF Sorted, InOrder, Below
<1>13. Sorted(S) = [k \in 1..n |-> CHOOSE x \in S : Cardinality(Below(S, x)) = k - 1]
    BY DEF Sorted, InOrder, Below
<1>14. \A k \in 1..n : Sorted(S)[k] \in S /\ Cardinality(Below(S, Sorted(S)[k])) = k - 1
    BY <1>11, <1>12
<1> QED
    BY <1>1, <1>13, <1>14

LEMMA SortedIncreasing ==
    ASSUME NEW S \in SUBSET Int, IsFiniteSet(S),
           NEW i \in 1..Cardinality(S), NEW j \in 1..Cardinality(S), i < j
    PROVE  Sorted(S)[i] < Sorted(S)[j]
<1> DEFINE x == Sorted(S)[i]
           y == Sorted(S)[j]
<1>1. x \in S /\ y \in S /\ x \in Int /\ y \in Int
    BY SortedRanks
<1>2. Cardinality(Below(S, x)) = i - 1 /\ Cardinality(Below(S, y)) = j - 1
    BY SortedRanks
<1> HIDE DEF x, y
<1>3. ~(y < x)
    BY <1>1, <1>2, BelowIncreases
<1>4. x # y
    BY <1>2
<1>5. x < y
    BY <1>1, <1>3, <1>4
<1> QED
    BY <1>5 DEF x, y

LEMMA SortedCovers ==
    ASSUME NEW S \in SUBSET Int, IsFiniteSet(S), NEW x \in S
    PROVE  \E k \in 1..Cardinality(S) : Sorted(S)[k] = x
<1> DEFINE k == Cardinality(Below(S, x)) + 1
           y == Sorted(S)[k]
<1>1. Below(S, x) \in SUBSET (S \ {x})
    BY DEF Below
<1>2. IsFiniteSet(S \ {x}) /\ Cardinality(S \ {x}) = Cardinality(S) - 1
    BY FS_RemoveElement
<1>3. IsFiniteSet(Below(S, x)) /\ Cardinality(Below(S, x)) <= Cardinality(S) - 1
    BY <1>1, <1>2, FS_Subset
<1>4. Cardinality(Below(S, x)) \in Nat /\ Cardinality(S) \in Nat
    BY <1>3, FS_CardinalityType
<1>5. k \in 1..Cardinality(S)
    BY <1>3, <1>4
<1> HIDE DEF k
<1>6. y \in S /\ Cardinality(Below(S, y)) = k - 1
    BY <1>5, SortedRanks
<1> HIDE DEF y
<1>7. ~(x < y) /\ ~(y < x)
    BY <1>4, <1>6, BelowIncreases DEF k
<1>8. x = y
    BY <1>6, <1>7
<1> QED
    BY <1>5, <1>8 DEF y

LEMMA SortedInterval ==
    ASSUME NEW a \in Int, NEW n \in Nat
    PROVE  Sorted(a..(a + n - 1)) = [k \in 1..n |-> a + k - 1]
<1> DEFINE S == a..(a + n - 1)
<1>1. IsFiniteSet(S) /\ Cardinality(S) = n /\ S \in SUBSET Int
    BY FS_Interval
<1>2. \A x \in S : Below(S, x) = a..(x - 1)
    BY DEF Below
<1>3. \A x \in S : Cardinality(Below(S, x)) = x - a
    <2> SUFFICES ASSUME NEW x \in S PROVE Cardinality(a..(x - 1)) = x - a
        BY <1>2
    <2>1. x - 1 \in Int /\ x \in Int /\ a <= x
        OBVIOUS
    <2>2. Cardinality(a..(x - 1)) = IF a > x - 1 THEN 0 ELSE (x - 1) - a + 1
        BY <2>1, FS_Interval
    <2> QED
        BY <2>1, <2>2
<1>4. \A x \in S : x \in Int /\ a <= x
    OBVIOUS
<1> HIDE DEF S
<1>5. Sorted(S) \in [1..n -> S]
    BY <1>1, SortedRanks
<1>6. \A k \in 1..n : Sorted(S)[k] = a + k - 1
    <2> SUFFICES ASSUME NEW k \in 1..n PROVE Sorted(S)[k] = a + k - 1
        OBVIOUS
    <2>1. Cardinality(Below(S, Sorted(S)[k])) = k - 1 /\ Sorted(S)[k] \in S
        BY <1>1, SortedRanks
    <2> QED
        BY <1>3, <1>4, <2>1
<1>7. Sorted(S) = [k \in 1..n |-> a + k - 1]
    BY <1>5, <1>6
<1> QED
    BY <1>7 DEF S

LEMMA SortedUpTo ==
    ASSUME NEW n \in Nat
    PROVE  Sorted(1..n) = [k \in 1..n |-> k] /\ Cardinality(1..n) = n
<1>1. 1..(1 + n - 1) = 1..n
    OBVIOUS
<1>2. Sorted(1..(1 + n - 1)) = [k \in 1..n |-> 1 + k - 1]
    BY SortedInterval, 1 \in Int
<1>3. \A k \in 1..n : 1 + k - 1 = k
    OBVIOUS
<1>4. [k \in 1..n |-> 1 + k - 1] = [k \in 1..n |-> k]
    BY <1>3
<1>5. Cardinality(1..n) = IF 1 > n THEN 0 ELSE n - 1 + 1
    BY FS_Interval, 1 \in Int, n \in Int
<1> QED
    BY <1>1, <1>2, <1>4, <1>5

LEMMA SortedNone == Sorted({}) = <<>>
<1>1. Cardinality({}) = 0
    BY FS_EmptySet
<1> QED
    BY <1>1 DEF Sorted, InOrder

LEMMA SortedOne == ASSUME NEW x \in Int PROVE Sorted({x}) = <<x>>
<1>1. {x} = x..(x + 1 - 1)
    OBVIOUS
<1>2. Sorted({x}) = [k \in 1..1 |-> x + k - 1]
    BY <1>1, SortedInterval
<1>3. \A k \in 1..1 : k = 1 /\ x + k - 1 = x
    OBVIOUS
<1> QED
    BY <1>2, <1>3

-----------------------------------------------------------------------------
(* Flattening *)

\* g[n] is the concatenation of the first n of seqs.
Flattens(g, seqs, n) ==
    g = [i \in 1..n |-> IF i = 1 THEN seqs[i] ELSE g[i - 1] \o seqs[i]]

LEMMA FlattensExists ==
    ASSUME NEW seqs
    PROVE  \A n \in Nat : \E g : Flattens(g, seqs, n)
<1> DEFINE T == {n \in Nat : \E g : Flattens(g, seqs, n)}
<1>1. 0 \in T
    <2> DEFINE g == [i \in 1..0 |-> i]
    <2>1. g = [i \in 1..0 |-> IF i = 1 THEN seqs[i] ELSE g[i - 1] \o seqs[i]]
        OBVIOUS
    <2> HIDE DEF g
    <2>2. Flattens(g, seqs, 0)
        BY <2>1 DEF Flattens
    <2> QED
        BY <2>2
<1>2. ASSUME NEW n \in T PROVE n + 1 \in T
    <2>1. PICK g : Flattens(g, seqs, n)
        BY <1>2
    <2> DEFINE next(f, i) == IF i = 1 THEN seqs[i] ELSE f[i - 1] \o seqs[i]
               h == [i \in 1..(n + 1) |-> IF i = n + 1 THEN next(g, i) ELSE g[i]]
    <2>2. n \in Nat
        OBVIOUS
    <2>3. \A i \in 1..n : g[i] = next(g, i)
        BY <2>1 DEF Flattens
    <2>4. \A i \in 1..n : h[i] = g[i]
        BY <2>2
    <2>5. h[n + 1] = next(g, n + 1)
        BY <2>2
    <2>6. \A i \in 1..(n + 1) : i # 1 => i - 1 \in 1..n
        BY <2>2
    <2>7. \A i \in 1..(n + 1) : i = n + 1 \/ i \in 1..n
        BY <2>2
    <2>8. \A i \in 1..(n + 1) : next(h, i) = next(g, i)
        BY <2>4, <2>6
    <2>9. DOMAIN h = 1..(n + 1) /\ h = [i \in 1..(n + 1) |-> h[i]]
        OBVIOUS
    <2> HIDE DEF h, next
    <2>10. \A i \in 1..(n + 1) : h[i] = next(h, i)
        BY <2>3, <2>4, <2>5, <2>7, <2>8
    <2>11. h = [i \in 1..(n + 1) |-> next(h, i)]
        BY <2>9, <2>10
    <2>12. Flattens(h, seqs, n + 1)
        BY <2>11 DEF Flattens, next
    <2> QED
        BY <2>2, <2>12
<1>3. T = Nat
    <2>1. T \in SUBSET Nat
        OBVIOUS
    <2> HIDE DEF T
    <2> QED
        BY <1>1, <1>2, <2>1, Induction
<1> QED
    BY <1>3

LEMMA FlattenNone == FlattenSeq(<<>>) = <<>>
BY DEF FlattenSeq

LEMMA FlattenSome ==
    ASSUME NEW seqs, Len(seqs) \in Nat \ {0}
    PROVE  \E g : Flattens(g, seqs, Len(seqs)) /\ FlattenSeq(seqs) = g[Len(seqs)]
<1> DEFINE n == Len(seqs)
           P(g) == g = [i \in 1..n |-> IF i = 1 THEN seqs[i] ELSE g[i - 1] \o seqs[i]]
           c == CHOOSE g : P(g)
<1>1. \E g : P(g)
    BY FlattensExists DEF Flattens
<1>2. P(c)
    BY <1>1
<1>3. FlattenSeq(seqs) = c[n]
    BY DEF FlattenSeq
<1> QED
    BY <1>2, <1>3 DEF Flattens

LEMMA InductionUpTo ==
    ASSUME NEW N \in Nat, NEW T, 0 \in T, \A n \in 0..(N - 1) : n \in T => n + 1 \in T
    PROVE  \A n \in 0..N : n \in T
<1> DEFINE U == {n \in Nat : n <= N => n \in T}
<1>1. U \in SUBSET Nat
    OBVIOUS
<1>2. 0 \in U
    OBVIOUS
<1>3. ASSUME NEW n \in U PROVE n + 1 \in U
    <2>1. n \in Nat
        OBVIOUS
    <2>2. CASE n + 1 <= N
        <3>1. n \in 0..(N - 1) /\ n \in T
            BY <2>1, <2>2
        <3>2. n + 1 \in T
            BY <3>1
        <3> QED
            BY <2>1, <3>2
    <2>3. CASE ~(n + 1 <= N)
        BY <2>1, <2>3
    <2> QED
        BY <2>2, <2>3
<1> HIDE DEF U
<1>4. U = Nat
    BY <1>1, <1>2, <1>3, Induction
<1> QED
    BY <1>4 DEF U

\* p[n] is the concatenation of the first n of seqs.
Parts(p, seqs) ==
    /\ p[0] = <<>>
    /\ \A n \in 1..Len(seqs) : p[n] = p[n - 1] \o seqs[n]

\* What FlattenSeq returns, and how it gets there.
LEMMA FlattenParts ==
    ASSUME NEW S, NEW seqs \in Seq(Seq(S))
    PROVE  \E p \in [0..Len(seqs) -> Seq(S)] :
               Parts(p, seqs) /\ FlattenSeq(seqs) = p[Len(seqs)]
<1> DEFINE N == Len(seqs)
<1>1. N \in Nat /\ \A n \in 1..N : seqs[n] \in Seq(S)
    OBVIOUS
<1>2. CASE N = 0
    <2> DEFINE p == [n \in 0..N |-> <<>>]
    <2>1. FlattenSeq(seqs) = <<>>
        <3>1. seqs = <<>>
            BY <1>2
        <3> QED
            BY <3>1, FlattenNone
    <2>2. p \in [0..N -> Seq(S)]
        OBVIOUS
    <2>3. p[0] = <<>> /\ p[N] = <<>> /\ 1..N = {}
        BY <1>2
    <2> HIDE DEF p
    <2> QED
        BY <2>1, <2>2, <2>3 DEF Parts
<1>3. CASE N # 0
    <2>1. PICK g : Flattens(g, seqs, N) /\ FlattenSeq(seqs) = g[N]
        BY <1>1, <1>3, FlattenSome
    <2> DEFINE p == [n \in 0..N |-> IF n = 0 THEN <<>> ELSE g[n]]
               T == {n \in 0..N : n = 0 \/ g[n] \in Seq(S)}
    <2>2. \A n \in 1..N : g[n] = IF n = 1 THEN seqs[n] ELSE g[n - 1] \o seqs[n]
        BY <2>1 DEF Flattens
    <2>3. ASSUME NEW n \in 0..(N - 1), n \in T PROVE n + 1 \in T
        <3>1. n + 1 \in 1..N /\ n \in Nat /\ n + 1 \in 0..N /\ (n + 1) - 1 = n
            BY <1>1, <2>3
        <3>2. CASE n = 0
            BY <1>1, <2>2, <3>1, <3>2
        <3>3. CASE n # 0
            <4>1. g[n] \in Seq(S) /\ seqs[n + 1] \in Seq(S)
                BY <1>1, <2>3, <3>1, <3>3
            <4>2. g[n + 1] = g[(n + 1) - 1] \o seqs[n + 1]
                <5>1. n + 1 # 1
                    BY <3>1, <3>3
                <5> HIDE DEF N, T
                <5> QED
                    BY <2>2, <3>1, <5>1
            <4>3. g[n + 1] \in Seq(S)
                BY <3>1, <4>1, <4>2
            <4> QED
                BY <3>1, <4>3
        <3> QED
            BY <3>2, <3>3
    <2>4. 0 \in T
        BY <1>1
    <2>5. \A n \in 0..N : n \in T
        <3> HIDE DEF T
        <3> QED
            BY <1>1, <2>3, <2>4, InductionUpTo
    <2>6. \A n \in 1..N : g[n] \in Seq(S)
        BY <1>1, <2>5
    <2>7. p \in [0..N -> Seq(S)]
        BY <2>6
    <2>8. p[0] = <<>> /\ p[N] = g[N]
        BY <1>1, <1>3
    <2>9. ASSUME NEW n \in 1..N PROVE p[n] = p[n - 1] \o seqs[n]
        <3>1. p[n] = g[n] /\ n - 1 \in 0..N
            BY <1>1
        <3>2. CASE n = 1
            <4>1. p[n - 1] = <<>> /\ p[n] = seqs[n] /\ seqs[n] \in Seq(S)
                BY <1>1, <2>2, <3>1, <3>2
            <4>2. <<>> \o seqs[n] = seqs[n]
                BY <4>1, ConcatEmptySeq
            <4> QED
                BY <4>1, <4>2
        <3>3. CASE n # 1
            <4>1. p[n - 1] = g[n - 1]
                BY <3>1, <3>3
            <4> QED
                BY <2>2, <3>1, <3>3, <4>1
        <3> QED
            BY <3>2, <3>3
    <2> HIDE DEF p
    <2> QED
        BY <2>1, <2>7, <2>8, <2>9 DEF Parts
<1> QED
    BY <1>2, <1>3

Starts(s, t) == Len(s) <= Len(t) /\ \A i \in 1..Len(s) : s[i] = t[i]

LEMMA ConcatLeft ==
    ASSUME NEW S, NEW s \in Seq(S), NEW t \in Seq(S)
    PROVE  /\ Len(s \o t) = Len(s) + Len(t)
           /\ \A i \in 1..(Len(s) + Len(t)) : i <= Len(s) => (s \o t)[i] = s[i]
BY ConcatProperties

LEMMA PartsArePrefixes ==
    ASSUME NEW S, NEW seqs \in Seq(Seq(S)), NEW p \in [0..Len(seqs) -> Seq(S)], Parts(p, seqs),
           NEW n \in 0..Len(seqs)
    PROVE  Starts(p[n], p[Len(seqs)])
<1> DEFINE N == Len(seqs)
           Prefix(m) == Len(p[n]) <= Len(p[m]) /\ \A i \in 1..Len(p[n]) : p[n][i] = p[m][i]
           T == {m \in 0..N : m >= n => Prefix(m)}
<1>1. N \in Nat /\ \A m \in 1..N : seqs[m] \in Seq(S)
    OBVIOUS
<1>2. \A m \in 0..N : p[m] \in Seq(S) /\ Len(p[m]) \in Nat
    BY LenProperties
<1>3. n \in 0..N /\ Prefix(n)
    BY <1>2
<1>4. 0 \in T
    <2>1. 0 >= n => n = 0
        BY <1>1, <1>3
    <2> QED
        BY <1>1, <1>3, <2>1
<1>5. ASSUME NEW m \in 0..(N - 1), m \in T PROVE m + 1 \in T
    <2>1. m + 1 \in 1..N /\ m \in 0..N /\ m + 1 \in 0..N /\ (m + 1) - 1 = m
        BY <1>1
    <2>2. p[m + 1] = p[m] \o seqs[m + 1]
        BY <2>1 DEF Parts
    <2>3. seqs[m + 1] \in Seq(S) /\ p[m] \in Seq(S)
        BY <1>1, <1>2, <2>1
    <2>4. /\ Len(p[m + 1]) = Len(p[m]) + Len(seqs[m + 1])
          /\ \A i \in 1..(Len(p[m]) + Len(seqs[m + 1])) : i <= Len(p[m]) => p[m + 1][i] = p[m][i]
        <3> DEFINE s == p[m]
                   u == seqs[m + 1]
        <3>1. s \in Seq(S) /\ u \in Seq(S) /\ p[m + 1] = s \o u
            BY <2>2, <2>3
        <3> HIDE DEF s, u
        <3>2. /\ Len(s \o u) = Len(s) + Len(u)
              /\ \A i \in 1..(Len(s) + Len(u)) : i <= Len(s) => (s \o u)[i] = s[i]
            BY <3>1, ConcatLeft
        <3> QED
            BY <3>1, <3>2 DEF s, u
    <2>5. Len(seqs[m + 1]) \in Nat /\ Len(p[m]) \in Nat /\ Len(p[n]) \in Nat
        BY <1>2, <1>3, <2>3, LenProperties
    <2>6. CASE m >= n
        <3> DEFINE a == Len(p[n])
                   b == Len(p[m])
                   c == Len(seqs[m + 1])
        <3>1. Len(p[n]) <= Len(p[m]) /\ \A i \in 1..Len(p[n]) : p[n][i] = p[m][i]
            BY <1>5, <2>6
        <3>2. a \in Nat /\ b \in Nat /\ c \in Nat /\ a <= b
            BY <2>5, <3>1
        <3>3. \A i \in 1..a : p[n][i] = p[m][i]
            BY <3>1
        <3>4. Len(p[m + 1]) = b + c /\ \A i \in 1..(b + c) : i <= b => p[m + 1][i] = p[m][i]
            BY <2>4
        <3> HIDE DEF a, b, c
        <3>5. \A i \in 1..a : i \in 1..(b + c) /\ i <= b
            BY <3>2
        <3>6. a <= Len(p[m + 1]) /\ \A i \in 1..a : p[n][i] = p[m + 1][i]
            BY <3>2, <3>3, <3>4, <3>5
        <3>7. Prefix(m + 1)
            BY <3>6 DEF a
        <3> QED
            BY <2>1, <3>7
    <2>7. CASE ~(m >= n)
        <3>1. m + 1 >= n => m + 1 = n
            BY <1>3, <2>1, <2>7
        <3> QED
            BY <1>3, <2>1, <3>1
    <2> QED
        BY <2>6, <2>7
<1>6. \A m \in 0..N : m \in T
    <2> HIDE DEF T
    <2> QED
        BY <1>1, <1>4, <1>5, InductionUpTo
<1>7. Prefix(N)
    BY <1>1, <1>3, <1>6
<1> QED
    BY <1>7 DEF Starts

LEMMA FlattenType ==
    ASSUME NEW S, NEW seqs \in Seq(Seq(S))
    PROVE  FlattenSeq(seqs) \in Seq(S)
<1>1. PICK p \in [0..Len(seqs) -> Seq(S)] :
          Parts(p, seqs) /\ FlattenSeq(seqs) = p[Len(seqs)]
    BY FlattenParts
<1>2. Len(seqs) \in 0..Len(seqs)
    BY LenProperties
<1> QED
    BY <1>1, <1>2

LEMMA FlattenOne ==
    ASSUME NEW S, NEW s \in Seq(S)
    PROVE  FlattenSeq(<<s>>) = s
<1> DEFINE seqs == <<s>>
<1>1. seqs \in Seq(Seq(S)) /\ Len(seqs) = 1 /\ seqs[1] = s
    OBVIOUS
<1> HIDE DEF seqs
<1>2. PICK p \in [0..Len(seqs) -> Seq(S)] :
          Parts(p, seqs) /\ FlattenSeq(seqs) = p[Len(seqs)]
    BY <1>1, FlattenParts
<1>3. p[1] = p[1 - 1] \o seqs[1] /\ p[0] = <<>>
    BY <1>1, <1>2 DEF Parts
<1>4. p[1] = <<>> \o s
    BY <1>1, <1>3
<1>5. FlattenSeq(seqs) = s
    BY <1>1, <1>2, <1>4, ConcatEmptySeq
<1> QED
    BY <1>5 DEF seqs

LEMMA FlattenSingletons ==
    ASSUME NEW S, NEW s \in Seq(S)
    PROVE  FlattenSeq([i \in DOMAIN s |-> <<s[i]>>]) = s
<1> DEFINE seqs == [i \in DOMAIN s |-> <<s[i]>>]
           N == Len(s)
<1>1. N \in Nat /\ DOMAIN s = 1..N /\ \A i \in 1..N : s[i] \in S
    BY LenProperties
<1>2. seqs \in Seq(Seq(S)) /\ Len(seqs) = N /\ \A i \in 1..N : seqs[i] = <<s[i]>>
    <2>1. seqs \in [1..N -> Seq(S)]
        BY <1>1
    <2> HIDE DEF seqs
    <2>2. seqs \in Seq(Seq(S)) /\ Len(seqs) = N
        BY <1>1, <2>1
    <2> QED
        BY <1>1, <2>2 DEF seqs
<1> HIDE DEF seqs
<1>3. PICK p \in [0..N -> Seq(S)] : Parts(p, seqs) /\ FlattenSeq(seqs) = p[N]
    BY <1>2, FlattenParts
<1> DEFINE T == {n \in 0..N : Len(p[n]) = n /\ \A i \in 1..n : p[n][i] = s[i]}
<1>4. 0 \in T
    BY <1>1, <1>3 DEF Parts
<1>5. ASSUME NEW n \in 0..(N - 1), n \in T PROVE n + 1 \in T
    <2>1. n + 1 \in 1..N /\ n \in Nat /\ n \in 0..N /\ n + 1 \in 0..N /\ (n + 1) - 1 = n
        BY <1>1
    <2>2. p[n + 1] = p[n] \o <<s[n + 1]>>
        BY <1>2, <1>3, <2>1 DEF Parts
    <2>3. p[n] \in Seq(S) /\ <<s[n + 1]>> \in Seq(S) /\ Len(<<s[n + 1]>>) = 1
        BY <1>1, <2>1
    <2>4. Len(p[n]) = n /\ \A i \in 1..n : p[n][i] = s[i]
        BY <1>5
    <2>5. Len(p[n + 1]) = n + 1
        BY <2>2, <2>3, <2>4, ConcatProperties
    <2>6. \A i \in 1..(n + 1) : p[n + 1][i] = IF i <= n THEN p[n][i] ELSE <<s[n + 1]>>[i - n]
        BY <2>2, <2>3, <2>4, ConcatProperties
    <2>7. ASSUME NEW i \in 1..(n + 1) PROVE p[n + 1][i] = s[i]
        <3>1. CASE i <= n
            BY <2>1, <2>4, <2>6, <3>1
        <3>2. CASE i = n + 1
            <4>1. i - n = 1 /\ ~(i <= n)
                BY <2>1, <3>2
            <4>2. <<s[n + 1]>>[1] = s[n + 1]
                OBVIOUS
            <4> QED
                BY <2>6, <3>2, <4>1, <4>2
        <3> QED
            BY <2>1, <3>1, <3>2
    <2> QED
        BY <2>1, <2>5, <2>7
<1>6. \A n \in 0..N : n \in T
    <2> HIDE DEF T
    <2> QED
        BY <1>1, <1>4, <1>5, InductionUpTo
<1>7. Len(p[N]) = N /\ \A i \in 1..N : p[N][i] = s[i]
    BY <1>1, <1>6
<1>8. p[N] \in Seq(S)
    BY <1>1
<1>9. p[N] = s
    BY <1>7, <1>8, SeqEqual
<1> QED
    BY <1>3, <1>9 DEF seqs

-----------------------------------------------------------------------------
(* The descriptors of one label *)

At(d, s) == {i \in DOMAIN s : s[i].label = d}

Lacks(s, d) == \A i \in DOMAIN s : s[i].label # d

Only(s, d) == \A i \in DOMAIN s : s[i].label = d

LEMMA OfAt ==
    ASSUME NEW S, NEW s \in Seq(S), NEW d
    PROVE  /\ At(d, s) \in SUBSET (1..Len(s)) /\ IsFiniteSet(At(d, s))
           /\ Of(d, s) = [k \in 1..Cardinality(At(d, s)) |-> s[Sorted(At(d, s))[k]]]
           /\ Sorted(At(d, s)) \in [1..Cardinality(At(d, s)) -> At(d, s)]
           /\ Cardinality(At(d, s)) \in Nat
<1>1. DOMAIN s = 1..Len(s) /\ Len(s) \in Nat
    BY LenProperties
<1>2. At(d, s) \in SUBSET (1..Len(s))
    BY <1>1 DEF At
<1>3. IsFiniteSet(1..Len(s)) /\ 1..Len(s) \in SUBSET Int
    BY <1>1, FS_Interval
<1>4. IsFiniteSet(At(d, s))
    BY <1>2, <1>3, FS_Subset
<1>5. Sorted(At(d, s)) \in [1..Cardinality(At(d, s)) -> At(d, s)] /\ Cardinality(At(d, s)) \in Nat
    BY <1>2, <1>3, <1>4, SortedRanks
<1>6. DOMAIN Sorted(At(d, s)) = 1..Cardinality(At(d, s))
    BY <1>5
<1>7. Of(d, s) = [k \in DOMAIN Sorted(At(d, s)) |-> s[Sorted(At(d, s))[k]]]
    BY DEF Of, At
<1> QED
    BY <1>2, <1>4, <1>5, <1>6, <1>7

LEMMA OfType ==
    ASSUME NEW S, NEW s \in Seq(S), NEW d
    PROVE  /\ Of(d, s) \in Seq(S)
           /\ \A k \in DOMAIN Of(d, s) : Of(d, s)[k].label = d /\ \E i \in DOMAIN s : Of(d, s)[k] = s[i]
<1> DEFINE A == At(d, s)
           n == Cardinality(A)
<1>1. /\ A \in SUBSET (1..Len(s)) /\ n \in Nat
      /\ Of(d, s) = [k \in 1..n |-> s[Sorted(A)[k]]]
      /\ Sorted(A) \in [1..n -> A]
    BY OfAt
<1>2. \A i \in A : s[i] \in S /\ s[i].label = d /\ i \in DOMAIN s
    BY DEF At
<1> HIDE DEF A, n
<1>3. \A k \in 1..n : Sorted(A)[k] \in A
    BY <1>1
<1>4. Of(d, s) \in [1..n -> S] /\ DOMAIN Of(d, s) = 1..n
    BY <1>1, <1>2, <1>3
<1>5. Of(d, s) \in Seq(S)
    BY <1>1, <1>4, SeqDef
<1>6. \A k \in 1..n : Of(d, s)[k] = s[Sorted(A)[k]]
    BY <1>1
<1> QED
    BY <1>2, <1>3, <1>4, <1>5, <1>6

LEMMA OfNone ==
    ASSUME NEW S, NEW s \in Seq(S), NEW d, Lacks(s, d)
    PROVE  Of(d, s) = <<>>
<1>1. At(d, s) = {}
    BY DEF At, Lacks
<1>2. Cardinality(At(d, s)) = 0
    BY <1>1, FS_EmptySet
<1>3. Of(d, s) = [k \in 1..0 |-> s[Sorted(At(d, s))[k]]]
    BY <1>2, OfAt
<1> QED
    BY <1>3

\* A label that occurs has descriptors.
LEMMA OfSome ==
    ASSUME NEW S, NEW s \in Seq(S), NEW i \in DOMAIN s
    PROVE  \E k \in DOMAIN Of(s[i].label, s) : Of(s[i].label, s)[k] = s[i]
<1> DEFINE d == s[i].label
           A == At(d, s)
           n == Cardinality(A)
<1>1. /\ A \in SUBSET (1..Len(s)) /\ IsFiniteSet(A) /\ n \in Nat
      /\ Of(d, s) = [k \in 1..n |-> s[Sorted(A)[k]]]
    BY OfAt
<1>2. i \in A /\ A \in SUBSET Int
    BY <1>1 DEF At
<1> HIDE DEF A
<1>3. PICK k \in 1..n : Sorted(A)[k] = i
    BY <1>1, <1>2, SortedCovers
<1> QED
    BY <1>1, <1>3

LEMMA OfAll ==
    ASSUME NEW S, NEW s \in Seq(S), NEW d, Only(s, d)
    PROVE  Of(d, s) = s
<1>1. DOMAIN s = 1..Len(s) /\ Len(s) \in Nat /\ s = [k \in 1..Len(s) |-> s[k]]
    BY LenProperties
<1>2. At(d, s) = 1..Len(s)
    BY <1>1 DEF At, Only
<1>3. Sorted(At(d, s)) = [k \in 1..Len(s) |-> k]
    BY <1>1, <1>2, SortedUpTo
<1>4. Cardinality(At(d, s)) = Len(s)
    BY <1>1, <1>2, SortedUpTo
<1>5. Of(d, s) = [k \in 1..Len(s) |-> s[Sorted(At(d, s))[k]]]
    BY <1>4, OfAt
<1>6. \A k \in 1..Len(s) : Sorted(At(d, s))[k] = k
    BY <1>1, <1>3
<1> QED
    BY <1>1, <1>5, <1>6

LEMMA OfUnique ==
    ASSUME NEW S, NEW s \in Seq(S), NEW i \in DOMAIN s,
           \A j \in DOMAIN s : s[j].label = s[i].label => j = i
    PROVE  Of(s[i].label, s) = <<s[i]>>
<1> DEFINE d == s[i].label
<1>1. At(d, s) = {i} /\ i \in Int
    BY LenProperties DEF At
<1>2. Cardinality(At(d, s)) = 1
    BY <1>1, FS_Singleton
<1>3. Sorted(At(d, s)) = <<i>>
    BY <1>1, SortedOne
<1>4. Of(d, s) = [k \in 1..1 |-> s[Sorted(At(d, s))[k]]]
    BY <1>2, OfAt
<1>5. \A k \in 1..1 : k = 1 /\ Sorted(At(d, s))[k] = i
    BY <1>3
<1>6. Of(d, s) = [k \in 1..1 |-> s[i]]
    BY <1>4, <1>5
<1> QED
    BY <1>6

LEMMA OfConcatLeft ==
    ASSUME NEW S, NEW s \in Seq(S), NEW t \in Seq(S), NEW d, Lacks(t, d)
    PROVE  Of(d, s \o t) = Of(d, s)
<1> DEFINE u == s \o t
<1>1. /\ Len(s) \in Nat /\ Len(t) \in Nat /\ DOMAIN s = 1..Len(s) /\ DOMAIN t = 1..Len(t)
      /\ u \in Seq(S) /\ DOMAIN u = 1..(Len(s) + Len(t))
      /\ \A i \in 1..(Len(s) + Len(t)) : u[i] = IF i <= Len(s) THEN s[i] ELSE t[i - Len(s)]
    BY LenProperties, ConcatProperties
<1> HIDE DEF u
<1>2. At(d, u) = At(d, s)
    <2>1. ASSUME NEW i \in At(d, u) PROVE i \in At(d, s)
        <3>1. i \in 1..(Len(s) + Len(t)) /\ u[i].label = d
            BY <1>1, <2>1 DEF At
        <3>2. CASE i <= Len(s)
            BY <1>1, <3>1, <3>2 DEF At
        <3>3. CASE ~(i <= Len(s))
            <4>1. i - Len(s) \in DOMAIN t /\ u[i] = t[i - Len(s)]
                BY <1>1, <3>1, <3>3
            <4> QED
                BY <3>1, <4>1 DEF Lacks
        <3> QED
            BY <3>2, <3>3
    <2>2. ASSUME NEW i \in At(d, s) PROVE i \in At(d, u)
        <3>1. i \in 1..Len(s) /\ s[i].label = d
            BY <1>1, <2>2 DEF At
        <3>2. i \in 1..(Len(s) + Len(t)) /\ i <= Len(s)
            BY <1>1, <3>1
        <3> QED
            BY <1>1, <3>1, <3>2 DEF At
    <2> QED
        BY <2>1, <2>2
<1> DEFINE A == At(d, s)
           n == Cardinality(A)
<1>3. /\ Of(d, u) = [k \in 1..n |-> u[Sorted(A)[k]]]
      /\ Of(d, s) = [k \in 1..n |-> s[Sorted(A)[k]]]
      /\ Sorted(A) \in [1..n -> A] /\ A \in SUBSET (1..Len(s))
    BY <1>1, <1>2, OfAt
<1> HIDE DEF A, n
<1>4. \A k \in 1..n : Sorted(A)[k] \in 1..Len(s)
    BY <1>3
<1>5. \A i \in 1..Len(s) : u[i] = s[i]
    BY <1>1
<1>6. \A k \in 1..n : u[Sorted(A)[k]] = s[Sorted(A)[k]]
    BY <1>4, <1>5
<1> QED
    BY <1>3, <1>6 DEF u

LEMMA OfConcatRight ==
    ASSUME NEW S, NEW s \in Seq(S), NEW t \in Seq(S), NEW d, Lacks(s, d), Only(t, d)
    PROVE  Of(d, s \o t) = t
<1> DEFINE u == s \o t
           a == Len(s) + 1
           n == Len(t)
<1>1. /\ Len(s) \in Nat /\ Len(t) \in Nat /\ DOMAIN s = 1..Len(s) /\ DOMAIN t = 1..Len(t)
      /\ u \in Seq(S) /\ DOMAIN u = 1..(Len(s) + Len(t))
      /\ \A i \in 1..(Len(s) + Len(t)) : u[i] = IF i <= Len(s) THEN s[i] ELSE t[i - Len(s)]
    BY LenProperties, ConcatProperties
<1> HIDE DEF u
<1>2. At(d, u) = a..(a + n - 1)
    <2>1. ASSUME NEW i \in At(d, u) PROVE i \in a..(a + n - 1)
        <3>1. i \in 1..(Len(s) + Len(t)) /\ u[i].label = d
            BY <1>1, <2>1 DEF At
        <3>2. ~(i <= Len(s))
            BY <1>1, <3>1 DEF Lacks
        <3> QED
            BY <1>1, <3>1, <3>2
    <2>2. ASSUME NEW i \in a..(a + n - 1) PROVE i \in At(d, u)
        <3>1. i \in 1..(Len(s) + Len(t)) /\ ~(i <= Len(s)) /\ i - Len(s) \in DOMAIN t
            BY <1>1, <2>2
        <3>2. u[i] = t[i - Len(s)]
            BY <1>1, <3>1 DEF Lacks
        <3> QED
            BY <1>1, <3>1, <3>2 DEF At, Only
    <2> QED
        BY <2>1, <2>2
<1>3. a \in Int /\ n \in Nat
    BY <1>1
<1>4. Sorted(At(d, u)) = [k \in 1..n |-> a + k - 1]
    BY <1>2, <1>3, SortedInterval
<1>5. Cardinality(At(d, u)) = n
    <2>1. a + n - 1 \in Int
        BY <1>3
    <2>2. Cardinality(a..(a + n - 1)) = IF a > a + n - 1 THEN 0 ELSE (a + n - 1) - a + 1
        BY <1>3, <2>1, FS_Interval
    <2> QED
        BY <1>2, <1>3, <2>2
<1>6. Of(d, u) = [k \in 1..n |-> u[Sorted(At(d, u))[k]]]
    BY <1>1, <1>5, OfAt
<1>7. ASSUME NEW k \in 1..n PROVE u[Sorted(At(d, u))[k]] = t[k]
    <2>1. Sorted(At(d, u))[k] = Len(s) + k
        BY <1>1, <1>4
    <2>2. Len(s) + k \in 1..(Len(s) + Len(t)) /\ ~(Len(s) + k <= Len(s)) /\ (Len(s) + k) - Len(s) = k
        BY <1>1
    <2>3. u[Len(s) + k] = t[(Len(s) + k) - Len(s)]
        BY <1>1, <2>2
    <2> QED
        BY <2>1, <2>2, <2>3
<1>8. Of(d, u) = [k \in 1..n |-> t[k]]
    BY <1>6, <1>7
<1>9. t = [k \in 1..n |-> t[k]]
    BY <1>1
<1> QED
    BY <1>8, <1>9 DEF u

\* Of a sequence that is grouped by label, the group of a label.
LEMMA OfGroup ==
    ASSUME NEW S, NEW seqs \in Seq(Seq(S)), NEW d \in 1..Len(seqs),
           \A n \in 1..Len(seqs) : \A i \in DOMAIN seqs[n] : seqs[n][i].label = n
    PROVE  Of(d, FlattenSeq(seqs)) = seqs[d]
<1> DEFINE N == Len(seqs)
<1>1. N \in Nat /\ \A n \in 1..N : seqs[n] \in Seq(S)
    OBVIOUS
<1>2. PICK p \in [0..N -> Seq(S)] : Parts(p, seqs) /\ FlattenSeq(seqs) = p[N]
    BY FlattenParts
<1> DEFINE Group(n) == IF d <= n THEN seqs[d] ELSE <<>>
           T == {n \in 0..N : /\ Of(d, p[n]) = Group(n)
                              /\ \A i \in DOMAIN p[n] : p[n][i].label \in 1..n}
<1>3. 0 \in T
    <2>1. p[0] = <<>> /\ 0 \in 0..N
        BY <1>1, <1>2 DEF Parts
    <2>2. <<>> \in Seq(S) /\ DOMAIN <<>> = {}
        OBVIOUS
    <2>3. Of(d, <<>>) = <<>>
        BY <2>2, OfNone DEF Lacks
    <2>4. Group(0) = <<>>
        OBVIOUS
    <2> QED
        BY <2>1, <2>2, <2>3, <2>4
<1>4. ASSUME NEW n \in 0..(N - 1), n \in T PROVE n + 1 \in T
    <2> DEFINE s == p[n]
               t == seqs[n + 1]
    <2>1. n + 1 \in 1..N /\ n \in Nat /\ n \in 0..N /\ n + 1 \in 0..N /\ (n + 1) - 1 = n
        BY <1>1
    <2>2. p[n + 1] = s \o t
        BY <1>2, <2>1 DEF Parts
    <2>3. s \in Seq(S) /\ t \in Seq(S)
        BY <1>1, <2>1
    <2>4. \A i \in DOMAIN t : t[i].label = n + 1
        BY <2>1
    <2>5. Of(d, s) = Group(n) /\ \A i \in DOMAIN s : s[i].label \in 1..n
        BY <1>4
    <2> HIDE DEF s, t
    <2>6. \A i \in DOMAIN (s \o t) : (s \o t)[i].label \in 1..(n + 1)
        <3>1. /\ Len(s) \in Nat /\ Len(t) \in Nat /\ DOMAIN s = 1..Len(s) /\ DOMAIN t = 1..Len(t)
              /\ s \o t \in Seq(S) /\ DOMAIN (s \o t) = 1..(Len(s) + Len(t))
              /\ \A i \in 1..(Len(s) + Len(t)) : (s \o t)[i] = IF i <= Len(s) THEN s[i] ELSE t[i - Len(s)]
            BY <2>3, LenProperties, ConcatProperties
        <3> SUFFICES ASSUME NEW i \in 1..(Len(s) + Len(t)) PROVE (s \o t)[i].label \in 1..(n + 1)
            BY <3>1
        <3>2. CASE i <= Len(s)
            <4>1. i \in DOMAIN s /\ (s \o t)[i] = s[i]
                BY <3>1, <3>2
            <4>2. s[i].label \in 1..n
                BY <2>5, <4>1
            <4> QED
                BY <2>1, <4>1, <4>2
        <3>3. CASE ~(i <= Len(s))
            <4>1. i - Len(s) \in DOMAIN t /\ (s \o t)[i] = t[i - Len(s)]
                BY <3>1, <3>3
            <4>2. t[i - Len(s)].label = n + 1
                BY <2>4, <4>1
            <4> QED
                BY <2>1, <4>1, <4>2
        <3> QED
            BY <3>2, <3>3
    <2>7. Of(d, s \o t) = Group(n + 1)
        <3>1. CASE d = n + 1
            <4>1. Lacks(s, d)
                BY <2>1, <2>5, <3>1 DEF Lacks
            <4>2. Only(t, d)
                BY <2>4, <3>1 DEF Only
            <4>3. Of(d, s \o t) = t
                BY <2>3, <4>1, <4>2, OfConcatRight
            <4>4. Group(n + 1) = seqs[n + 1]
                BY <2>1, <3>1
            <4> QED
                BY <4>3, <4>4 DEF t
        <3>2. CASE d # n + 1
            <4>1. Lacks(t, d)
                BY <2>4, <3>2 DEF Lacks
            <4>2. Of(d, s \o t) = Of(d, s)
                BY <2>3, <4>1, OfConcatLeft
            <4>3. Group(n + 1) = Group(n)
                BY <2>1, <3>2
            <4> QED
                BY <2>5, <4>2, <4>3
        <3> QED
            BY <3>1, <3>2
    <2> HIDE DEF Group
    <2> QED
        BY <2>1, <2>2, <2>6, <2>7
<1>5. \A n \in 0..N : n \in T
    <2> HIDE DEF T
    <2> QED
        BY <1>1, <1>3, <1>4, InductionUpTo
<1>6. Of(d, p[N]) = Group(N)
    BY <1>1, <1>5
<1>7. Group(N) = seqs[d]
    BY <1>1
<1> QED
    BY <1>2, <1>6, <1>7

-----------------------------------------------------------------------------
(* Windows *)

LEMMA WindowNumbers ==
    ASSUME NEW L \in Nat, NEW M \in Nat \ {0}
    PROVE  /\ (L + M - 1) \div M \in Nat
           /\ \A k \in 1..((L + M - 1) \div M) : 0 <= (k - 1) * M /\ (k - 1) * M < L
           /\ L = 0 => (L + M - 1) \div M = 0
           /\ L \in 1..M => (L + M - 1) \div M = 1
<1> DEFINE q == (L + M - 1) \div M
<1>1. q \in Nat /\ q * M <= L + M - 1 /\ L + M - 1 < (q + 1) * M
    OBVIOUS
<1> HIDE DEF q
<1>2. ASSUME NEW k \in 1..q PROVE 0 <= (k - 1) * M /\ (k - 1) * M < L
    <2>1. k * M <= q * M
        BY <1>1, <1>2
    <2>2. (k - 1) * M = k * M - M
        BY <1>1
    <2>3. 0 <= (k - 1) * M
        BY <1>1
    <2>4. k * M \in Int /\ q * M \in Int
        BY <1>1
    <2> QED
        BY <1>1, <2>1, <2>2, <2>3, <2>4
<1>3. L = 0 => q = 0
    <2> SUFFICES ASSUME L = 0, q >= 1 PROVE FALSE
        BY <1>1
    <2>1. q * M >= M
        BY <1>1
    <2> QED
        BY <1>1, <2>1
<1>4. L \in 1..M => q = 1
    <2> SUFFICES ASSUME L \in 1..M PROVE q = 1
        OBVIOUS
    <2>1. q # 0
        BY <1>1
    <2>2. ~(q >= 2)
        <3> SUFFICES ASSUME q >= 2 PROVE FALSE
            OBVIOUS
        <3>1. q * M >= 2 * M
            BY <1>1
        <3> QED
            BY <1>1, <3>1
    <2> QED
        BY <1>1, <2>1, <2>2
<1> QED
    BY <1>1, <1>2, <1>3, <1>4 DEF q

Descriptors == [label : Labels, start : Int, stop : Int]

LEMMA WindowedType ==
    ASSUME NEW S, NEW s \in Seq(S)
    PROVE  /\ Windowed(s) \in Seq(Seq(S))
           /\ \A k \in DOMAIN Windowed(s) :
                 /\ Windowed(s)[k] # <<>>
                 /\ \A j \in DOMAIN Windowed(s)[k] : \E i \in DOMAIN s : Windowed(s)[k][j] = s[i]
<1> DEFINE L == Len(s)
           M == MaxSlices
           q == (L + M - 1) \div M
           last(k) == IF k * M < L THEN k * M ELSE L
<1>1. L \in Nat /\ DOMAIN s = 1..L /\ \A i \in 1..L : s[i] \in S
    BY LenProperties
<1>2. q \in Nat /\ \A k \in 1..q : 0 <= (k - 1) * M /\ (k - 1) * M < L
    BY <1>1, WindowNumbers
<1>3. Windowed(s) = [k \in 1..q |-> SubSeq(s, (k - 1) * M + 1, last(k))]
    BY DEF Windowed
<1>4. ASSUME NEW k \in 1..q
      PROVE  /\ (k - 1) * M + 1 \in 1..L /\ last(k) \in 1..L /\ (k - 1) * M + 1 <= last(k)
             /\ (k - 1) * M + 1 \in Int /\ last(k) \in Int
    <2>1. k * M = (k - 1) * M + M /\ (k - 1) * M \in Int /\ k * M \in Int
        BY <1>2
    <2>2. 0 <= (k - 1) * M /\ (k - 1) * M < L
        BY <1>2
    <2> HIDE DEF q, L
    <2> QED
        BY <1>1, <2>1, <2>2
<1> HIDE DEF q, last
<1>5. ASSUME NEW k \in 1..q
      PROVE  /\ Windowed(s)[k] \in Seq(S) /\ Windowed(s)[k] # <<>>
             /\ \A j \in DOMAIN Windowed(s)[k] : \E i \in DOMAIN s : Windowed(s)[k][j] = s[i]
    <2> DEFINE a == (k - 1) * M + 1
               b == last(k)
               w == SubSeq(s, a, b)
    <2>1. Windowed(s)[k] = w
        BY <1>3
    <2>2. a \in 1..L /\ b \in 1..L /\ a <= b /\ a \in Int /\ b \in Int
        BY <1>4
    <2> HIDE DEF a, b
    <2>3. \A i \in a..b : i \in 1..L
        BY <1>1, <2>2
    <2>4. \A i \in a..b : s[i] \in S
        BY <1>1, <2>3
    <2>5. w \in Seq(S) /\ Len(w) = (IF a <= b THEN b - a + 1 ELSE 0)
          /\ \A i \in 1..(b - a + 1) : w[i] = s[a + i - 1]
        BY <2>2, <2>4, SubSeqProperties
    <2>6. Len(w) = b - a + 1 /\ DOMAIN w = 1..(b - a + 1) /\ Len(w) # 0
        BY <2>2, <2>5
    <2>7. \A j \in 1..(b - a + 1) : a + j - 1 \in DOMAIN s /\ w[j] = s[a + j - 1]
        BY <1>1, <2>2, <2>5
    <2> HIDE DEF w
    <2>8. w # <<>>
        <3>1. Len(<<>>) = 0
            OBVIOUS
        <3> QED
            BY <2>6, <3>1
    <2>9. \A j \in DOMAIN w : \E i \in DOMAIN s : w[j] = s[i]
        BY <2>6, <2>7
    <2> QED
        BY <2>1, <2>5, <2>8, <2>9
<1>6. Windowed(s) \in [1..q -> Seq(S)]
    BY <1>3, <1>5
<1>7. Windowed(s) \in Seq(Seq(S)) /\ DOMAIN Windowed(s) = 1..q
    BY <1>2, <1>6
<1> QED
    BY <1>5, <1>7

LEMMA WindowedNone == Windowed(<<>>) = <<>>
<1>1. (0 + MaxSlices - 1) \div MaxSlices = 0
    BY WindowNumbers
<1> QED
    BY <1>1 DEF Windowed

LEMMA WindowedOne ==
    ASSUME NEW S, NEW s \in Seq(S), Len(s) \in 1..MaxSlices
    PROVE  Windowed(s) = <<s>>
<1> DEFINE L == Len(s)
           M == MaxSlices
           q == (L + M - 1) \div M
<1>1. q = 1
    BY WindowNumbers
<1>2. \A k \in 1..1 : k = 1 /\ (k - 1) * M + 1 = 1 /\ (IF k * M < L THEN k * M ELSE L) = L
    OBVIOUS
<1>3. SubSeq(s, 1, L) = s
    BY SubSeqFull
<1>4. Windowed(s) = [k \in 1..q |-> SubSeq(s, (k - 1) * M + 1, IF k * M < L THEN k * M ELSE L)]
    BY DEF Windowed
<1> HIDE DEF q
<1>5. Windowed(s) = [k \in 1..1 |-> s]
    BY <1>1, <1>2, <1>3, <1>4
<1> QED
    BY <1>5

-----------------------------------------------------------------------------
(* One axis *)

Axes(n) == [origin : Nat, cells : Seq(0..(n - 1))]

Clamps(r, desc, axis) ==
    /\ r.start = IF desc.start < axis.origin THEN axis.origin ELSE desc.start
    /\ r.stop = IF desc.stop > Upper(axis) THEN Upper(axis) ELSE desc.stop
    /\ r.start \in Int /\ r.stop \in Int
    /\ axis.origin <= r.start /\ r.stop <= Upper(axis)
    /\ Upper(axis) \in Nat /\ axis.origin \in Nat

LEMMA SliceInRangeBounds ==
    ASSUME NEW n, NEW domain, NEW desc \in Descriptors,
           desc.label \in DOMAIN domain, domain[desc.label] \in Axes(n)
    PROVE  Clamps(SliceInRange(desc, domain), desc, domain[desc.label])
<1> DEFINE axis == domain[desc.label]
<1>1. axis.origin \in Nat /\ Len(axis.cells) \in Nat /\ Upper(axis) \in Nat
    BY DEF Axes, Upper
<1>2. SliceInRange(desc, domain) =
        [desc EXCEPT !.start = IF @ < axis.origin THEN axis.origin ELSE @,
                     !.stop  = IF @ > Upper(axis) THEN Upper(axis) ELSE @]
    BY DEF SliceInRange
<1>3. SliceInRange(desc, domain).start = IF desc.start < axis.origin THEN axis.origin ELSE desc.start
    BY <1>2 DEF Descriptors
<1>4. SliceInRange(desc, domain).stop = IF desc.stop > Upper(axis) THEN Upper(axis) ELSE desc.stop
    BY <1>2 DEF Descriptors
<1>5. desc.start \in Int /\ desc.stop \in Int
    BY DEF Descriptors
<1> QED
    BY <1>1, <1>3, <1>4, <1>5 DEF Clamps

LEMMA IntervalCells ==
    ASSUME NEW n, NEW axis \in Axes(n), NEW r, r.start \in Int, r.stop \in Int,
           axis.origin <= r.start, r.start <= r.stop, r.stop <= Upper(axis)
    PROVE  /\ HalfOpenInterval(axis, r) \in Axes(n)
           /\ HalfOpenInterval(axis, r).origin = r.start
           /\ Len(HalfOpenInterval(axis, r).cells) = r.stop - r.start
           /\ \A k \in 1..(r.stop - r.start) :
                 HalfOpenInterval(axis, r).cells[k] = axis.cells[r.start - axis.origin + k]
<1> DEFINE a == r.start - axis.origin + 1
           b == r.stop - axis.origin
           c == SubSeq(axis.cells, a, b)
<1>1. axis.origin \in Nat /\ axis.cells \in Seq(0..(n - 1)) /\ Len(axis.cells) \in Nat
      /\ DOMAIN axis.cells = 1..Len(axis.cells)
      /\ \A i \in 1..Len(axis.cells) : axis.cells[i] \in 0..(n - 1)
    <2>1. axis.origin \in Nat /\ axis.cells \in Seq(0..(n - 1))
        BY DEF Axes
    <2> QED
        BY <2>1, LenProperties, ElementOfSeq
<1>2. a \in Int /\ b \in Int /\ a >= 1 /\ b <= Len(axis.cells) /\ b - a + 1 = r.stop - r.start
    BY <1>1 DEF Upper
<1>3. \A k \in 1..(r.stop - r.start) : a + k - 1 = r.start - axis.origin + k
    BY <1>1
<1>4. HalfOpenInterval(axis, r) = [origin |-> r.start, cells |-> c]
    BY DEF HalfOpenInterval
<1> HIDE DEF a, b
<1>5. \A i \in a..b : axis.cells[i] \in 0..(n - 1)
    BY <1>1, <1>2
<1>6. c \in Seq(0..(n - 1)) /\ Len(c) = (IF a <= b THEN b - a + 1 ELSE 0)
      /\ \A i \in 1..(b - a + 1) : c[i] = axis.cells[a + i - 1]
    BY <1>2, <1>5, SubSeqProperties
<1>7. Len(c) = r.stop - r.start
    BY <1>2, <1>6
<1>8. \A k \in 1..(r.stop - r.start) : c[k] = axis.cells[r.start - axis.origin + k]
    BY <1>2, <1>3, <1>6
<1>9. r.start \in Nat
    BY <1>1
<1> HIDE DEF c
<1>10. HalfOpenInterval(axis, r) \in Axes(n)
    BY <1>4, <1>6, <1>9 DEF Axes
<1> QED
    BY <1>4, <1>7, <1>8, <1>10

\* The axis of dimension d after its descriptors rs.
Pieces(domain, d, rs) ==
    [i \in DOMAIN rs |-> HalfOpenInterval(domain[d], SliceInRange(rs[i], domain))]

Cut(domain, d, rs) == Concat(Pieces(domain, d, rs))

LEMMA SliceOneIs ==
    ASSUME NEW domain, NEW d \in DOMAIN domain, NEW descs
    PROVE  /\ SliceOne(domain, d, descs) = [domain EXCEPT ![d] = Cut(domain, d, Of(d, descs))]
           /\ SliceOne(domain, d, descs)[d] = Cut(domain, d, Of(d, descs))
<1>1. SliceOne(domain, d, descs) = [domain EXCEPT ![d] = Cut(domain, d, Of(d, descs))]
    BY DEF SliceOne, Cut, Pieces
<1> QED
    BY <1>1

LEMMA CutType ==
    ASSUME NEW n, NEW domain, NEW d \in DOMAIN domain, domain[d] \in Axes(n),
           NEW rs \in Seq(Descriptors), rs # <<>>, Only(rs, d), ~Refused(domain, rs)
    PROVE  Cut(domain, d, rs) \in Axes(n)
<1> DEFINE p == Pieces(domain, d, rs)
           cs == [i \in DOMAIN p |-> p[i].cells]
<1>1. Len(rs) \in Nat /\ DOMAIN rs = 1..Len(rs) /\ Len(rs) # 0 /\ 1 \in DOMAIN rs
    BY EmptySeq, LenProperties
<1>2. DOMAIN p = 1..Len(rs)
    BY <1>1 DEF Pieces
<1>3. ASSUME NEW i \in 1..Len(rs) PROVE p[i] \in Axes(n)
    <2> DEFINE r == SliceInRange(rs[i], domain)
    <2>1. rs[i] \in Descriptors /\ rs[i].label = d
        BY <1>1 DEF Only
    <2>2. ~(r.start > r.stop)
        BY <1>1 DEF Refused
    <2>3. /\ r.start \in Int /\ r.stop \in Int
          /\ domain[d].origin <= r.start /\ r.stop <= Upper(domain[d])
        BY <2>1, SliceInRangeBounds DEF Clamps
    <2> HIDE DEF r
    <2>4. HalfOpenInterval(domain[d], r) \in Axes(n)
        BY <2>2, <2>3, IntervalCells
    <2> QED
        BY <1>1, <2>4 DEF Pieces, r
<1>4. Cut(domain, d, rs) = [origin |-> p[1].origin, cells |-> FlattenSeq(cs)]
    BY DEF Cut, Concat
<1> HIDE DEF p
<1>5. \A i \in 1..Len(rs) : p[i].origin \in Nat /\ p[i].cells \in Seq(0..(n - 1))
    BY <1>3 DEF Axes
<1>6. cs \in [1..Len(rs) -> Seq(0..(n - 1))]
    BY <1>2, <1>5
<1> HIDE DEF cs
<1>7. cs \in Seq(Seq(0..(n - 1)))
    BY <1>1, <1>6, SeqDef
<1>8. FlattenSeq(cs) \in Seq(0..(n - 1))
    BY <1>7, FlattenType
<1>9. p[1].origin \in Nat
    BY <1>1, <1>5
<1> QED
    BY <1>4, <1>8, <1>9 DEF Axes

LEMMA CutOne ==
    ASSUME NEW n, NEW domain, NEW d \in DOMAIN domain, domain[d] \in Axes(n),
           NEW r \in Descriptors, r.label = d,
           ~Refused(domain, <<r>>)
    PROVE  Cut(domain, d, <<r>>) = HalfOpenInterval(domain[d], SliceInRange(r, domain))
<1> DEFINE h == HalfOpenInterval(domain[d], SliceInRange(r, domain))
           t == SliceInRange(r, domain)
<1>1. ~(t.start > t.stop)
    BY DEF Refused
<1>2. h \in Axes(n)
    <2>1. /\ t.start \in Int /\ t.stop \in Int
          /\ domain[d].origin <= t.start /\ t.stop <= Upper(domain[d])
        BY SliceInRangeBounds DEF Clamps
    <2> HIDE DEF t
    <2> QED
        BY <1>1, <2>1, IntervalCells DEF t
<1>3. Pieces(domain, d, <<r>>) = <<h>>
    BY DEF Pieces
<1> HIDE DEF h
<1>4. Cut(domain, d, <<r>>) = [origin |-> h.origin, cells |-> FlattenSeq(<<h.cells>>)]
    <2>1. [i \in DOMAIN <<h>> |-> <<h>>[i].cells] = <<h.cells>>
        OBVIOUS
    <2> QED
        BY <1>3, <2>1 DEF Cut, Concat
<1>5. h.cells \in Seq(0..(n - 1)) /\ h = [origin |-> h.origin, cells |-> h.cells]
    BY <1>2 DEF Axes
<1>6. FlattenSeq(<<h.cells>>) = h.cells
    BY <1>5, FlattenOne
<1> QED
    BY <1>4, <1>5, <1>6 DEF h

-----------------------------------------------------------------------------
(* One variable *)

Fits(domain, v) ==
    /\ domain = [d \in v |-> domain[d]]
    /\ \A d \in v : domain[d] \in Axes(Size[d])

LEMMA RefusedOf ==
    ASSUME NEW domain, NEW descs \in Seq(Descriptors), NEW d
    PROVE  /\ Refused(domain, Of(d, descs)) => Refused(domain, descs)
           /\ Only(descs, d) => Of(d, descs) = descs
           /\ Only(Of(d, descs), d) /\ Of(d, descs) \in Seq(Descriptors)
<1>1. \A k \in DOMAIN Of(d, descs) :
          Of(d, descs)[k].label = d /\ \E i \in DOMAIN descs : Of(d, descs)[k] = descs[i]
    BY OfType
<1>2. Refused(domain, Of(d, descs)) => Refused(domain, descs)
    BY <1>1 DEF Refused
<1> QED
    BY <1>1, <1>2, OfAll, OfType DEF Only

AlikeAlong(f, g, d) ==
    /\ d \in DOMAIN f <=> d \in DOMAIN g
    /\ d \in DOMAIN f => f[d] = g[d]

\* What a descriptor does to an axis depends on that axis alone.
LEMMA SameAxis ==
    ASSUME NEW f, NEW g, NEW d, NEW rs \in Seq(Descriptors), Only(rs, d), AlikeAlong(f, g, d)
    PROVE  /\ Refused(f, rs) <=> Refused(g, rs)
           /\ d \in DOMAIN f => Cut(f, d, rs) = Cut(g, d, rs)
<1>1. \A i \in DOMAIN rs : SliceInRange(rs[i], f) = SliceInRange(rs[i], g)
    BY DEF Only, SliceInRange, AlikeAlong
<1>2. Refused(f, rs) <=> Refused(g, rs)
    BY <1>1 DEF Refused
<1>3. ASSUME d \in DOMAIN f PROVE Cut(f, d, rs) = Cut(g, d, rs)
    <2>1. Pieces(f, d, rs) = Pieces(g, d, rs)
        BY <1>1, <1>3 DEF Pieces, AlikeAlong
    <2> QED
        BY <2>1 DEF Cut
<1> QED
    BY <1>2, <1>3

LEMMA SliceUnrepeated ==
    ASSUME NEW domain, NEW descs, Repeated(domain, descs) = {}
    PROVE  Slice(domain, descs) =
             [d \in DOMAIN domain |->
                 IF Of(d, descs) = <<>> THEN domain[d] ELSE Cut(domain, d, Of(d, descs))]
<1>1. Slice(domain, descs) =
        [d \in DOMAIN domain |->
            IF Of(d, descs) = <<>> THEN domain[d] ELSE SliceOne(domain, d, descs)[d]]
    BY DEF Slice
<1>2. \A d \in DOMAIN domain : SliceOne(domain, d, descs)[d] = Cut(domain, d, Of(d, descs))
    BY SliceOneIs
<1> QED
    BY <1>1, <1>2

LEMMA SliceType ==
    ASSUME NEW v \in SUBSET Dims, NEW domain, Fits(domain, v),
           NEW descs \in Seq(Descriptors), ~Refused(domain, descs)
    PROVE  Fits(Slice(domain, descs), v)
<1>1. DOMAIN domain = v
    BY DEF Fits
<1>2. ASSUME NEW d \in v, Of(d, descs) # <<>> PROVE Cut(domain, d, Of(d, descs)) \in Axes(Size[d])
    <2>1. domain[d] \in Axes(Size[d])
        BY DEF Fits
    <2>2. Of(d, descs) \in Seq(Descriptors) /\ Only(Of(d, descs), d) /\ ~Refused(domain, Of(d, descs))
        BY RefusedOf
    <2> QED
        BY <1>1, <1>2, <2>1, <2>2, CutType
<1>3. CASE Repeated(domain, descs) = {}
    <2>1. Slice(domain, descs) =
            [d \in v |-> IF Of(d, descs) = <<>> THEN domain[d] ELSE Cut(domain, d, Of(d, descs))]
        BY <1>1, <1>3, SliceUnrepeated
    <2>2. \A d \in v : Slice(domain, descs)[d] \in Axes(Size[d])
        BY <1>2, <2>1 DEF Fits
    <2>3. Slice(domain, descs) = [d \in v |-> Slice(domain, descs)[d]]
        BY <2>1
    <2> QED
        BY <2>2, <2>3 DEF Fits
<1>4. CASE Repeated(domain, descs) # {}
    <2> DEFINE repeated == Repeated(domain, descs)
               e == CHOOSE d \in repeated : \A x \in repeated : d <= x
    <2>1. repeated \in SUBSET Nat
        BY <1>1 DEF Repeated, Dims
    <2>2. e \in repeated
        BY <1>4, <2>1, LeastElement
    <2>3. Slice(domain, descs) = SliceOne(domain, e, descs)
        BY <1>4 DEF Slice
    <2>4. e \in v /\ Len(Of(e, descs)) > 1
        BY <1>1, <2>2 DEF Repeated
    <2> HIDE DEF e
    <2>5. Of(e, descs) # <<>>
        BY <2>4
    <2>6. Slice(domain, descs) = [domain EXCEPT ![e] = Cut(domain, e, Of(e, descs))]
        BY <1>1, <2>3, <2>4, SliceOneIs
    <2>7. Cut(domain, e, Of(e, descs)) \in Axes(Size[e])
        BY <1>2, <2>4, <2>5
    <2> QED
        BY <2>4, <2>6, <2>7 DEF Fits
<1> QED
    BY <1>3, <1>4

\* The slice of a variable along dimension e alone.
SlicedAlong(domain, new, v, e, rs) ==
    \A x \in v : new[x] = IF x = e THEN Cut(domain, e, rs) ELSE domain[x]

LEMMA SliceOnly ==
    ASSUME NEW v \in SUBSET Dims, NEW domain, Fits(domain, v), NEW e,
           NEW descs \in Seq(Descriptors), descs # <<>>, Only(descs, e)
    PROVE  SlicedAlong(domain, Slice(domain, descs), v, e, descs)
<1> SUFFICES Slice(domain, descs) = [d \in v |-> IF d = e THEN Cut(domain, e, descs) ELSE domain[d]]
    BY DEF SlicedAlong
<1>1. DOMAIN domain = v
    BY DEF Fits
<1>2. Of(e, descs) = descs
    BY OfAll
<1>3. ASSUME NEW d, d # e PROVE Of(d, descs) = <<>>
    <2>1. Lacks(descs, d)
        BY <1>3 DEF Lacks, Only
    <2> QED
        BY <2>1, OfNone
<1>4. CASE Repeated(domain, descs) = {}
    <2>1. Slice(domain, descs) =
            [d \in v |-> IF Of(d, descs) = <<>> THEN domain[d] ELSE Cut(domain, d, Of(d, descs))]
        BY <1>1, <1>4, SliceUnrepeated
    <2>2. \A d \in v : (IF Of(d, descs) = <<>> THEN domain[d] ELSE Cut(domain, d, Of(d, descs)))
                         = IF d = e THEN Cut(domain, e, descs) ELSE domain[d]
        BY <1>2, <1>3
    <2> QED
        BY <2>1, <2>2
<1>5. CASE Repeated(domain, descs) # {}
    <2>1. ASSUME NEW d \in Repeated(domain, descs) PROVE d = e
        <3>1. Len(Of(d, descs)) > 1
            BY <2>1 DEF Repeated
        <3>2. CASE d # e
            <4>1. Of(d, descs) = <<>>
                BY <1>3, <3>2
            <4> QED
                BY <3>1, <4>1
        <3> QED
            BY <3>2
    <2>2. Repeated(domain, descs) = {e} /\ e \in v
        BY <1>1, <1>5, <2>1 DEF Repeated
    <2>3. e \in Nat
        BY <2>2 DEF Dims
    <2>4. (CHOOSE d \in {e} : \A x \in {e} : d <= x) = e
        BY <2>3
    <2>5. Slice(domain, descs) = SliceOne(domain, e, descs)
        BY <2>2, <2>4 DEF Slice
    <2>6. Slice(domain, descs) = [domain EXCEPT ![e] = Cut(domain, e, descs)]
        BY <1>1, <1>2, <2>2, <2>5, SliceOneIs
    <2>7. domain = [d \in v |-> domain[d]]
        BY DEF Fits
    <2> QED
        BY <2>2, <2>6, <2>7
<1> QED
    BY <1>4, <1>5

-----------------------------------------------------------------------------
(* A dataset *)

Shown(w) ==
    /\ w = [v \in Variables |-> w[v]]
    /\ \A v \in Variables : Fits(w[v], v)

LEMMA IselType ==
    ASSUME NEW w, Shown(w), NEW descs \in Seq(Descriptors), IselOk(w, descs)
    PROVE  Shown(Isel(w, descs))
<1>1. \A v \in Variables : v \in SUBSET Dims
    OBVIOUS
<1>2. \A v \in Variables : Fits(Slice(w[v], descs), v)
    BY <1>1, SliceType DEF Shown, IselOk
<1> QED
    BY <1>2 DEF Isel, Shown

\* The windows of IselVector: each has descriptors, of one label.
Window == {w \in Seq(Descriptors) : w # <<>> /\ \E d \in Labels : Only(w, d)}

Groups(descs) == [d \in Labels |-> Windowed(Of(d, descs))]

LEMMA GroupsType ==
    ASSUME NEW descs \in Seq(Descriptors)
    PROVE  Groups(descs) \in Seq(Seq(Window)) /\ Len(Groups(descs)) = NumDims + 1
<1>1. ASSUME NEW d \in Labels PROVE Windowed(Of(d, descs)) \in Seq(Window)
    <2> DEFINE s == Of(d, descs)
               ws == Windowed(s)
    <2>1. s \in Seq(Descriptors) /\ Only(s, d)
        BY RefusedOf
    <2> HIDE DEF s
    <2>2. /\ ws \in Seq(Seq(Descriptors))
          /\ \A k \in DOMAIN ws :
                /\ ws[k] # <<>>
                /\ \A j \in DOMAIN ws[k] : \E i \in DOMAIN s : ws[k][j] = s[i]
        BY <2>1, WindowedType
    <2> HIDE DEF ws
    <2>3. DOMAIN ws = 1..Len(ws) /\ Len(ws) \in Nat /\ \A k \in 1..Len(ws) : ws[k] \in Seq(Descriptors)
        BY <2>2
    <2>4. \A k \in 1..Len(ws) : Only(ws[k], d)
        BY <2>1, <2>2, <2>3 DEF Only
    <2>5. \A k \in 1..Len(ws) : ws[k] \in Window
        BY <1>1, <2>2, <2>3, <2>4 DEF Window
    <2>6. ws \in [1..Len(ws) -> Window]
        BY <2>2, <2>3, <2>5
    <2>7. ws \in Seq(Window)
        BY <2>3, <2>6, SeqDef
    <2> QED
        BY <2>7 DEF s, ws
<1>2. Groups(descs) \in [1..(NumDims + 1) -> Seq(Window)]
    BY <1>1 DEF Groups, Labels
<1>3. NumDims + 1 \in Nat
    OBVIOUS
<1> QED
    BY <1>2, <1>3, SeqDef

LEMMA WindowsType ==
    ASSUME NEW descs \in Seq(Descriptors)
    PROVE  Windows(descs) \in Seq(Window)
<1>1. Windows(descs) = FlattenSeq(Groups(descs))
    BY DEF Windows, Groups
<1> QED
    BY <1>1, GroupsType, FlattenType

\* after[k] is what k windows have made of the dataset.
Applied(after, w, descs) ==
    /\ after[0] = [ok |-> descs # <<>>, view |-> w]
    /\ \A k \in 1..Len(Windows(descs)) : after[k] = ApplyWindow(after[k - 1], Windows(descs)[k])

LEMMA IselVectorSteps ==
    ASSUME NEW w, NEW descs \in Seq(Descriptors)
    PROVE  \E after : Applied(after, w, descs) /\ IselVector(w, descs) = after[Len(Windows(descs))]
<1> DEFINE ws == Windows(descs)
           N == Len(ws)
           next(f, k) == IF k = 0 THEN [ok |-> descs # <<>>, view |-> w]
                         ELSE ApplyWindow(f[k - 1], ws[k])
           Is(f, n) == f = [k \in 0..n |-> next(f, k)]
           T == {n \in Nat : \E f : Is(f, n)}
<1>1. N \in Nat
    BY WindowsType, LenProperties
<1>2. 0 \in T
    <2> DEFINE f == [k \in 0..0 |-> [ok |-> descs # <<>>, view |-> w]]
    <2>1. \A k \in 0..0 : k = 0 /\ next(f, k) = [ok |-> descs # <<>>, view |-> w]
        OBVIOUS
    <2>2. Is(f, 0)
        BY <2>1
    <2> QED
        BY <2>2
<1>3. ASSUME NEW n \in T PROVE n + 1 \in T
    <2>1. n \in Nat
        OBVIOUS
    <2>2. PICK g : Is(g, n)
        BY <1>3
    <2> DEFINE h == [k \in 0..(n + 1) |-> IF k = n + 1 THEN next(g, k) ELSE g[k]]
    <2>3. \A k \in 0..n : g[k] = next(g, k)
        BY <2>2
    <2>4. \A k \in 0..n : h[k] = g[k]
        BY <2>1
    <2>5. h[n + 1] = next(g, n + 1)
        BY <2>1
    <2>6. \A k \in 0..(n + 1) : k # 0 => k - 1 \in 0..n
        BY <2>1
    <2>7. \A k \in 0..(n + 1) : k = n + 1 \/ k \in 0..n
        BY <2>1
    <2>8. \A k \in 0..(n + 1) : next(h, k) = next(g, k)
        BY <2>4, <2>6
    <2>9. h = [k \in 0..(n + 1) |-> h[k]]
        OBVIOUS
    <2> HIDE DEF h, next
    <2>10. \A k \in 0..(n + 1) : h[k] = next(h, k)
        BY <2>3, <2>4, <2>5, <2>7, <2>8
    <2>11. Is(h, n + 1)
        BY <2>9, <2>10
    <2> QED
        BY <2>1, <2>11
<1>4. T = Nat
    <2>1. T \in SUBSET Nat
        OBVIOUS
    <2> HIDE DEF T
    <2> QED
        BY <1>2, <1>3, <2>1, Induction
<1> DEFINE c == CHOOSE f : Is(f, N)
<1>5. \E f : Is(f, N)
    BY <1>1, <1>4
<1>6. Is(c, N)
    <2> HIDE DEF Is
    <2> QED
        BY <1>5
<1>7. IselVector(w, descs) = c[N]
    BY DEF IselVector
<1> HIDE DEF c
<1>8. \A k \in 0..N : c[k] = next(c, k)
    BY <1>6
<1>9. Applied(c, w, descs)
    <2>1. 0 \in 0..N /\ \A k \in 1..N : k \in 0..N /\ k # 0
        BY <1>1
    <2> HIDE DEF N, ws
    <2> QED
        BY <1>8, <2>1 DEF Applied, N, ws
<1> QED
    BY <1>7, <1>9

LEMMA CoordinateVariable ==
    ASSUME NEW d \in Dims
    PROVE  {d} \in Variables /\ {d} \in SUBSET Dims
BY DimensionCoordinatesAssumption

LEMMA VariableDims == \A v \in Variables : v \in SUBSET Dims /\ Dims \subseteq Labels
BY DEF Dims, Labels

\* A window slices its dimension alike in all variables.
LEMMA IselAgrees ==
    ASSUME NEW w, Shown(w), Agree(w), NEW window \in Window
    PROVE  Agree(Isel(w, window))
<1>1. PICK e \in Labels : Only(window, e)
    BY DEF Window
<1>2. window \in Seq(Descriptors) /\ window # <<>>
    BY DEF Window
<1>3. ASSUME NEW v \in Variables
      PROVE  \A x \in v : Isel(w, window)[v][x] = IF x = e THEN Cut(w[v], e, window) ELSE w[v][x]
    <2>1. v \in SUBSET Dims /\ Fits(w[v], v)
        BY VariableDims DEF Shown
    <2> DEFINE domain == w[v]
    <2>2. Isel(w, window)[v] = Slice(domain, window)
        BY DEF Isel
    <2>3. Fits(domain, v) /\ v \in SUBSET Dims
        BY <2>1
    <2> HIDE DEF domain
    <2>4. SlicedAlong(domain, Slice(domain, window), v, e, window)
        BY <1>1, <1>2, <2>3, SliceOnly
    <2> QED
        BY <2>2, <2>4 DEF domain, SlicedAlong
<1> SUFFICES ASSUME NEW v \in Variables, NEW d \in v
             PROVE  Isel(w, window)[v][d] = Axis(Isel(w, window), d)
    BY DEF Agree
<1>4. d \in Dims /\ {d} \in Variables /\ d \in {d}
    BY VariableDims, CoordinateVariable
<1>5. w[v][d] = w[{d}][d]
    BY <1>4 DEF Agree, Axis
<1>6. DOMAIN w[v] = v /\ DOMAIN w[{d}] = {d}
    BY <1>4 DEF Shown, Fits
<1>7. CASE d = e
    <2>1. Cut(w[v], d, window) = Cut(w[{d}], d, window)
        <3> DEFINE f == w[v]
                   g == w[{d}]
        <3>1. f[d] = g[d] /\ d \in DOMAIN f /\ d \in DOMAIN g /\ Only(window, d)
            BY <1>1, <1>4, <1>5, <1>6, <1>7
        <3> HIDE DEF f, g
        <3>2. Cut(f, d, window) = Cut(g, d, window)
            BY <1>2, <3>1, SameAxis DEF AlikeAlong
        <3> QED
            BY <3>2 DEF f, g
    <2>2. Isel(w, window)[v][d] = Cut(w[v], d, window)
        BY <1>3, <1>7
    <2>3. Isel(w, window)[{d}][d] = Cut(w[{d}], d, window)
        BY <1>3, <1>4, <1>7
    <2> QED
        BY <2>1, <2>2, <2>3 DEF Axis
<1>8. CASE d # e
    <2>1. Isel(w, window)[v][d] = w[v][d]
        BY <1>3, <1>8
    <2>2. Isel(w, window)[{d}][d] = w[{d}][d]
        BY <1>3, <1>4, <1>8
    <2> QED
        BY <1>5, <2>1, <2>2 DEF Axis
<1> QED
    BY <1>7, <1>8

\* A result of isel.
Outcome(r) == r = [ok |-> r.ok, view |-> r.view] /\ r.ok \in BOOLEAN /\ Shown(r.view)

LEMMA ApplyWindowType ==
    ASSUME NEW r, Outcome(r), NEW window \in Window
    PROVE  /\ Outcome(ApplyWindow(r, window))
           /\ ApplyWindow(r, window).ok <=> r.ok /\ IselOk(r.view, window)
           /\ ApplyWindow(r, window).view =
                IF r.ok /\ IselOk(r.view, window) THEN Isel(r.view, window) ELSE r.view
<1>1. window \in Seq(Descriptors)
    BY DEF Window
<1>2. r = [ok |-> r.ok, view |-> r.view] /\ r.ok \in BOOLEAN /\ Shown(r.view)
    BY DEF Outcome
<1>3. CASE r.ok /\ IselOk(r.view, window)
    <2>1. ApplyWindow(r, window) = [ok |-> TRUE, view |-> Isel(r.view, window)]
        BY <1>3 DEF ApplyWindow
    <2>2. Shown(Isel(r.view, window))
        BY <1>1, <1>2, <1>3, IselType
    <2> QED
        BY <1>3, <2>1, <2>2 DEF Outcome
<1>4. CASE ~(r.ok /\ IselOk(r.view, window))
    <2>3. ApplyWindow(r, window) = [ok |-> FALSE, view |-> r.view]
        BY <1>4 DEF ApplyWindow
    <2> QED
        BY <1>2, <1>4, <2>3 DEF Outcome
<1> QED
    BY <1>3, <1>4

LEMMA IselVectorType ==
    ASSUME NEW w, Shown(w), NEW descs \in Seq(Descriptors)
    PROVE  /\ Outcome(IselVector(w, descs))
           /\ Agree(w) => Agree(IselVector(w, descs).view)
<1> DEFINE ws == Windows(descs)
           N == Len(ws)
<1>1. N \in Nat /\ \A k \in 1..N : ws[k] \in Window
    BY WindowsType, LenProperties
<1>2. PICK after : Applied(after, w, descs) /\ IselVector(w, descs) = after[N]
    BY IselVectorSteps
<1> DEFINE Good(k) == Outcome(after[k]) /\ (Agree(w) => Agree(after[k].view))
           T == {k \in 0..N : Good(k)}
<1>3. 0 \in T
    <2>1. after[0] = [ok |-> descs # <<>>, view |-> w]
        BY <1>2 DEF Applied
    <2>2. after[0].view = w /\ after[0].ok = (descs # <<>>)
        BY <2>1
    <2>3. Outcome(after[0])
        BY <2>1, <2>2 DEF Outcome
    <2> QED
        BY <1>1, <2>2, <2>3
<1>4. ASSUME NEW k \in 0..(N - 1), k \in T PROVE k + 1 \in T
    <2>1. k + 1 \in 1..N /\ k + 1 \in 0..N /\ (k + 1) - 1 = k
        BY <1>1
    <2>2. after[k + 1] = ApplyWindow(after[k], ws[k + 1])
        BY <1>2, <2>1 DEF Applied
    <2>3. Outcome(after[k]) /\ (Agree(w) => Agree(after[k].view)) /\ ws[k + 1] \in Window
        BY <1>1, <1>4, <2>1
    <2> HIDE DEF ws, N
    <2>4. Outcome(after[k + 1])
        BY <2>2, <2>3, ApplyWindowType
    <2>5. ASSUME Agree(w) PROVE Agree(after[k + 1].view)
        <3>1. Shown(after[k].view) /\ Agree(after[k].view)
            BY <2>3, <2>5 DEF Outcome
        <3>2. Agree(Isel(after[k].view, ws[k + 1]))
            BY <2>3, <3>1, IselAgrees
        <3>3. \/ after[k + 1].view = Isel(after[k].view, ws[k + 1])
              \/ after[k + 1].view = after[k].view
            BY <2>2, <2>3, ApplyWindowType
        <3> QED
            BY <3>1, <3>2, <3>3
    <2> QED
        BY <2>1, <2>4, <2>5
<1>5. \A k \in 0..N : k \in T
    <2> HIDE DEF T
    <2> QED
        BY <1>1, <1>3, <1>4, InductionUpTo
<1>6. Good(N)
    BY <1>1, <1>5
<1> QED
    BY <1>2, <1>6

\* One window a label is enough.
Few(descs) == \A d \in Labels : Len(Of(d, descs)) <= MaxSlices

LEMMA GroupFew ==
    ASSUME NEW descs \in Seq(Descriptors), Few(descs), NEW d \in Labels
    PROVE  /\ Of(d, descs) = <<>> => Groups(descs)[d] = <<>>
           /\ Of(d, descs) # <<>> => Groups(descs)[d] = <<Of(d, descs)>> /\ Of(d, descs) \in Window
<1> DEFINE s == Of(d, descs)
<1>1. s \in Seq(Descriptors) /\ Only(s, d) /\ Len(s) <= MaxSlices
    BY RefusedOf DEF Few
<1>2. Groups(descs)[d] = Windowed(s)
    BY DEF Groups
<1> HIDE DEF s
<1>3. CASE s = <<>>
    BY <1>2, <1>3, WindowedNone DEF s
<1>4. CASE s # <<>>
    <2>1. Len(s) \in 1..MaxSlices
        BY <1>1, <1>4, EmptySeq
    <2>2. Windowed(s) = <<s>>
        BY <1>1, <2>1, WindowedOne
    <2>3. s \in Window
        BY <1>1, <1>4 DEF Window
    <2> QED
        BY <1>2, <1>4, <2>2, <2>3 DEF s
<1> QED
    BY <1>3, <1>4

\* What the windows of the labels up to e make of the dataset.
UpToLabel(w, descs, r, e) ==
    /\ r.ok <=> descs # <<>> /\ \A v \in Variables : \A d \in 1..e : ~Refused(w[v], Of(d, descs))
    /\ r.ok => \A v \in Variables : \A d \in v :
                  r.view[v][d] = IF d > e \/ Of(d, descs) = <<>> THEN w[v][d]
                                 ELSE Cut(w[v], d, Of(d, descs))

LEMMA NextLabelNone ==
    ASSUME NEW w, NEW descs, NEW r, NEW e \in Nat, UpToLabel(w, descs, r, e), Of(e + 1, descs) = <<>>
    PROVE  UpToLabel(w, descs, r, e + 1)
<1>1. \A v \in Variables : ~Refused(w[v], Of(e + 1, descs))
    BY DEF Refused
<1>2. \A d \in 1..(e + 1) : d \in 1..e \/ d = e + 1
    OBVIOUS
<1>3. \A d \in 1..e : d \in 1..(e + 1)
    OBVIOUS
<1>4. r.ok <=> descs # <<>> /\ \A v \in Variables : \A d \in 1..(e + 1) : ~Refused(w[v], Of(d, descs))
    BY <1>1, <1>2, <1>3 DEF UpToLabel
<1>5. ASSUME r.ok, NEW v \in Variables, NEW d \in v
      PROVE  r.view[v][d] = IF d > e + 1 \/ Of(d, descs) = <<>> THEN w[v][d]
                            ELSE Cut(w[v], d, Of(d, descs))
    <2>1. d \in Nat
        BY <1>5, VariableDims DEF Dims
    <2>2. d > e + 1 \/ Of(d, descs) = <<>> <=> d > e \/ Of(d, descs) = <<>>
        BY <2>1
    <2> QED
        BY <1>5, <2>2 DEF UpToLabel
<1> QED
    BY <1>4, <1>5 DEF UpToLabel

LEMMA NextLabelSome ==
    ASSUME NEW w, Shown(w), NEW descs \in Seq(Descriptors), NEW r, Outcome(r), NEW e \in Nat,
           UpToLabel(w, descs, r, e), Of(e + 1, descs) # <<>>, e + 1 \in Labels
    PROVE  UpToLabel(w, descs, ApplyWindow(r, Of(e + 1, descs)), e + 1)
<1> DEFINE window == Of(e + 1, descs)
           n == ApplyWindow(r, window)
<1>1. window \in Seq(Descriptors) /\ Only(window, e + 1) /\ window \in Window
    BY RefusedOf DEF Window
<1>2. /\ n.ok <=> r.ok /\ IselOk(r.view, window)
      /\ r.ok /\ IselOk(r.view, window) => n.view = Isel(r.view, window)
    <2> HIDE DEF window
    <2> QED
        BY <1>1, ApplyWindowType
<1>3. Shown(r.view)
    BY DEF Outcome
<1>4. \A v \in Variables : /\ DOMAIN r.view[v] = v /\ DOMAIN w[v] = v
                           /\ Fits(r.view[v], v) /\ v \in SUBSET Dims
    BY <1>3, VariableDims DEF Shown, Fits
<1>5. \A d \in 1..(e + 1) : d \in 1..e \/ d = e + 1
    OBVIOUS
<1>6. \A d \in 1..e : d \in 1..(e + 1)
    OBVIOUS
<1>7. ASSUME r.ok, NEW v \in Variables
      PROVE  /\ Refused(r.view[v], window) <=> Refused(w[v], window)
             /\ e + 1 \in v => Cut(r.view[v], e + 1, window) = Cut(w[v], e + 1, window)
    <2> DEFINE f == r.view[v]
               g == w[v]
    <2>1. e + 1 \in v => f[e + 1] = g[e + 1]
        BY <1>7 DEF UpToLabel
    <2>2. DOMAIN f = v /\ DOMAIN g = v
        BY <1>4, <1>7
    <2> DEFINE d == e + 1
    <2>3. Only(window, d) /\ window \in Seq(Descriptors)
        BY <1>1
    <2>4. AlikeAlong(f, g, d)
        BY <2>1, <2>2 DEF AlikeAlong
    <2> HIDE DEF f, g, window, d
    <2>6. /\ Refused(f, window) <=> Refused(g, window)
          /\ d \in DOMAIN f => Cut(f, d, window) = Cut(g, d, window)
        BY <2>3, <2>4, SameAxis
    <2> QED
        BY <2>2, <2>6 DEF f, g, d
<1>8. r.ok => (IselOk(r.view, window) <=> \A v \in Variables : ~Refused(w[v], window))
    BY <1>7 DEF IselOk
<1>9. n.ok <=> descs # <<>> /\ \A v \in Variables : \A d \in 1..(e + 1) : ~Refused(w[v], Of(d, descs))
    <2>1. n.ok <=> r.ok /\ \A v \in Variables : ~Refused(w[v], Of(e + 1, descs))
        BY <1>2, <1>8
    <2> HIDE DEF n, window
    <2>2. r.ok <=> descs # <<>> /\ \A v \in Variables : \A d \in 1..e : ~Refused(w[v], Of(d, descs))
        BY DEF UpToLabel
    <2>3. e + 1 \in 1..(e + 1)
        OBVIOUS
    <2> QED
        BY <1>5, <1>6, <2>1, <2>2, <2>3
<1>10. ASSUME n.ok, NEW v \in Variables, NEW d \in v
       PROVE  n.view[v][d] = IF d > e + 1 \/ Of(d, descs) = <<>> THEN w[v][d]
                             ELSE Cut(w[v], d, Of(d, descs))
    <2>1. r.ok /\ n.view = Isel(r.view, window)
        BY <1>2, <1>10
    <2>2. n.view[v] = Slice(r.view[v], window)
        BY <1>10, <2>1 DEF Isel
    <2> DEFINE f == r.view[v]
    <2>3. Fits(f, v) /\ v \in SUBSET Dims
        BY <1>4, <1>10
    <2> HIDE DEF f, n, window
    <2>4. SlicedAlong(f, Slice(f, window), v, e + 1, window)
        BY <1>1, <2>3, SliceOnly DEF Window
    <2>5. Slice(f, window)[d] = IF d = e + 1 THEN Cut(f, e + 1, window) ELSE f[d]
        BY <1>10, <2>4 DEF SlicedAlong
    <2>6. f[d] = IF d > e \/ Of(d, descs) = <<>> THEN w[v][d] ELSE Cut(w[v], d, Of(d, descs))
        BY <1>10, <2>1 DEF UpToLabel, f
    <2>7. d \in Nat
        BY <1>10, <2>3 DEF Dims
    <2>8. CASE d = e + 1
        <3>1. Cut(f, e + 1, window) = Cut(w[v], e + 1, window)
            BY <1>7, <1>10, <2>1, <2>8 DEF f
        <3>2. ~(d > e + 1) /\ Of(d, descs) # <<>>
            BY <2>7, <2>8
        <3> QED
            BY <2>2, <2>5, <2>8, <3>1, <3>2 DEF f, window
    <2>9. CASE d # e + 1
        <3>1. d > e <=> d > e + 1
            BY <2>7, <2>9
        <3> QED
            BY <2>2, <2>5, <2>6, <2>9, <3>1 DEF f
    <2> QED
        BY <2>8, <2>9
<1> HIDE DEF n
<1>11. UpToLabel(w, descs, n, e + 1)
    BY <1>9, <1>10 DEF UpToLabel
<1> QED
    BY <1>11 DEF n

\* Every dimension is sliced by all of its descriptors at once.
SlicedByLabel(w, descs, r) ==
    /\ r.ok <=> descs # <<>> /\ \A v \in Variables : \A d \in Labels : ~Refused(w[v], Of(d, descs))
    /\ r.ok => \A v \in Variables : \A d \in v :
                  r.view[v][d] = IF Of(d, descs) = <<>> THEN w[v][d] ELSE Cut(w[v], d, Of(d, descs))

LEMMA IselVectorFew ==
    ASSUME NEW w, Shown(w), NEW descs \in Seq(Descriptors), Few(descs)
    PROVE  SlicedByLabel(w, descs, IselVector(w, descs))
<1> DEFINE ws == Windows(descs)
           gs == Groups(descs)
           N == NumDims + 1
<1>1. N \in Nat /\ Labels = 1..N /\ gs \in Seq(Seq(Window)) /\ Len(gs) = N
    BY GroupsType DEF Labels
<1>2. ws = FlattenSeq(gs) /\ ws \in Seq(Window)
    BY WindowsType DEF Windows, Groups
<1> HIDE DEF gs, ws
<1>3. PICK p \in [0..N -> Seq(Window)] : Parts(p, gs) /\ FlattenSeq(gs) = p[N]
    BY <1>1, FlattenParts
<1>4. PICK after : Applied(after, w, descs) /\ IselVector(w, descs) = after[Len(ws)]
    BY IselVectorSteps DEF ws
<1>5. /\ after[0] = [ok |-> descs # <<>>, view |-> w]
      /\ \A k \in 1..Len(ws) : after[k] = ApplyWindow(after[k - 1], ws[k])
    BY <1>4 DEF Applied, ws
<1>6. ASSUME NEW e \in 0..N
      PROVE  Len(p[e]) <= Len(ws) /\ Len(p[e]) \in Nat /\ \A i \in 1..Len(p[e]) : p[e][i] = ws[i]
    <2>1. p[e] \in Seq(Window)
        BY <1>3
    <2>2. Len(p[e]) \in Nat
        BY <2>1, LenProperties
    <2>3. p \in [0..Len(gs) -> Seq(Window)] /\ e \in 0..Len(gs) /\ Parts(p, gs)
        BY <1>1, <1>3
    <2>4. Starts(p[e], p[Len(gs)])
        BY <1>1, <2>3, PartsArePrefixes
    <2> QED
        BY <1>1, <1>2, <1>3, <2>2, <2>4 DEF Starts
<1> DEFINE r(e) == after[Len(p[e])]
           Good(e) == Outcome(r(e)) /\ UpToLabel(w, descs, r(e), e)
           T == {e \in 0..N : Good(e)}
<1>7. 0 \in T
    <2>1. p[0] = <<>>
        BY <1>3 DEF Parts
    <2>2. r(0) = [ok |-> descs # <<>>, view |-> w]
        BY <1>5, <2>1
    <2>3. r(0).ok = (descs # <<>>) /\ r(0).view = w
        BY <2>2
    <2>4. Outcome(r(0))
        BY <2>2, <2>3 DEF Outcome
    <2>5. \A v \in Variables : \A d \in v : d > 0
        BY VariableDims DEF Dims
    <2> HIDE DEF r
    <2>6. UpToLabel(w, descs, r(0), 0)
        <3>1. \A d \in 1..0 : FALSE
            OBVIOUS
        <3>2. r(0).ok <=> descs # <<>> /\ \A v \in Variables : \A d \in 1..0 : ~Refused(w[v], Of(d, descs))
            BY <2>3, <3>1
        <3>3. \A v \in Variables : \A d \in v :
                r(0).view[v][d] = IF d > 0 \/ Of(d, descs) = <<>> THEN w[v][d]
                                  ELSE Cut(w[v], d, Of(d, descs))
            BY <2>3, <2>5
        <3> QED
            BY <3>2, <3>3 DEF UpToLabel
    <2> QED
        BY <1>1, <2>4, <2>6
<1>8. ASSUME NEW e \in 0..(N - 1), e \in T PROVE e + 1 \in T
    <2>1. e + 1 \in 1..N /\ e \in 0..N /\ e + 1 \in 0..N /\ (e + 1) - 1 = e /\ e + 1 \in Labels /\ e \in Nat
        BY <1>1
    <2>2. p[e + 1] = p[e] \o gs[e + 1]
        BY <1>1, <1>3, <2>1 DEF Parts
    <2>3. Outcome(r(e)) /\ UpToLabel(w, descs, r(e), e)
        BY <1>8
    <2>4. p[e] \in Seq(Window)
        BY <1>3, <2>1
    <2>5. CASE Of(e + 1, descs) = <<>>
        <3>1. gs[e + 1] = <<>>
            BY <2>1, <2>5, GroupFew DEF gs
        <3>2. p[e + 1] = p[e]
            BY <2>2, <2>4, <3>1, ConcatEmptySeq
        <3>3. r(e + 1) = r(e)
            BY <3>2
        <3> HIDE DEF r
        <3>4. UpToLabel(w, descs, r(e + 1), e + 1)
            BY <2>1, <2>3, <2>5, <3>3, NextLabelNone
        <3> QED
            BY <2>1, <2>3, <3>3, <3>4
    <2>6. CASE Of(e + 1, descs) # <<>>
        <3> DEFINE window == Of(e + 1, descs)
                   k == Len(p[e]) + 1
        <3>1. gs[e + 1] = <<window>> /\ window \in Window
            BY <2>1, <2>6, GroupFew DEF gs
        <3> HIDE DEF window
        <3>2. Len(p[e + 1]) = k /\ p[e + 1][k] = window /\ k \in Nat /\ k >= 1
            <4>1. <<window>> \in Seq(Window) /\ Len(<<window>>) = 1 /\ <<window>>[1] = window
                BY <3>1
            <4>2. p[e + 1] = p[e] \o <<window>>
                BY <2>2, <3>1
            <4>3. Len(p[e]) \in Nat
                BY <1>6, <2>1
            <4>4. /\ Len(p[e + 1]) = Len(p[e]) + 1
                  /\ \A i \in 1..(Len(p[e]) + 1) :
                        p[e + 1][i] = IF i <= Len(p[e]) THEN p[e][i] ELSE <<window>>[i - Len(p[e])]
                BY <2>4, <4>1, <4>2, ConcatProperties
            <4>5. k \in 1..(Len(p[e]) + 1) /\ ~(k <= Len(p[e])) /\ k - Len(p[e]) = 1
                BY <4>3
            <4>6. Len(p[e + 1]) = k /\ k \in Nat /\ k >= 1
                BY <4>3, <4>4
            <4> HIDE DEF k
            <4>7. p[e + 1][k] = <<window>>[k - Len(p[e])]
                BY <4>4, <4>5
            <4> QED
                BY <4>1, <4>5, <4>6, <4>7
        <3>3. k \in 1..Len(ws) /\ ws[k] = window /\ k - 1 = Len(p[e])
            <4>1. k <= Len(ws) /\ \A i \in 1..k : p[e + 1][i] = ws[i]
                BY <1>6, <2>1, <3>2
            <4>2. Len(ws) \in Nat /\ Len(p[e]) \in Nat
                BY <1>2, <1>6, <2>1, LenProperties
            <4> HIDE DEF k
            <4>3. k \in 1..k /\ k \in 1..Len(ws)
                BY <3>2, <4>1, <4>2
            <4> QED
                BY <3>2, <4>1, <4>2, <4>3 DEF k
        <3>4. r(e + 1) = ApplyWindow(r(e), window)
            BY <1>5, <3>2, <3>3
        <3> HIDE DEF r
        <3>5. Outcome(r(e + 1))
            BY <2>3, <3>1, <3>4, ApplyWindowType
        <3>6. UpToLabel(w, descs, ApplyWindow(r(e), Of(e + 1, descs)), e + 1)
            BY <2>1, <2>3, <2>6, NextLabelSome
        <3> QED
            BY <2>1, <3>4, <3>5, <3>6 DEF window
    <2> QED
        BY <2>5, <2>6
<1>9. \A e \in 0..N : e \in T
    <2> HIDE DEF T
    <2> QED
        BY <1>1, <1>7, <1>8, InductionUpTo
<1>10. UpToLabel(w, descs, r(N), N)
    BY <1>1, <1>9
<1>11. r(N) = IselVector(w, descs)
    BY <1>2, <1>3, <1>4
<1>12. \A v \in Variables : \A d \in v : ~(d > N)
    BY <1>1, VariableDims DEF Dims
<1> HIDE DEF r
<1> QED
    BY <1>1, <1>10, <1>11, <1>12 DEF UpToLabel, SlicedByLabel

-----------------------------------------------------------------------------
(* The inductive invariant: the types, with the dataset as a whole *)

Ops == {"none", "isel", "iselVector", "value", "list", "range"}

IInv ==
    /\ coord \in Coordinates
    /\ Shown(view)
    /\ call.op \in Ops /\ call.ok \in BOOLEAN
    /\ call.calls \in 0..MaxCalls /\ call.descs \in 0..MaxDescs

LEMMA InvTypeOK == IInv => TypeOK
<1> SUFFICES ASSUME IInv PROVE TypeOK
    OBVIOUS
<1>1. ASSUME NEW v \in Variables
      PROVE  /\ DOMAIN view[v] = v
             /\ \A d \in v : /\ view[v][d].origin \in Nat
                             /\ view[v][d].cells \in Seq(0..(Size[d] - 1))
    <2>1. Fits(view[v], v)
        BY DEF IInv, Shown
    <2>2. DOMAIN view[v] = v
        BY <2>1 DEF Fits
    <2>3. \A d \in v : view[v][d] \in Axes(Size[d])
        BY <2>1 DEF Fits
    <2>4. \A d \in v : view[v][d].origin \in Nat /\ view[v][d].cells \in Seq(0..(Size[d] - 1))
        BY <2>3 DEF Axes
    <2> QED
        BY <2>2, <2>4
<1> QED
    BY <1>1 DEF IInv, TypeOK, Ops

LEMMA FullIsShown == Shown(Full) /\ Agree(Full)
<1>1. ASSUME NEW d \in Dims PROVE Whole(d) \in Axes(Size[d])
    <2> DEFINE c == [i \in 1..Size[d] |-> i - 1]
    <2>1. Size[d] \in Nat
        BY SizeAssumption
    <2>2. c \in [1..Size[d] -> 0..(Size[d] - 1)]
        BY <2>1
    <2> HIDE DEF c
    <2>3. c \in Seq(0..(Size[d] - 1))
        BY <2>1, <2>2, SeqDef
    <2>4. Whole(d) = [origin |-> 0, cells |-> c]
        BY DEF Whole, c
    <2> QED
        BY <2>3, <2>4 DEF Axes
<1>2. \A v \in Variables : Full[v] = [d \in v |-> Whole(d)]
    BY DEF Full
<1>3. \A v \in Variables : \A d \in v : Full[v][d] = Whole(d) /\ d \in Dims
    BY <1>2, VariableDims
<1>4. \A v \in Variables : Fits(Full[v], v)
    BY <1>1, <1>2, <1>3 DEF Fits
<1>5. Shown(Full)
    BY <1>4 DEF Shown, Full
<1>6. ASSUME NEW v \in Variables, NEW d \in v PROVE Full[v][d] = Axis(Full, d)
    <2>1. d \in Dims /\ {d} \in Variables /\ d \in {d}
        BY <1>6, VariableDims, CoordinateVariable
    <2>2. Full[v][d] = Whole(d) /\ Full[{d}][d] = Whole(d)
        BY <1>3, <1>6, <2>1
    <2> QED
        BY <2>2 DEF Axis
<1> QED
    BY <1>5, <1>6 DEF Agree

LEMMA InitInv == Init => IInv
<1> SUFFICES ASSUME Init PROVE IInv
    OBVIOUS
<1>1. call.op = "none" /\ call.ok = TRUE /\ call.calls = 0 /\ call.descs = 0
    BY DEF Init
<1>2. coord \in Coordinates /\ view = Full
    BY DEF Init
<1>3. Shown(view)
    BY <1>2, FullIsShown
<1>4. call.calls \in 0..MaxCalls /\ call.descs \in 0..MaxDescs
    BY <1>1, BoundsAssumption
<1>5. call.op \in Ops /\ call.ok \in BOOLEAN
    BY <1>1 DEF Ops
<1> QED
    BY <1>2, <1>3, <1>4, <1>5 DEF IInv

Result(r) == r.ok \in BOOLEAN /\ (r.ok => Shown(r.view))

LEMMA CallType ==
    ASSUME IInv, NEW op \in Ops, NEW args, NEW cost \in Nat, NEW result, Result(result),
           Call(op, args, cost, result)
    PROVE  IInv'
<1>1. /\ call'.op = op /\ call'.ok = result.ok
      /\ call'.calls = call.calls + 1 /\ call'.descs = call.descs + cost
    BY DEF Call
<1>2. call.calls < MaxCalls /\ call.descs + cost <= MaxDescs /\ coord' = coord
    BY DEF Call
<1>3. call'.calls \in 0..MaxCalls /\ call'.descs \in 0..MaxDescs
    BY <1>1, <1>2, BoundsAssumption DEF IInv
<1>4. Shown(view')
    BY DEF Call, IInv, Result
<1>5. Shown(view)'
    BY <1>4 DEF Shown
<1> QED
    BY <1>1, <1>2, <1>3, <1>5 DEF IInv, Result

\* The arguments of a call.
LEMMA UpToSeq ==
    ASSUME NEW n \in Int, NEW S, NEW s \in UpTo(n, S)
    PROVE  s \in Seq(S) /\ Len(s) \in Nat /\ Len(s) >= 1 /\ Len(s) <= n /\ DOMAIN s = 1..Len(s) /\ s # <<>>
<1>1. PICK k \in 1..n : s \in [1..k -> S]
    BY DEF UpTo
<1>2. k \in Nat /\ k >= 1 /\ k <= n
    OBVIOUS
<1>3. s \in Seq(S)
    BY <1>1, <1>2, SeqDef
<1>4. Len(s) = k
    BY <1>1, <1>2, <1>3
<1> QED
    BY <1>1, <1>2, <1>3, <1>4

LEMMA ArgsSeq ==
    ASSUME IInv, NEW S
    PROVE  /\ \A s \in Args(S) : s \in Seq(S) /\ Len(s) \in Nat /\ s # <<>>
           /\ \A s \in SelArgs(S) : s \in Seq(S) /\ Len(s) \in Nat /\ s # <<>>
<1>1. MaxDescs - call.descs \in Int
    BY BoundsAssumption DEF IInv
<1>2. Min({MaxDescs - call.descs, NumDims}) \in Int
    <2>1. \A a, b \in Int : Min({a, b}) \in {a, b}
        BY DEF Min
    <2> QED
        BY <1>1, <2>1
<1> QED
    BY <1>1, <1>2, UpToSeq DEF Args, SelArgs

LEMMA IselDescriptorsType ==
    ASSUME NEW s \in Seq(IselDescriptors)
    PROVE  s \in Seq(Descriptors)
<1>1. ASSUME NEW x \in IselDescriptors PROVE x \in Descriptors
    <2>1. PICK d \in Labels, r \in Ranges : x = Descriptor(d, r[1], r[2])
        BY DEF IselDescriptors
    <2>2. r[1] \in Int /\ r[2] \in Int
        BY RangesAssumption
    <2> QED
        BY <2>1, <2>2 DEF Descriptor, Descriptors
<1>2. IselDescriptors \subseteq Descriptors
    BY <1>1
<1> QED
    BY <1>2, SeqMonotonic

LEMMA DoIselResult ==
    ASSUME IInv, NEW descs \in Args(IselDescriptors)
    PROVE  /\ descs \in Seq(Descriptors) /\ Len(descs) \in Nat /\ descs # <<>>
           /\ Result(IF IselOk(view, descs) THEN [ok |-> TRUE, view |-> Isel(view, descs)] ELSE Error)
           /\ Result(IselVector(view, descs))
<1>1. descs \in Seq(Descriptors) /\ Len(descs) \in Nat /\ descs # <<>>
    BY ArgsSeq, IselDescriptorsType
<1>2. Shown(view)
    BY DEF IInv
<1>3. IselOk(view, descs) => Shown(Isel(view, descs))
    BY <1>1, <1>2, IselType
<1>4. Outcome(IselVector(view, descs))
    BY <1>1, <1>2, IselVectorType
<1> QED
    BY <1>1, <1>2, <1>3, <1>4 DEF Result, Error, Outcome

-----------------------------------------------------------------------------
(* Selection by label: what is read, and the descriptors made of it *)

LEMMA CoordinateRead ==
    ASSUME NEW w, Shown(w), coord \in Coordinates, NEW d \in Dims
    PROVE  /\ Axis(w, d) \in Axes(Size[d]) /\ Axis(w, d) = w[{d}][d]
           /\ Axis(w, d).origin \in Nat /\ Axis(w, d).cells \in Seq(0..(Size[d] - 1))
           /\ Len(Axis(w, d).cells) \in Nat
           /\ ReadCoordinate(w, d) \in Seq(Values \cup {NaN})
           /\ Len(ReadCoordinate(w, d)) = Len(Axis(w, d).cells)
           /\ DOMAIN ReadCoordinate(w, d) = 1..Len(Axis(w, d).cells)
           /\ \A i \in 1..Len(Axis(w, d).cells) :
                 ReadCoordinate(w, d)[i] = coord[d][Axis(w, d).cells[i] + 1]
<1> DEFINE axis == Axis(w, d)
           L == Len(axis.cells)
<1>1. Fits(w[{d}], {d})
    BY CoordinateVariable DEF Shown
<1>2. axis \in Axes(Size[d])
    BY <1>1 DEF Fits, Axis
<1>3. axis.origin \in Nat /\ axis.cells \in Seq(0..(Size[d] - 1))
    BY <1>2 DEF Axes
<1> HIDE DEF axis
<1>4. L \in Nat /\ DOMAIN axis.cells = 1..L /\ \A i \in 1..L : axis.cells[i] \in 0..(Size[d] - 1)
    BY <1>3, LenProperties, ElementOfSeq
<1>5. coord[d] \in Seq(Values \cup {NaN}) /\ Len(coord[d]) = Size[d] /\ Size[d] \in Nat
    BY CoordinatesAssumption, SizeAssumption
<1>6. \A j \in 1..Size[d] : coord[d][j] \in Values \cup {NaN}
    BY <1>5, ElementOfSeq
<1>7. \A i \in 1..L : axis.cells[i] + 1 \in 1..Size[d]
    BY <1>4, <1>5
<1>8. ReadCoordinate(w, d) = [i \in 1..L |-> coord[d][axis.cells[i] + 1]]
    BY <1>4 DEF ReadCoordinate, axis
<1> HIDE DEF L
<1>9. ReadCoordinate(w, d) \in [1..L -> Values \cup {NaN}]
    BY <1>6, <1>7, <1>8
<1>10. ReadCoordinate(w, d) \in Seq(Values \cup {NaN}) /\ Len(ReadCoordinate(w, d)) = L
       /\ DOMAIN ReadCoordinate(w, d) = 1..L
    BY <1>4, <1>8, <1>9, SeqDef
<1> QED
    BY <1>2, <1>3, <1>4, <1>8, <1>10 DEF axis, L, Axis

LEMMA PointsType ==
    ASSUME NEW w, Shown(w), coord \in Coordinates, NEW d \in Dims,
           NEW samples \in Seq(1..Len(Axis(w, d).cells))
    PROVE  /\ Points(w, d, samples) \in Seq(Descriptors) /\ Only(Points(w, d, samples), d)
           /\ Len(Points(w, d, samples)) = Len(samples)
           /\ \A k \in 1..Len(samples) :
                 /\ Points(w, d, samples)[k].start = Axis(w, d).origin + samples[k] - 1
                 /\ Points(w, d, samples)[k].stop = Axis(w, d).origin + samples[k]
<1> DEFINE o == Axis(w, d).origin
           L == Len(Axis(w, d).cells)
           n == Len(samples)
           p == Points(w, d, samples)
<1>1. o \in Nat /\ L \in Nat
    BY CoordinateRead
<1>2. n \in Nat /\ DOMAIN samples = 1..n /\ \A k \in 1..n : samples[k] \in 1..L
    BY LenProperties, ElementOfSeq
<1>3. p = [k \in 1..n |-> Descriptor(d, o + samples[k] - 1, (o + samples[k] - 1) + 1)]
    BY <1>2 DEF Points, IndexOfSample
<1> HIDE DEF o, L, n, p
<1>4. d \in Labels
    BY DEF Dims, Labels
<1>5. ASSUME NEW k \in 1..n
      PROVE  /\ p[k] \in Descriptors /\ p[k].label = d
             /\ p[k].start = o + samples[k] - 1 /\ p[k].stop = o + samples[k]
    <2>1. samples[k] \in Nat
        BY <1>1, <1>2
    <2>2. p[k] = [label |-> d, start |-> o + samples[k] - 1, stop |-> (o + samples[k] - 1) + 1]
        BY <1>3 DEF Descriptor
    <2>3. (o + samples[k] - 1) + 1 = o + samples[k] /\ o + samples[k] - 1 \in Int /\ o + samples[k] \in Int
        BY <1>1, <2>1
    <2> QED
        BY <1>4, <2>2, <2>3 DEF Descriptors
<1>6. p \in [1..n -> Descriptors]
    BY <1>3, <1>5
<1>7. p \in Seq(Descriptors) /\ Len(p) = n /\ DOMAIN p = 1..n
    BY <1>2, <1>6, SeqDef
<1>8. Only(p, d)
    BY <1>5, <1>7 DEF Only
<1> QED
    BY <1>5, <1>7, <1>8 DEF o, n, p

PointsAt(rs, samples, origin) ==
    /\ Len(rs) = Len(samples)
    /\ \A k \in 1..Len(samples) :
          rs[k].start = origin + samples[k] - 1 /\ rs[k].stop = origin + samples[k]

\* What points of an axis select: the samples, in the order of the points.
LEMMA CutPoints ==
    ASSUME NEW n, NEW domain, NEW d \in DOMAIN domain, domain[d] \in Axes(n),
           NEW samples \in Seq(1..Len(domain[d].cells)), samples # <<>>,
           NEW rs \in Seq(Descriptors), Only(rs, d), PointsAt(rs, samples, domain[d].origin)
    PROVE  /\ ~Refused(domain, rs)
           /\ Cut(domain, d, rs).cells = [k \in 1..Len(samples) |-> domain[d].cells[samples[k]]]
<1> DEFINE axis == domain[d]
           L == Len(axis.cells)
           N == Len(samples)
           t(k) == SliceInRange(rs[k], domain)
           p == Pieces(domain, d, rs)
           cs == [k \in DOMAIN p |-> p[k].cells]
           chosen == [k \in 1..N |-> axis.cells[samples[k]]]
<1>1. axis.origin \in Nat /\ axis.cells \in Seq(0..(n - 1))
    BY DEF Axes
<1>2. L \in Nat /\ DOMAIN axis.cells = 1..L /\ Upper(axis) = axis.origin + L
    BY <1>1, LenProperties DEF Upper
<1>3. N \in Nat /\ N # 0 /\ DOMAIN rs = 1..N /\ \A k \in 1..N : samples[k] \in 1..L /\ rs[k] \in Descriptors
    BY LenProperties, ElementOfSeq, EmptySeq DEF PointsAt
<1>4. ASSUME NEW k \in 1..N
      PROVE  /\ t(k).start = axis.origin + samples[k] - 1 /\ t(k).stop = axis.origin + samples[k]
             /\ samples[k] \in Nat
    <2>1. rs[k].label = d /\ rs[k] \in Descriptors
        BY <1>3 DEF Only
    <2>2. /\ rs[k].start = axis.origin + samples[k] - 1 /\ rs[k].stop = axis.origin + samples[k]
          /\ samples[k] \in 1..L
        BY <1>3 DEF PointsAt
    <2> DEFINE desc == rs[k]
               r == SliceInRange(desc, domain)
    <2>3. /\ t(k).start = (IF rs[k].start < axis.origin THEN axis.origin ELSE rs[k].start)
          /\ t(k).stop = (IF rs[k].stop > Upper(axis) THEN Upper(axis) ELSE rs[k].stop)
        <3>1. desc \in Descriptors /\ desc.label = d
            BY <2>1
        <3> HIDE DEF desc
        <3>2. Clamps(r, desc, domain[d])
            BY <3>1, SliceInRangeBounds
        <3> QED
            BY <3>2 DEF desc, Clamps
    <2> HIDE DEF t, axis, L, r, desc
    <2>4. ~(rs[k].start < axis.origin) /\ ~(rs[k].stop > Upper(axis)) /\ samples[k] \in Nat
        <3> DEFINE o == axis.origin
                   u == Upper(axis)
                   s == samples[k]
                   from == rs[k].start
                   to == rs[k].stop
        <3>1. /\ o \in Nat /\ L \in Nat /\ u = o + L /\ s \in 1..L
              /\ from = o + s - 1 /\ to = o + s
            BY <1>1, <1>2, <2>2
        <3> HIDE DEF o, u, s, from, to
        <3>2. ~(from < o) /\ ~(to > u) /\ s \in Nat
            BY <3>1
        <3> QED
            BY <3>2 DEF o, u, s, from, to
    <2> QED
        BY <2>2, <2>3, <2>4
<1>5. ~Refused(domain, rs)
    <2>1. axis.origin \in Int
        BY <1>1
    <2> HIDE DEF axis
    <2>2. \A k \in 1..N : ~(t(k).start > t(k).stop)
        <3> HIDE DEF t, N
        <3> QED
            BY <1>4, <2>1
    <2> QED
        BY <1>3, <2>2 DEF Refused
<1>6. DOMAIN p = 1..N /\ \A k \in 1..N : p[k] = HalfOpenInterval(axis, t(k))
    BY <1>3 DEF Pieces
<1> HIDE DEF t, p, axis, L
<1>7. ASSUME NEW k \in 1..N PROVE p[k].cells = <<axis.cells[samples[k]]>>
    <2> DEFINE h == HalfOpenInterval(axis, t(k))
    <2>1. /\ t(k).start \in Int /\ t(k).stop \in Int /\ axis.origin <= t(k).start
          /\ t(k).start <= t(k).stop /\ t(k).stop <= Upper(axis) /\ t(k).stop - t(k).start = 1
          /\ t(k).start - axis.origin + 1 = samples[k]
        <3>1. samples[k] \in 1..L /\ samples[k] \in Nat
            BY <1>3, <1>4
        <3> DEFINE s == samples[k]
                   o == axis.origin
                   from == t(k).start
                   to == t(k).stop
        <3>2. from = o + s - 1 /\ to = o + s
            BY <1>4
        <3>3. o \in Nat /\ L \in Nat /\ Upper(axis) = o + L /\ s \in Nat /\ 1 <= s /\ s <= L
            BY <1>1, <1>2, <3>1
        <3> HIDE DEF s, o, from, to
        <3>4. /\ from \in Int /\ to \in Int /\ o <= from /\ from <= to /\ to <= Upper(axis)
              /\ to - from = 1 /\ from - o + 1 = s
            BY <3>2, <3>3
        <3> QED
            BY <3>4 DEF s, o, from, to
    <2>2. axis \in Axes(n)
        BY DEF axis
    <2>3. /\ h \in Axes(n) /\ Len(h.cells) = t(k).stop - t(k).start
          /\ \A j \in 1..(t(k).stop - t(k).start) :
                h.cells[j] = axis.cells[t(k).start - axis.origin + j]
        BY <2>1, <2>2, IntervalCells
    <2> HIDE DEF h
    <2>4. h.cells \in Seq(0..(n - 1)) /\ Len(h.cells) = 1
        BY <2>1, <2>3 DEF Axes
    <2>5. h.cells[1] = axis.cells[samples[k]]
        <3>1. 1 \in 1..(t(k).stop - t(k).start)
            BY <2>1
        <3> QED
            BY <2>1, <2>3, <3>1
    <2>6. h.cells = <<axis.cells[samples[k]]>>
        BY <2>4, <2>5
    <2> QED
        BY <1>6, <2>6 DEF h
<1>8. cs = [k \in 1..N |-> <<axis.cells[samples[k]]>>]
    BY <1>6, <1>7
<1>9. chosen \in Seq(0..(n - 1)) /\ DOMAIN chosen = 1..N /\ \A k \in 1..N : chosen[k] = axis.cells[samples[k]]
    <2>1. \A i \in 1..L : axis.cells[i] \in 0..(n - 1)
        BY <1>1, ElementOfSeq DEF L
    <2>2. chosen \in [1..N -> 0..(n - 1)]
        BY <1>3, <2>1
    <2>3. \A k \in 1..N : chosen[k] = axis.cells[samples[k]]
        OBVIOUS
    <2> HIDE DEF chosen, N
    <2>4. DOMAIN chosen = 1..N
        BY <2>2
    <2>5. chosen \in Seq(0..(n - 1))
        <3> DEFINE X == 0..(n - 1)
        <3>1. N \in Nat /\ chosen \in [1..N -> X]
            BY <1>3, <2>2
        <3> HIDE DEF X
        <3>2. chosen \in Seq(X)
            BY <3>1, SeqDef
        <3> QED
            BY <3>2 DEF X
    <2> QED
        BY <2>3, <2>4, <2>5
<1> HIDE DEF chosen, cs
<1>10. cs = [k \in DOMAIN chosen |-> <<chosen[k]>>]
    BY <1>8, <1>9
<1>11. FlattenSeq(cs) = chosen
    BY <1>9, <1>10, FlattenSingletons
<1>12. Cut(domain, d, rs).cells = FlattenSeq(cs)
    BY DEF Cut, Concat, p, cs
<1> QED
    BY <1>5, <1>11, <1>12 DEF chosen, axis

-----------------------------------------------------------------------------
(* Selection by index: each dimension is narrowed to its range             *)

\* Each dimension has at most one descriptor.
LEMMA OfOnePerLabel ==
    ASSUME NEW S, NEW args \in Seq(S), OnePerLabel(args), NEW d
    PROVE  \/ Of(d, args) = <<>> /\ \A i \in DOMAIN args : args[i].label # d
           \/ \E i \in DOMAIN args :
                 /\ args[i].label = d /\ Of(d, args) = <<args[i]>> /\ args[i] \in S
                 /\ \A j \in DOMAIN args : args[j].label = d => j = i
<1>1. CASE Lacks(args, d)
    BY <1>1, OfNone DEF Lacks
<1>2. CASE ~Lacks(args, d)
    <2>1. PICK i \in DOMAIN args : args[i].label = d
        BY <1>2 DEF Lacks
    <2>2. \A j \in DOMAIN args : args[j].label = args[i].label => j = i
        BY DEF OnePerLabel
    <2>3. Of(args[i].label, args) = <<args[i]>>
        BY <2>2, OfUnique
    <2>4. args[i] \in S
        BY LenProperties, ElementOfSeq
    <2> QED
        BY <2>1, <2>2, <2>3, <2>4
<1> QED
    BY <1>1, <1>2

LEMMA OnePerLabelFew ==
    ASSUME NEW S, NEW args \in Seq(S), OnePerLabel(args)
    PROVE  Few(args) /\ \A d : Len(Of(d, args)) <= 1
<1>1. ASSUME NEW d PROVE Len(Of(d, args)) <= 1 /\ Len(Of(d, args)) \in Nat
    <2>1. CASE Of(d, args) = <<>>
        <3>1. Len(<<>>) = 0
            OBVIOUS
        <3> QED
            BY <2>1, <3>1
    <2>2. ASSUME NEW x, Of(d, args) = <<x>> PROVE Len(Of(d, args)) <= 1 /\ Len(Of(d, args)) \in Nat
        <3>1. Len(<<x>>) = 1
            OBVIOUS
        <3> QED
            BY <2>2, <3>1
    <2> QED
        BY <2>1, <2>2, OfOnePerLabel
<1> QED
    BY <1>1 DEF Few

Narrowed(w, new, args) ==
    \A v \in Variables : \A d \in v :
        /\ ~Refused(w[v], Of(d, args))
        /\ new[v][d] = IF Of(d, args) = <<>> THEN w[v][d] ELSE Cut(w[v], d, Of(d, args))

LEMMA IselNarrows ==
    ASSUME NEW w, Shown(w), NEW args \in Seq(Descriptors), OnePerLabel(args), IselOk(w, args)
    PROVE  Narrowed(w, Isel(w, args), args)
<1> SUFFICES ASSUME NEW v \in Variables, NEW d \in v
             PROVE  /\ ~Refused(w[v], Of(d, args))
                    /\ Isel(w, args)[v][d] = IF Of(d, args) = <<>> THEN w[v][d]
                                             ELSE Cut(w[v], d, Of(d, args))
    BY DEF Narrowed
<1>1. ~Refused(w[v], Of(d, args))
    BY RefusedOf DEF IselOk
<1>2. DOMAIN w[v] = v
    BY DEF Shown, Fits
<1>3. \A e : ~(Len(Of(e, args)) > 1)
    <2>1. \A e : Len(Of(e, args)) <= 1
        BY OnePerLabelFew
    <2>2. \A e : Len(Of(e, args)) \in Nat
        BY OfType, LenProperties
    <2> QED
        BY <2>1, <2>2
<1>4. Repeated(w[v], args) = {}
    BY <1>3 DEF Repeated
<1>5. Isel(w, args)[v] = Slice(w[v], args)
    BY DEF Isel
<1>6. Slice(w[v], args) =
        [x \in DOMAIN w[v] |-> IF Of(x, args) = <<>> THEN w[v][x] ELSE Cut(w[v], x, Of(x, args))]
    BY <1>4, SliceUnrepeated
<1> QED
    BY <1>1, <1>2, <1>5, <1>6

LEMMA IselVectorNarrows ==
    ASSUME NEW w, Shown(w), NEW args \in Seq(Descriptors), Few(args), IselVector(w, args).ok
    PROVE  Narrowed(w, IselVector(w, args).view, args)
<1> DEFINE r == IselVector(w, args)
<1>1. SlicedByLabel(w, args, r)
    BY IselVectorFew
<1>2. r.ok
    OBVIOUS
<1> HIDE DEF r
<1>3. \A v \in Variables : \A d \in v : d \in Labels
    BY VariableDims
<1>4. Narrowed(w, r.view, args)
    BY <1>1, <1>2, <1>3 DEF SlicedByLabel, Narrowed
<1> QED
    BY <1>4 DEF r

\* The indices an axis keeps when it is cut to a range, and what they read.
LEMMA ReadsCut ==
    ASSUME NEW n, NEW domain, NEW d \in DOMAIN domain, domain[d] \in Axes(n),
           NEW r \in Descriptors, r.label = d, ~Refused(domain, <<r>>)
    PROVE  Reads(Cut(domain, d, <<r>>)) =
             [i \in {i \in DOMAIN Reads(domain[d]) : i \in r.start..(r.stop - 1)} |-> Reads(domain[d])[i]]
<1> DEFINE axis == domain[d]
           t == SliceInRange(r, domain)
           h == HalfOpenInterval(axis, t)
           kept == {i \in DOMAIN Reads(axis) : i \in r.start..(r.stop - 1)}
<1>1. ~(t.start > t.stop)
    BY DEF Refused
<1>2. Clamps(t, r, axis)
    BY SliceInRangeBounds
<1>3. Cut(domain, d, <<r>>) = h
    BY CutOne
<1>4. axis \in Axes(n) /\ r.start \in Int /\ r.stop \in Int
    BY DEF Descriptors
<1> HIDE DEF t, h, axis
<1>5. /\ t.start \in Int /\ t.stop \in Int /\ axis.origin <= t.start /\ t.stop <= Upper(axis)
      /\ t.start = (IF r.start < axis.origin THEN axis.origin ELSE r.start)
      /\ t.stop = (IF r.stop > Upper(axis) THEN Upper(axis) ELSE r.stop)
      /\ axis.origin \in Nat /\ Upper(axis) \in Nat /\ t.start <= t.stop
    BY <1>1, <1>2 DEF Clamps
<1>6. /\ h.origin = t.start /\ Len(h.cells) = t.stop - t.start
      /\ \A k \in 1..(t.stop - t.start) : h.cells[k] = axis.cells[t.start - axis.origin + k]
    BY <1>4, <1>5, IntervalCells DEF h
<1>7. Upper(h) = t.stop
    BY <1>5, <1>6 DEF Upper
<1>8. DOMAIN Reads(axis) = axis.origin..(Upper(axis) - 1)
      /\ \A i \in axis.origin..(Upper(axis) - 1) : Reads(axis)[i] = axis.cells[i - axis.origin + 1]
    BY DEF Reads
<1>9. Reads(h) = [i \in t.start..(t.stop - 1) |-> h.cells[i - t.start + 1]]
    BY <1>6, <1>7 DEF Reads
<1>10. kept = t.start..(t.stop - 1)
    BY <1>4, <1>5, <1>8
<1>11. ASSUME NEW i \in t.start..(t.stop - 1) PROVE h.cells[i - t.start + 1] = Reads(axis)[i]
    <2>1. i - t.start + 1 \in 1..(t.stop - t.start) /\ i \in axis.origin..(Upper(axis) - 1)
        BY <1>5
    <2>2. t.start - axis.origin + (i - t.start + 1) = i - axis.origin + 1
        BY <1>5
    <2>3. h.cells[i - t.start + 1] = axis.cells[t.start - axis.origin + (i - t.start + 1)]
        BY <1>6, <2>1
    <2> QED
        BY <1>8, <2>1, <2>2, <2>3
<1>12. Reads(h) = [i \in t.start..(t.stop - 1) |-> Reads(axis)[i]]
    BY <1>9, <1>11
<1>13. Reads(h) = [i \in kept |-> Reads(axis)[i]]
    BY <1>10, <1>12
<1> QED
    BY <1>3, <1>13 DEF axis, h

RangesOf(args, d) ==
    {args[i].start..(args[i].stop - 1) : i \in {i \in DOMAIN args : args[i].label = d}}

LEMMA NarrowedReads ==
    ASSUME NEW w, Shown(w), NEW new, NEW args \in Seq(Descriptors), OnePerLabel(args),
           Narrowed(w, new, args), NEW v \in Variables, NEW d \in v
    PROVE  LET before == Reads(w[v][d])
               kept   == {i \in DOMAIN before : \A r \in RangesOf(args, d) : i \in r}
           IN  Reads(new[v][d]) = [i \in kept |-> before[i]]
<1> DEFINE before == Reads(w[v][d])
           kept == {i \in DOMAIN before : \A r \in RangesOf(args, d) : i \in r}
<1>1. /\ ~Refused(w[v], Of(d, args))
      /\ new[v][d] = IF Of(d, args) = <<>> THEN w[v][d] ELSE Cut(w[v], d, Of(d, args))
    BY DEF Narrowed
<1>2. DOMAIN w[v] = v /\ w[v][d] \in Axes(Size[d])
    BY DEF Shown, Fits
<1>3. before = [i \in DOMAIN before |-> before[i]]
    BY DEF Reads
<1>4. CASE Of(d, args) = <<>> /\ \A i \in DOMAIN args : args[i].label # d
    <2>1. RangesOf(args, d) = {}
        BY <1>4 DEF RangesOf
    <2>2. kept = DOMAIN before
        BY <2>1
    <2> HIDE DEF before, kept
    <2>3. Reads(new[v][d]) = before
        BY <1>1, <1>4 DEF before
    <2> QED
        BY <1>3, <2>2, <2>3 DEF before, kept
<1>5. ASSUME NEW i \in DOMAIN args, args[i].label = d, Of(d, args) = <<args[i]>>,
             args[i] \in Descriptors, \A j \in DOMAIN args : args[j].label = d => j = i
      PROVE  Reads(new[v][d]) = [x \in kept |-> before[x]]
    <2> DEFINE r == args[i]
               domain == w[v]
    <2>1. RangesOf(args, d) = {r.start..(r.stop - 1)}
        BY <1>5 DEF RangesOf
    <2>2. kept = {x \in DOMAIN before : x \in r.start..(r.stop - 1)}
        BY <2>1
    <2>3. new[v][d] = Cut(domain, d, <<r>>)
        BY <1>1, <1>5
    <2>4. /\ d \in DOMAIN domain /\ domain[d] \in Axes(Size[d]) /\ ~Refused(domain, <<r>>)
          /\ r \in Descriptors /\ r.label = d /\ before = Reads(domain[d])
        BY <1>1, <1>2, <1>5
    <2> HIDE DEF r, domain, before, kept
    <2>5. Reads(Cut(domain, d, <<r>>)) =
            [x \in {x \in DOMAIN Reads(domain[d]) : x \in r.start..(r.stop - 1)} |-> Reads(domain[d])[x]]
        BY <2>4, ReadsCut
    <2> QED
        BY <2>2, <2>3, <2>4, <2>5
<1>6. Reads(new[v][d]) = [x \in kept |-> before[x]]
    BY <1>4, <1>5, OfOnePerLabel
<1> QED
    BY <1>6

-----------------------------------------------------------------------------
(* Selection by label: the descriptors of all dimensions *)

Grouped(E, D) ==
    /\ D \in Seq(Descriptors)
    /\ \A d \in Dims : Of(d, D) = E[d]
    /\ \A d \in Labels \ Dims : Of(d, D) = <<>>

LEMMA EntriesGrouped ==
    ASSUME NEW E, E = [d \in Dims |-> E[d]],
           \A d \in Dims : E[d] \in Seq(Descriptors) /\ Only(E[d], d)
    PROVE  Grouped(E, FlattenSeq(E))
<1> DEFINE X == {x \in Descriptors : x.label \in Dims}
           D == FlattenSeq(E)
<1>1. ASSUME NEW d \in Dims PROVE E[d] \in Seq(X)
    <2>1. E[d] \in Seq(Descriptors) /\ Only(E[d], d)
        OBVIOUS
    <2>2. Len(E[d]) \in Nat /\ DOMAIN E[d] = 1..Len(E[d]) /\ \A i \in 1..Len(E[d]) : E[d][i] \in Descriptors
        BY <2>1, LenProperties, ElementOfSeq
    <2>3. \A i \in 1..Len(E[d]) : E[d][i] \in X
        BY <2>1, <2>2 DEF Only
    <2> HIDE DEF X
    <2>4. E[d] = [i \in 1..Len(E[d]) |-> E[d][i]]
        BY <2>1
    <2>5. E[d] \in [1..Len(E[d]) -> X]
        BY <2>3, <2>4
    <2> QED
        BY <2>2, <2>5, SeqDef
<1> HIDE DEF X
<1>2. E \in [1..NumDims -> Seq(X)] /\ NumDims \in Nat
    BY <1>1 DEF Dims
<1>3. E \in Seq(Seq(X)) /\ Len(E) = NumDims
    BY <1>2, SeqDef
<1>4. D \in Seq(X)
    BY <1>3, FlattenType
<1>5. \A n \in 1..Len(E) : \A i \in DOMAIN E[n] : E[n][i].label = n
    BY <1>3 DEF Only, Dims
<1>6. \A d \in Dims : Of(d, D) = E[d]
    BY <1>3, <1>5, OfGroup DEF Dims
<1> HIDE DEF D
<1>7. X \subseteq Descriptors
    BY DEF X
<1>8. D \in Seq(Descriptors)
    BY <1>4, <1>7, SeqMonotonic
<1>9. \A i \in DOMAIN D : D[i] \in X
    BY <1>4, LenProperties, ElementOfSeq
<1>10. \A d \in Labels \ Dims : Lacks(D, d)
    BY <1>9 DEF X, Lacks
<1>11. \A d \in Labels \ Dims : Of(d, D) = <<>>
    BY <1>8, <1>10, OfNone
<1> QED
    BY <1>6, <1>8, <1>11 DEF Grouped, D

\* There is something to slice by if some dimension has an entry.
LEMMA GroupedSome ==
    ASSUME NEW E, NEW D, Grouped(E, D), NEW d \in Dims, E[d] # <<>>
    PROVE  D # <<>>
<1>1. Of(d, D) # <<>> /\ D \in Seq(Descriptors)
    BY DEF Grouped
<1>2. D = <<>> => Lacks(D, d)
    BY DEF Lacks
<1> QED
    BY <1>1, <1>2, OfNone

LEMMA GroupedFew ==
    ASSUME NEW E, NEW D, Grouped(E, D), \A d \in Dims : Len(E[d]) <= MaxSlices
    PROVE  Few(D)
<1>1. \A d \in Labels \ Dims : Len(Of(d, D)) <= MaxSlices
    <2>1. Len(<<>>) = 0 /\ 0 <= MaxSlices
        OBVIOUS
    <2> QED
        BY <2>1 DEF Grouped
<1>2. \A d \in Dims : Len(Of(d, D)) <= MaxSlices
    BY DEF Grouped
<1> QED
    BY <1>1, <1>2 DEF Few

\* The entry of each dimension is made of the only argument that names it.
MadeOf(E, args, s) ==
    /\ E = [d \in Dims |-> E[d]]
    /\ \A d \in Dims :
        \/ E[d] = <<>> /\ \A i \in DOMAIN args : args[i].label # d
        \/ \E i \in DOMAIN args :
              /\ args[i].label = d /\ E[d] = s[i]
              /\ \A j \in DOMAIN args : args[j].label = d => j = i

LEMMA OnlyArgument ==
    ASSUME NEW S, NEW args \in Seq(S), ValidLabels(args), NEW d
    PROVE  \/ Of(d, args) = <<>> /\ \A i \in DOMAIN args : args[i].label # d
           \/ \E i \in DOMAIN args :
                 /\ args[i].label = d /\ Of(d, args) = <<args[i]>> /\ Of(d, args)[1] = args[i]
                 /\ Of(d, args) # <<>>
                 /\ \A j \in DOMAIN args : args[j].label = d => j = i
<1>1. OnePerLabel(args)
    BY DEF ValidLabels, OnePerLabel
<1>2. \A x : <<x>>[1] = x /\ <<x>> # <<>>
    OBVIOUS
<1>3. \/ Of(d, args) = <<>> /\ \A i \in DOMAIN args : args[i].label # d
      \/ \E i \in DOMAIN args :
            /\ args[i].label = d /\ Of(d, args) = <<args[i]>> /\ args[i] \in S
            /\ \A j \in DOMAIN args : args[j].label = d => j = i
    BY <1>1, OfOnePerLabel
<1> QED
    BY <1>2, <1>3

LEMMA MadeOfGrouped ==
    ASSUME NEW E, NEW args, NEW s, MadeOf(E, args, s),
           \A i \in DOMAIN args : s[i] \in Seq(Descriptors) /\ Only(s[i], args[i].label)
    PROVE  Grouped(E, FlattenSeq(E))
<1>1. E = [d \in Dims |-> E[d]]
    BY DEF MadeOf
<1>2. <<>> \in Seq(Descriptors) /\ \A d : Only(<<>>, d)
    BY EmptySeq DEF Only
<1>3. ASSUME NEW d \in Dims PROVE E[d] \in Seq(Descriptors) /\ Only(E[d], d)
    <2>1. CASE E[d] = <<>>
        BY <1>2, <2>1
    <2>2. ASSUME NEW i \in DOMAIN args, args[i].label = d, E[d] = s[i]
          PROVE  E[d] \in Seq(Descriptors) /\ Only(E[d], d)
        BY <2>2
    <2> QED
        BY <2>1, <2>2 DEF MadeOf
<1> QED
    BY <1>1, <1>3, EntriesGrouped

ValueEntries(w, args) ==
    [d \in Dims |-> IF Of(d, args) = <<>> THEN <<>> ELSE ValueSlices(w, Of(d, args)[1])]

ListEntries(w, args) ==
    [d \in Dims |-> IF Of(d, args) = <<>> THEN <<>> ELSE ListSlices(w, Of(d, args)[1])]

RangeEntries(w, args) ==
    [d \in Dims |-> IF Of(d, args) = <<>> THEN <<>> ELSE RangeSlices(w, Of(d, args)[1])]

LEMMA LabelledValue ==
    ASSUME NEW args
    PROVE  Labelled(args, LAMBDA w, a : TRUE, ValueSlices) =
             IF ValidLabels(args) THEN IselVector(view, FlattenSeq(ValueEntries(view, args))) ELSE Error
BY DEF Labelled, ByLabel, ValueEntries

LEMMA LabelledList ==
    ASSUME NEW args
    PROVE  Labelled(args, ListOk, ListSlices) =
             IF ValidLabels(args) /\ \A i \in DOMAIN args : ListOk(view, args[i])
             THEN IselVector(view, FlattenSeq(ListEntries(view, args))) ELSE Error
BY DEF Labelled, ByLabel, ListEntries

LEMMA LabelledRange ==
    ASSUME NEW args
    PROVE  Labelled(args, RangeOk, RangeSlices) =
             IF ValidLabels(args) /\ \A i \in DOMAIN args : RangeOk(view, args[i])
             THEN IselVector(view, FlattenSeq(RangeEntries(view, args))) ELSE Error
BY DEF Labelled, ByLabel, RangeEntries

LEMMA ValueMade ==
    ASSUME NEW S, NEW args \in Seq(S), ValidLabels(args), NEW w
    PROVE  MadeOf(ValueEntries(w, args), args, [i \in DOMAIN args |-> ValueSlices(w, args[i])])
<1> DEFINE E == ValueEntries(w, args)
           s == [i \in DOMAIN args |-> ValueSlices(w, args[i])]
<1>1. E = [d \in Dims |-> E[d]]
    BY DEF ValueEntries
<1>2. \A d \in Dims : E[d] = IF Of(d, args) = <<>> THEN <<>> ELSE ValueSlices(w, Of(d, args)[1])
    BY DEF ValueEntries
<1>3. \A i \in DOMAIN args : s[i] = ValueSlices(w, args[i])
    OBVIOUS
<1> HIDE DEF E, s
<1>4. ASSUME NEW d \in Dims
      PROVE  \/ E[d] = <<>> /\ \A i \in DOMAIN args : args[i].label # d
             \/ \E i \in DOMAIN args :
                   /\ args[i].label = d /\ E[d] = s[i]
                   /\ \A j \in DOMAIN args : args[j].label = d => j = i
    BY <1>2, <1>3, OnlyArgument
<1>5. MadeOf(E, args, s)
    BY <1>1, <1>4 DEF MadeOf
<1> QED
    BY <1>5 DEF E, s

LEMMA ListMade ==
    ASSUME NEW S, NEW args \in Seq(S), ValidLabels(args), NEW w
    PROVE  MadeOf(ListEntries(w, args), args, [i \in DOMAIN args |-> ListSlices(w, args[i])])
<1> DEFINE E == ListEntries(w, args)
           s == [i \in DOMAIN args |-> ListSlices(w, args[i])]
<1>1. E = [d \in Dims |-> E[d]]
    BY DEF ListEntries
<1>2. \A d \in Dims : E[d] = IF Of(d, args) = <<>> THEN <<>> ELSE ListSlices(w, Of(d, args)[1])
    BY DEF ListEntries
<1>3. \A i \in DOMAIN args : s[i] = ListSlices(w, args[i])
    OBVIOUS
<1> HIDE DEF E, s
<1>4. ASSUME NEW d \in Dims
      PROVE  \/ E[d] = <<>> /\ \A i \in DOMAIN args : args[i].label # d
             \/ \E i \in DOMAIN args :
                   /\ args[i].label = d /\ E[d] = s[i]
                   /\ \A j \in DOMAIN args : args[j].label = d => j = i
    BY <1>2, <1>3, OnlyArgument
<1>5. MadeOf(E, args, s)
    BY <1>1, <1>4 DEF MadeOf
<1> QED
    BY <1>5 DEF E, s

LEMMA RangeMade ==
    ASSUME NEW S, NEW args \in Seq(S), ValidLabels(args), NEW w
    PROVE  MadeOf(RangeEntries(w, args), args, [i \in DOMAIN args |-> RangeSlices(w, args[i])])
<1> DEFINE E == RangeEntries(w, args)
           s == [i \in DOMAIN args |-> RangeSlices(w, args[i])]
<1>1. E = [d \in Dims |-> E[d]]
    BY DEF RangeEntries
<1>2. \A d \in Dims : E[d] = IF Of(d, args) = <<>> THEN <<>> ELSE RangeSlices(w, Of(d, args)[1])
    BY DEF RangeEntries
<1>3. \A i \in DOMAIN args : s[i] = RangeSlices(w, args[i])
    OBVIOUS
<1> HIDE DEF E, s
<1>4. ASSUME NEW d \in Dims
      PROVE  \/ E[d] = <<>> /\ \A i \in DOMAIN args : args[i].label # d
             \/ \E i \in DOMAIN args :
                   /\ args[i].label = d /\ E[d] = s[i]
                   /\ \A j \in DOMAIN args : args[j].label = d => j = i
    BY <1>2, <1>3, OnlyArgument
<1>5. MadeOf(E, args, s)
    BY <1>1, <1>4 DEF MadeOf
<1> QED
    BY <1>5 DEF E, s

-----------------------------------------------------------------------------
(* What each kind of argument is turned into *)

LEMMA OccurrencesSorted ==
    ASSUME NEW w, Shown(w), coord \in Coordinates, NEW d \in Dims, NEW x,
           NEW hits, hits = Sorted(Occurrences(ReadCoordinate(w, d), x))
    PROVE  /\ hits \in Seq(1..Len(Axis(w, d).cells))
           /\ Len(hits) = Cardinality(Occurrences(ReadCoordinate(w, d), x))
           /\ DOMAIN hits = 1..Len(hits)
<1> DEFINE L == Len(Axis(w, d).cells)
           S == Occurrences(ReadCoordinate(w, d), x)
           n == Cardinality(S)
<1>1. L \in Nat /\ DOMAIN ReadCoordinate(w, d) = 1..L
    BY CoordinateRead
<1>2. S \in SUBSET (1..L)
    BY <1>1 DEF Occurrences
<1> HIDE DEF L, S
<1>3. IsFiniteSet(1..L) /\ 1..L \subseteq Int
    BY <1>1, FS_Interval
<1>4. IsFiniteSet(S) /\ S \in SUBSET Int
    BY <1>2, <1>3, FS_Subset
<1>5. n \in Nat /\ Sorted(S) \in [1..n -> S]
    BY <1>4, SortedRanks
<1> HIDE DEF n
<1>6. hits \in [1..n -> 1..L]
    BY <1>2, <1>5 DEF S
<1>7. hits \in Seq(1..L) /\ Len(hits) = n /\ DOMAIN hits = 1..n
    <2> DEFINE X == 1..L
    <2>1. hits \in [1..n -> X]
        BY <1>6
    <2> HIDE DEF X
    <2>2. hits \in Seq(X) /\ Len(hits) = n /\ DOMAIN hits = 1..n
        BY <1>5, <2>1, SeqDef
    <2> QED
        BY <2>2 DEF X
<1> QED
    BY <1>7 DEF n, S, L

LEMMA ValueSlicesType ==
    ASSUME NEW w, Shown(w), coord \in Coordinates, NEW a, a.label \in Dims
    PROVE  ValueSlices(w, a) \in Seq(Descriptors) /\ Only(ValueSlices(w, a), a.label)
<1> DEFINE d == a.label
           hits == Sorted(Occurrences(ReadCoordinate(w, d), a.value))
<1>1. d \in Dims
    OBVIOUS
<1>2. ValueSlices(w, a) = Points(w, d, hits)
    BY DEF ValueSlices
<1> HIDE DEF d
<1>3. hits \in Seq(1..Len(Axis(w, d).cells))
    BY <1>1, OccurrencesSorted
<1> HIDE DEF hits
<1> QED
    BY <1>1, <1>2, <1>3, PointsType DEF d

\* The list's descriptors are those of the samples that hold its values.
LEMMA ListIsPoints ==
    ASSUME NEW w, Shown(w), coord \in Coordinates, NEW a, a.label \in Dims,
           NEW V, a.values \in Seq(V), ListOk(w, a)
    PROVE  \E hits \in Seq(1..Len(Axis(w, a.label).cells)) :
              /\ Len(hits) = Len(a.values)
              /\ \A k \in 1..Len(hits) : ReadCoordinate(w, a.label)[hits[k]] = a.values[k]
              /\ ListSlices(w, a) = Points(w, a.label, hits)
<1> DEFINE d == a.label
           c == ReadCoordinate(w, d)
           L == Len(Axis(w, d).cells)
           N == Len(a.values)
           hits == [k \in 1..N |-> CHOOSE i : Occurrences(c, a.values[k]) = {i}]
<1>1. d \in Dims
    OBVIOUS
<1>2. L \in Nat /\ DOMAIN c = 1..L
    BY <1>1, CoordinateRead
<1>3. N \in Nat /\ DOMAIN a.values = 1..N
    BY LenProperties
<1>4. \A k \in 1..N : Cardinality(Occurrences(c, a.values[k])) = 1
    BY <1>3 DEF ListOk
<1>5. ListSlices(w, a) =
        FlattenSeq([k \in 1..N |-> Points(w, d, Sorted(Occurrences(c, a.values[k])))])
    BY <1>3 DEF ListSlices
<1> HIDE DEF c, L, N, d
<1>6. ASSUME NEW k \in 1..N
      PROVE  /\ Occurrences(c, a.values[k]) = {hits[k]} /\ hits[k] \in 1..L
             /\ c[hits[k]] = a.values[k] /\ Sorted(Occurrences(c, a.values[k])) = <<hits[k]>>
    <2> DEFINE S == Occurrences(c, a.values[k])
    <2>1. S \in SUBSET (1..L) /\ \A i \in S : c[i] = a.values[k]
        BY <1>2 DEF Occurrences
    <2>2. Cardinality(S) = 1
        BY <1>4
    <2> HIDE DEF S
    <2>3. IsFiniteSet(1..L)
        BY <1>2, FS_Interval
    <2>4. IsFiniteSet(S)
        BY <2>1, <2>3, FS_Subset
    <2>5. \E i : S = {i}
        BY <2>2, <2>4, FS_Singleton
    <2>6. S = {CHOOSE i : S = {i}}
        BY <2>5
    <2>7. hits[k] = CHOOSE i : S = {i}
        BY DEF S
    <2> HIDE DEF hits
    <2>8. S = {hits[k]} /\ hits[k] \in S
        BY <2>6, <2>7
    <2>9. hits[k] \in 1..L /\ hits[k] \in Int
        BY <1>2, <2>1, <2>8
    <2>10. Sorted(S) = <<hits[k]>>
        BY <2>8, <2>9, SortedOne
    <2> QED
        BY <2>1, <2>8, <2>9, <2>10 DEF S
<1>7. hits \in [1..N -> 1..L]
    <2> DEFINE h(k) == CHOOSE i : Occurrences(c, a.values[k]) = {i}
    <2>1. \A k \in 1..N : hits[k] = h(k)
        OBVIOUS
    <2>2. \A k \in 1..N : h(k) \in 1..L
        BY <1>6, <2>1
    <2>3. hits = [k \in 1..N |-> h(k)]
        OBVIOUS
    <2> HIDE DEF h, hits
    <2> QED
        BY <2>2, <2>3
<1> HIDE DEF hits
<1>9. hits \in Seq(1..L) /\ Len(hits) = N /\ DOMAIN hits = 1..N
    <2> DEFINE X == 1..L
    <2>1. hits \in [1..N -> X]
        BY <1>7
    <2> HIDE DEF X
    <2>2. hits \in Seq(X) /\ Len(hits) = N /\ DOMAIN hits = 1..N
        BY <1>3, <2>1, SeqDef
    <2> QED
        BY <2>2 DEF X
<1> DEFINE P == Points(w, d, hits)
           seqs == [k \in 1..N |-> Points(w, d, Sorted(Occurrences(c, a.values[k])))]
<1>10. P \in Seq(Descriptors) /\ DOMAIN P = 1..N
    <2>1. P \in Seq(Descriptors) /\ Len(P) = N
        BY <1>1, <1>9, PointsType DEF L
    <2> QED
        BY <2>1, LenProperties
<1>11. ASSUME NEW k \in 1..N
       PROVE  Points(w, d, Sorted(Occurrences(c, a.values[k]))) = <<P[k]>>
    <2>1. Points(w, d, <<hits[k]>>) = <<P[k]>>
        <3> DEFINE x == hits[k]
        <3>1. P[k] = Descriptor(d, IndexOfSample(w, d, x), IndexOfSample(w, d, x) + 1)
            BY <1>9 DEF Points
        <3> HIDE DEF x, P
        <3>2. Points(w, d, <<x>>) = <<Descriptor(d, IndexOfSample(w, d, x), IndexOfSample(w, d, x) + 1)>>
            BY DEF Points
        <3> QED
            BY <3>1, <3>2 DEF x
    <2> QED
        BY <1>6, <2>1
<1>12. seqs = [k \in DOMAIN P |-> <<P[k]>>]
    BY <1>10, <1>11
<1> HIDE DEF P, seqs
<1>13. FlattenSeq(seqs) = P
    BY <1>10, <1>12, FlattenSingletons
<1>14. ListSlices(w, a) = P
    BY <1>5, <1>13 DEF seqs
<1>15. /\ hits \in Seq(1..L) /\ Len(hits) = N /\ \A k \in 1..Len(hits) : c[hits[k]] = a.values[k]
       /\ ListSlices(w, a) = Points(w, d, hits)
    BY <1>6, <1>9, <1>14 DEF P
<1> QED
    BY <1>15 DEF L, N, c, d

LEMMA RangeIs ==
    ASSUME NEW w, Shown(w), coord \in Coordinates, NEW a, a.label \in Dims, RangeOk(w, a)
    PROVE  \E e \in Ends(ReadCoordinate(w, a.label), a) :
              /\ e[1] \in 1..Len(Axis(w, a.label).cells) /\ e[2] \in 1..Len(Axis(w, a.label).cells)
              /\ e[1] <= e[2]
              /\ RangeSlices(w, a) = <<Descriptor(a.label, Axis(w, a.label).origin + e[1] - 1,
                                                          Axis(w, a.label).origin + e[2])>>
              /\ Descriptor(a.label, Axis(w, a.label).origin + e[1] - 1,
                                     Axis(w, a.label).origin + e[2]) \in Descriptors
<1> DEFINE d == a.label
           c == ReadCoordinate(w, d)
           L == Len(Axis(w, d).cells)
           o == Axis(w, d).origin
           e == CHOOSE e \in Ends(c, a) : TRUE
<1>1. d \in Dims
    OBVIOUS
<1>2. L \in Nat /\ DOMAIN c = 1..L /\ o \in Nat
    BY <1>1, CoordinateRead
<1>3. Ends(c, a) # {}
    BY DEF RangeOk
<1>4. RangeSlices(w, a) =
        <<Descriptor(d, IndexOfSample(w, d, e[1]), IndexOfSample(w, d, e[2]) + 1)>>
    BY DEF RangeSlices
<1>5. e \in Ends(c, a)
    BY <1>3
<1> HIDE DEF e, c, L, o
<1>6. ASSUME NEW x \in Ends(c, a) PROVE x[1] \in 1..L /\ x[2] \in 1..L /\ x[1] <= x[2]
    <2>1. x \in ExactEnds(c, a) \/ x \in MonotonicEnds(c, a)
        BY DEF Ends
    <2>2. x[1] <= x[2]
        BY DEF Ends
    <2>3. CASE x \in ExactEnds(c, a)
        <3>1. x \in Occurrences(c, a.start) \X Occurrences(c, a.stop)
            BY <2>3 DEF ExactEnds
        <3> QED
            BY <1>2, <2>2, <3>1 DEF Occurrences
    <2>4. CASE x \in MonotonicEnds(c, a)
        <3> DEFINE first == NearestStart(c, OrderOf(c), a.start)
                   last == NearestStop(c, OrderOf(c), a.stop)
        <3>1. x = <<first, last>> /\ first \in DOMAIN c /\ last \in DOMAIN c
            BY <2>4 DEF MonotonicEnds
        <3> QED
            BY <1>2, <2>2, <3>1
    <2> QED
        BY <2>1, <2>3, <2>4
<1>7. e[1] \in 1..L /\ e[2] \in 1..L /\ e[1] <= e[2]
    BY <1>5, <1>6
<1>8. IndexOfSample(w, d, e[1]) = o + e[1] - 1 /\ IndexOfSample(w, d, e[2]) + 1 = o + e[2]
    BY <1>2, <1>7 DEF IndexOfSample, o
<1>9. Descriptor(d, o + e[1] - 1, o + e[2]) \in Descriptors
    <2>1. o + e[1] - 1 \in Int /\ o + e[2] \in Int /\ d \in Labels
        BY <1>1, <1>2, <1>7 DEF Dims, Labels
    <2> QED
        BY <2>1 DEF Descriptor, Descriptors
<1>10. RangeSlices(w, a) = <<Descriptor(d, o + e[1] - 1, o + e[2])>>
    BY <1>4, <1>8
<1>11. /\ e \in Ends(c, a) /\ e[1] \in 1..L /\ e[2] \in 1..L /\ e[1] <= e[2]
       /\ RangeSlices(w, a) = <<Descriptor(d, o + e[1] - 1, o + e[2])>>
       /\ Descriptor(d, o + e[1] - 1, o + e[2]) \in Descriptors
    BY <1>5, <1>7, <1>9, <1>10
<1> QED
    BY <1>11 DEF d, c, L, o

-----------------------------------------------------------------------------
(* What a selection by label returns *)

ValueArgs == [label : Labels, value : Values]
ListArgs  == [label : Labels, values : Seq(Values) \ {<<>>}]
RangeArgs == [label : Labels, start : Values, stop : Values]

Selects(r, E) ==
    /\ Result(r)
    /\ r.ok => /\ Grouped(E, FlattenSeq(E)) /\ r = IselVector(view, FlattenSeq(E))
               /\ Agree(view) => Agree(r.view)

LEMMA EntriesSelect ==
    ASSUME IInv, NEW E, Grouped(E, FlattenSeq(E))
    PROVE  Selects(IselVector(view, FlattenSeq(E)), E)
<1> DEFINE D == FlattenSeq(E)
           r == IselVector(view, D)
<1>1. D \in Seq(Descriptors) /\ Shown(view)
    BY DEF Grouped, IInv
<1> HIDE DEF D
<1>2. Outcome(r) /\ (Agree(view) => Agree(r.view))
    BY <1>1, IselVectorType
<1> HIDE DEF r
<1>3. Result(r)
    BY <1>2 DEF Outcome, Result
<1> QED
    BY <1>2, <1>3 DEF Selects, r, D

LEMMA ErrorSelects == ASSUME IInv, NEW E PROVE Selects(Error, E) /\ Error.ok = FALSE
BY DEF Selects, Error, Result

LEMMA ValueResult ==
    ASSUME IInv, NEW args \in Seq(ValueArgs)
    PROVE  /\ Selects(Labelled(args, LAMBDA w, a : TRUE, ValueSlices), ValueEntries(view, args))
           /\ Labelled(args, LAMBDA w, a : TRUE, ValueSlices).ok => ValidLabels(args)
<1> DEFINE E == ValueEntries(view, args)
           r == Labelled(args, LAMBDA w, a : TRUE, ValueSlices)
<1>1. r = IF ValidLabels(args) THEN IselVector(view, FlattenSeq(E)) ELSE Error
    BY LabelledValue
<1>2. CASE ~ValidLabels(args)
    BY <1>1, <1>2, ErrorSelects
<1>3. CASE ValidLabels(args)
    <2> DEFINE s == [i \in DOMAIN args |-> ValueSlices(view, args[i])]
    <2>1. MadeOf(E, args, s)
        BY <1>3, ValueMade
    <2>2. \A i \in DOMAIN args : s[i] \in Seq(Descriptors) /\ Only(s[i], args[i].label)
        BY <1>3, ValueSlicesType DEF ValidLabels, IInv
    <2> HIDE DEF s, E
    <2>3. Grouped(E, FlattenSeq(E))
        BY <2>1, <2>2, MadeOfGrouped
    <2> QED
        BY <1>1, <1>3, <2>3, EntriesSelect DEF E
<1> QED
    BY <1>2, <1>3

LEMMA ListSlicesType ==
    ASSUME NEW w, Shown(w), coord \in Coordinates, NEW a \in ListArgs, a.label \in Dims, ListOk(w, a)
    PROVE  ListSlices(w, a) \in Seq(Descriptors) /\ Only(ListSlices(w, a), a.label)
<1>1. a.values \in Seq(Values)
    BY DEF ListArgs
<1>2. PICK hits \in Seq(1..Len(Axis(w, a.label).cells)) : ListSlices(w, a) = Points(w, a.label, hits)
    BY <1>1, ListIsPoints
<1> QED
    BY <1>2, PointsType

LEMMA ListResult ==
    ASSUME IInv, NEW args \in Seq(ListArgs)
    PROVE  /\ Selects(Labelled(args, ListOk, ListSlices), ListEntries(view, args))
           /\ Labelled(args, ListOk, ListSlices).ok =>
                 ValidLabels(args) /\ \A i \in DOMAIN args : ListOk(view, args[i])
<1> DEFINE E == ListEntries(view, args)
           r == Labelled(args, ListOk, ListSlices)
           Good == ValidLabels(args) /\ \A i \in DOMAIN args : ListOk(view, args[i])
<1>1. r = IF Good THEN IselVector(view, FlattenSeq(E)) ELSE Error
    BY LabelledList
<1>2. CASE ~Good
    BY <1>1, <1>2, ErrorSelects
<1>3. CASE Good
    <2> DEFINE s == [i \in DOMAIN args |-> ListSlices(view, args[i])]
    <2>1. MadeOf(E, args, s)
        BY <1>3, ListMade
    <2>2. \A i \in DOMAIN args : args[i] \in ListArgs
        BY LenProperties, ElementOfSeq
    <2>3. \A i \in DOMAIN args : s[i] \in Seq(Descriptors) /\ Only(s[i], args[i].label)
        BY <1>3, <2>2, ListSlicesType DEF ValidLabels, IInv
    <2> HIDE DEF s, E
    <2>4. Grouped(E, FlattenSeq(E))
        BY <2>1, <2>3, MadeOfGrouped
    <2> QED
        BY <1>1, <1>3, <2>4, EntriesSelect DEF E
<1> QED
    BY <1>2, <1>3

LEMMA RangeSlicesType ==
    ASSUME NEW w, Shown(w), coord \in Coordinates, NEW a, a.label \in Dims, RangeOk(w, a)
    PROVE  RangeSlices(w, a) \in Seq(Descriptors) /\ Only(RangeSlices(w, a), a.label)
           /\ RangeSlices(w, a) # <<>> /\ Len(RangeSlices(w, a)) = 1
<1>1. PICK from, to : /\ RangeSlices(w, a) = <<Descriptor(a.label, from, to)>>
                      /\ Descriptor(a.label, from, to) \in Descriptors
    BY RangeIs
<1> DEFINE x == Descriptor(a.label, from, to)
<1>2. x.label = a.label /\ x \in Descriptors
    BY <1>1 DEF Descriptor
<1> HIDE DEF x
<1>3. <<x>> \in Seq(Descriptors) /\ Only(<<x>>, a.label) /\ <<x>> # <<>> /\ Len(<<x>>) = 1
    BY <1>2 DEF Only
<1> QED
    BY <1>1, <1>3 DEF x

LEMMA RangeResult ==
    ASSUME IInv, NEW args \in Seq(RangeArgs)
    PROVE  /\ Selects(Labelled(args, RangeOk, RangeSlices), RangeEntries(view, args))
           /\ Labelled(args, RangeOk, RangeSlices).ok =>
                 ValidLabels(args) /\ \A i \in DOMAIN args : RangeOk(view, args[i])
           /\ ValidLabels(args) /\ (\A i \in DOMAIN args : RangeOk(view, args[i])) =>
                 /\ Labelled(args, RangeOk, RangeSlices) =
                        IselVector(view, FlattenSeq(RangeEntries(view, args)))
                 /\ Grouped(RangeEntries(view, args), FlattenSeq(RangeEntries(view, args)))
<1> DEFINE E == RangeEntries(view, args)
           r == Labelled(args, RangeOk, RangeSlices)
           Good == ValidLabels(args) /\ \A i \in DOMAIN args : RangeOk(view, args[i])
<1>1. r = IF Good THEN IselVector(view, FlattenSeq(E)) ELSE Error
    BY LabelledRange
<1>2. CASE ~Good
    BY <1>1, <1>2, ErrorSelects
<1>3. CASE Good
    <2> DEFINE s == [i \in DOMAIN args |-> RangeSlices(view, args[i])]
    <2>1. MadeOf(E, args, s)
        BY <1>3, RangeMade
    <2>2. \A i \in DOMAIN args : s[i] \in Seq(Descriptors) /\ Only(s[i], args[i].label)
        BY <1>3, RangeSlicesType DEF ValidLabels, IInv
    <2> HIDE DEF s, E
    <2>3. Grouped(E, FlattenSeq(E))
        BY <2>1, <2>2, MadeOfGrouped
    <2> QED
        BY <1>1, <1>3, <2>3, EntriesSelect DEF E
<1> QED
    BY <1>2, <1>3

-----------------------------------------------------------------------------
(* The steps *)

LEMMA ValueArgsType ==
    ASSUME IInv, NEW args \in SelArgs([label : Labels, value : Values])
    PROVE  args \in Seq(ValueArgs) /\ Len(args) \in Nat
BY ArgsSeq DEF ValueArgs

LEMMA RangeArgsType ==
    ASSUME IInv, NEW args \in SelArgs([label : Labels, start : Values, stop : Values])
    PROVE  args \in Seq(RangeArgs) /\ Len(args) \in Nat /\ args # <<>>
BY ArgsSeq DEF RangeArgs

LEMMA ListArgsType ==
    ASSUME IInv,
           NEW args \in UpTo(1, [label : Labels, values : Args(Values)])
                          \cup SelArgs([label : Labels, values : UpTo(1, Values)])
    PROVE  args \in Seq(ListArgs) /\ ListCost(args) \in Nat
<1>1. Args(Values) \subseteq Seq(Values) \ {<<>>}
    BY ArgsSeq
<1>2. UpTo(1, Values) \subseteq Seq(Values) \ {<<>>}
    BY UpToSeq
<1>3. [label : Labels, values : Args(Values)] \subseteq ListArgs
    BY <1>1 DEF ListArgs
<1>4. [label : Labels, values : UpTo(1, Values)] \subseteq ListArgs
    BY <1>2 DEF ListArgs
<1>5. ASSUME args \in UpTo(1, [label : Labels, values : Args(Values)])
      PROVE  args \in Seq(ListArgs)
    <2> DEFINE X == [label : Labels, values : Args(Values)]
    <2>1. args \in Seq(X) /\ X \subseteq ListArgs
        BY <1>3, <1>5, UpToSeq
    <2> HIDE DEF X
    <2> QED
        BY <2>1, SeqMonotonic
<1>6. ASSUME args \in SelArgs([label : Labels, values : UpTo(1, Values)])
      PROVE  args \in Seq(ListArgs)
    <2> DEFINE X == [label : Labels, values : UpTo(1, Values)]
    <2>1. args \in Seq(X) /\ X \subseteq ListArgs
        BY <1>4, <1>6, ArgsSeq
    <2> HIDE DEF X
    <2> QED
        BY <2>1, SeqMonotonic
<1>7. args \in Seq(ListArgs)
    BY <1>5, <1>6
<1>8. Len(args) \in Nat
    BY <1>7, LenProperties
<1>9. ASSUME Len(args) = 1 PROVE Len(args[1].values) \in Nat
    <2>1. args[1] \in ListArgs
        BY <1>7, <1>9, ElementOfSeq
    <2>2. args[1].values \in Seq(Values)
        BY <2>1 DEF ListArgs
    <2> QED
        BY <2>2, LenProperties
<1> QED
    BY <1>7, <1>8, <1>9 DEF ListCost

LEMMA NextInv == ASSUME IInv, Next PROVE IInv'
<1>1. CASE DoIsel
    <2>1. PICK descs \in Args(IselDescriptors) :
             Call("isel", descs, Len(descs),
                  IF IselOk(view, descs) THEN [ok |-> TRUE, view |-> Isel(view, descs)] ELSE Error)
        BY <1>1 DEF DoIsel
    <2> QED
        BY <2>1, DoIselResult, CallType DEF Ops
<1>2. CASE DoIselVector
    <2>1. PICK descs \in Args(IselDescriptors) :
             Call("iselVector", descs, Len(descs), IselVector(view, descs))
        BY <1>2 DEF DoIselVector
    <2> QED
        BY <2>1, DoIselResult, CallType DEF Ops
<1>3. CASE SelValue
    <2>1. PICK args \in SelArgs([label : Labels, value : Values]) :
             Call("value", args, Len(args), Labelled(args, LAMBDA w, a : TRUE, ValueSlices))
        BY <1>3 DEF SelValue
    <2>2. Result(Labelled(args, LAMBDA w, a : TRUE, ValueSlices)) /\ Len(args) \in Nat
        BY ValueArgsType, ValueResult DEF Selects
    <2> QED
        BY <2>1, <2>2, CallType DEF Ops
<1>4. CASE SelList
    <2>1. PICK args \in UpTo(1, [label : Labels, values : Args(Values)])
                          \cup SelArgs([label : Labels, values : UpTo(1, Values)]) :
             Call("list", args, ListCost(args), Labelled(args, ListOk, ListSlices))
        BY <1>4 DEF SelList
    <2>2. Result(Labelled(args, ListOk, ListSlices)) /\ ListCost(args) \in Nat
        BY ListArgsType, ListResult DEF Selects
    <2> QED
        BY <2>1, <2>2, CallType DEF Ops
<1>5. CASE SelRange
    <2>1. PICK args \in SelArgs([label : Labels, start : Values, stop : Values]) :
             Call("range", args, Len(args), Labelled(args, RangeOk, RangeSlices))
        BY <1>5 DEF SelRange
    <2>2. Result(Labelled(args, RangeOk, RangeSlices)) /\ Len(args) \in Nat
        BY RangeArgsType, RangeResult DEF Selects
    <2> QED
        BY <2>1, <2>2, CallType DEF Ops
<1> QED
    BY <1>1, <1>2, <1>3, <1>4, <1>5 DEF Next

LEMMA SpecInv == Spec => []IInv
<1>1. IInv /\ [Next]_vars => IInv'
    <2> SUFFICES ASSUME IInv, [Next]_vars PROVE IInv'
        OBVIOUS
    <2>1. CASE Next
        BY <2>1, NextInv
    <2>2. CASE UNCHANGED vars
        BY <2>2 DEF vars, IInv, Shown, Fits
    <2> QED
        BY <2>1, <2>2
<1> QED
    BY <1>1, InitInv, PTL DEF Spec

\* Through any sequence of calls every variable keeps an axis for each of its
\* dimensions, and its indices read positions the stored array has.
THEOREM Types == Spec => []TypeOK
BY SpecInv, InvTypeOK, PTL

-----------------------------------------------------------------------------
(* Slicing by index *)

LEMMA CallFacts ==
    ASSUME NEW op, NEW args, NEW cost, NEW r, Call(op, args, cost, r)
    PROVE  /\ call'.op = op /\ call'.args = args /\ call'.ok = r.ok /\ call'.before = view
           /\ r.ok => view' = r.view
           /\ ~r.ok => view' = view
           /\ coord' = coord
BY DEF Call

LEMMA NarrowedAgrees ==
    ASSUME NEW w, Shown(w), Agree(w), NEW new, NEW args \in Seq(Descriptors), Narrowed(w, new, args)
    PROVE  Agree(new)
<1> SUFFICES ASSUME NEW v \in Variables, NEW d \in v PROVE new[v][d] = new[{d}][d]
    BY DEF Agree, Axis
<1> DEFINE rs == Of(d, args)
<1>1. {d} \in Variables /\ d \in {d}
    BY VariableDims, CoordinateVariable
<1>2. w[v][d] = w[{d}][d]
    BY DEF Agree, Axis
<1>3. d \in DOMAIN w[v] /\ d \in DOMAIN w[{d}]
    BY <1>1 DEF Shown, Fits
<1>4. rs \in Seq(Descriptors) /\ Only(rs, d)
    BY RefusedOf
<1>5. /\ new[v][d] = IF rs = <<>> THEN w[v][d] ELSE Cut(w[v], d, rs)
      /\ new[{d}][d] = IF rs = <<>> THEN w[{d}][d] ELSE Cut(w[{d}], d, rs)
    BY <1>1 DEF Narrowed
<1> DEFINE f == w[v]
           g == w[{d}]
<1>6. AlikeAlong(f, g, d) /\ d \in DOMAIN f
    BY <1>2, <1>3 DEF AlikeAlong
<1> HIDE DEF rs, f, g
<1>7. Cut(f, d, rs) = Cut(g, d, rs)
    BY <1>4, <1>6, SameAxis
<1> QED
    BY <1>2, <1>5, <1>7 DEF f, g

LEMMA IselStep ==
    ASSUME IInv, DoIsel
    PROVE  \E descs \in Seq(Descriptors) :
              /\ call'.op = "isel" /\ call'.args = descs /\ call'.before = view
              /\ call'.ok \in BOOLEAN
              /\ call'.ok => IselOk(view, descs) /\ view' = Isel(view, descs)
              /\ ~call'.ok => view' = view
<1>1. PICK descs \in Args(IselDescriptors) :
         Call("isel", descs, Len(descs),
              IF IselOk(view, descs) THEN [ok |-> TRUE, view |-> Isel(view, descs)] ELSE Error)
    BY DEF DoIsel
<1>2. descs \in Seq(Descriptors)
    BY DoIselResult
<1> DEFINE r == IF IselOk(view, descs) THEN [ok |-> TRUE, view |-> Isel(view, descs)] ELSE Error
<1>3. r.ok \in BOOLEAN /\ (r.ok => IselOk(view, descs) /\ r.view = Isel(view, descs))
    BY DEF Error
<1>4. Call("isel", descs, Len(descs), r)
    BY <1>1
<1> HIDE DEF r
<1>5. /\ call'.op = "isel" /\ call'.args = descs /\ call'.ok = r.ok /\ call'.before = view
      /\ r.ok => view' = r.view
      /\ ~r.ok => view' = view
    BY <1>4, CallFacts
<1> QED
    BY <1>2, <1>3, <1>5

LEMMA IselVectorStep ==
    ASSUME IInv, DoIselVector
    PROVE  \E descs \in Seq(Descriptors) :
              /\ call'.op = "iselVector" /\ call'.args = descs /\ call'.before = view
              /\ call'.ok = IselVector(view, descs).ok /\ call'.ok \in BOOLEAN
              /\ call'.ok => view' = IselVector(view, descs).view
              /\ ~call'.ok => view' = view
<1>1. PICK descs \in Args(IselDescriptors) :
         Call("iselVector", descs, Len(descs), IselVector(view, descs))
    BY DEF DoIselVector
<1>2. descs \in Seq(Descriptors) /\ Result(IselVector(view, descs))
    BY DoIselResult
<1> DEFINE r == IselVector(view, descs)
<1> HIDE DEF r
<1>3. r.ok \in BOOLEAN /\ Call("iselVector", descs, Len(descs), r)
    BY <1>1, <1>2 DEF r, Result
<1>4. /\ call'.op = "iselVector" /\ call'.args = descs /\ call'.ok = r.ok /\ call'.before = view
      /\ r.ok => view' = r.view
      /\ ~r.ok => view' = view
    BY <1>3, CallFacts
<1> QED
    BY <1>2, <1>3, <1>4 DEF r

LEMMA NarrowedByIsel ==
    ASSUME IInv, DoIsel \/ DoIselVector
    PROVE  \E descs \in Seq(Descriptors) :
              /\ call'.op \in {"isel", "iselVector"} /\ call'.args = descs /\ call'.before = view
              /\ call'.ok /\ OnePerLabel(descs) => Narrowed(view, view', descs)
<1>1. Shown(view)
    BY DEF IInv
<1>2. CASE DoIsel
    <2>1. PICK descs \in Seq(Descriptors) :
              /\ call'.op = "isel" /\ call'.args = descs /\ call'.before = view
              /\ call'.ok => IselOk(view, descs) /\ view' = Isel(view, descs)
        BY <1>2, IselStep
    <2>2. ASSUME call'.ok, OnePerLabel(descs) PROVE Narrowed(view, view', descs)
        BY <1>1, <2>1, <2>2, IselNarrows
    <2> QED
        BY <2>1, <2>2
<1>3. CASE DoIselVector
    <2>1. PICK descs \in Seq(Descriptors) :
              /\ call'.op = "iselVector" /\ call'.args = descs /\ call'.before = view
              /\ call'.ok = IselVector(view, descs).ok
              /\ call'.ok => view' = IselVector(view, descs).view
        BY <1>3, IselVectorStep
    <2>2. ASSUME call'.ok, OnePerLabel(descs) PROVE Narrowed(view, view', descs)
        <3>1. Few(descs)
            BY <2>2, OnePerLabelFew
        <3>2. IselVector(view, descs).ok
            BY <2>1, <2>2
        <3>3. Narrowed(view, IselVector(view, descs).view, descs)
            BY <1>1, <3>1, <3>2, IselVectorNarrows
        <3> QED
            BY <2>1, <2>2, <3>3
    <2> QED
        BY <2>1, <2>2
<1> QED
    BY <1>2, <1>3

\* The operation of the step.
LEMMA NextOp ==
    ASSUME IInv, Next
    PROVE  \/ DoIsel /\ call'.op = "isel"
           \/ DoIselVector /\ call'.op = "iselVector"
           \/ SelValue /\ call'.op = "value"
           \/ SelList /\ call'.op = "list"
           \/ SelRange /\ call'.op = "range"
<1>1. DoIsel => call'.op = "isel"
    BY CallFacts DEF DoIsel
<1>2. DoIselVector => call'.op = "iselVector"
    BY CallFacts DEF DoIselVector
<1>3. SelValue => call'.op = "value"
    BY CallFacts DEF SelValue
<1>4. SelList => call'.op = "list"
    BY CallFacts DEF SelList
<1>5. SelRange => call'.op = "range"
    BY CallFacts DEF SelRange
<1> QED
    BY <1>1, <1>2, <1>3, <1>4, <1>5 DEF Next

LEMMA IntersectsStep == ASSUME IInv, Next PROVE IselIntersects'
<1> SUFFICES ASSUME call'.op \in {"isel", "iselVector"}, call'.ok, OnePerLabel(call'.args),
                    NEW v \in Variables, NEW d \in v
             PROVE  LET before == Reads(call'.before[v][d])
                        kept   == {i \in DOMAIN before : \A r \in RangesOf(call'.args, d) : i \in r}
                    IN  Reads(view'[v][d]) = [i \in kept |-> before[i]]
    BY DEF IselIntersects, RangesOf, OnePerLabel
<1>1. DoIsel \/ DoIselVector
    BY NextOp
<1>2. PICK descs \in Seq(Descriptors) :
          /\ call'.args = descs /\ call'.before = view
          /\ call'.ok /\ OnePerLabel(descs) => Narrowed(view, view', descs)
    BY <1>1, NarrowedByIsel
<1>3. OnePerLabel(descs) /\ Narrowed(view, view', descs) /\ Shown(view)
    BY <1>2 DEF IInv
<1>4. LET before == Reads(view[v][d])
          kept   == {i \in DOMAIN before : \A r \in RangesOf(descs, d) : i \in r}
      IN  Reads(view'[v][d]) = [i \in kept |-> before[i]]
    BY <1>3, NarrowedReads
<1> QED
    BY <1>2, <1>4

\* Slicing by index, once per dimension, keeps exactly the indices in the
\* range, on a dataset however it was sliced before, and each still reads the
\* position of the stored array it read before.
THEOREM Intersects == Spec => []IselIntersects
<1>1. Init => IselIntersects
    BY DEF Init, IselIntersects
<1>2. IInv /\ IselIntersects /\ [Next]_vars => IselIntersects'
    <2> SUFFICES ASSUME IInv, IselIntersects, [Next]_vars PROVE IselIntersects'
        OBVIOUS
    <2>1. CASE Next
        BY <2>1, IntersectsStep
    <2>2. CASE UNCHANGED vars
        BY <2>2 DEF vars, IselIntersects
    <2> QED
        BY <2>1, <2>2
<1> QED
    BY <1>1, <1>2, SpecInv, PTL DEF Spec

-----------------------------------------------------------------------------
(* Selection by label: the steps and the axes they leave *)

SelStep(op, args, r) ==
    /\ call'.op = op /\ call'.args = args /\ call'.before = view /\ call'.ok = r.ok
    /\ r.ok => view' = r.view
    /\ ~r.ok => view' = view
    /\ coord' = coord

LEMMA ValueStep ==
    ASSUME IInv, SelValue
    PROVE  \E args \in Seq(ValueArgs) :
              SelStep("value", args, Labelled(args, LAMBDA w, a : TRUE, ValueSlices))
<1>1. PICK args \in SelArgs([label : Labels, value : Values]) :
         Call("value", args, Len(args), Labelled(args, LAMBDA w, a : TRUE, ValueSlices))
    BY DEF SelValue
<1> DEFINE r == Labelled(args, LAMBDA w, a : TRUE, ValueSlices)
<1>2. Call("value", args, Len(args), r)
    BY <1>1
<1> HIDE DEF r
<1>3. SelStep("value", args, r)
    BY <1>2, CallFacts DEF SelStep
<1> QED
    BY <1>3, ValueArgsType DEF r

LEMMA ListStep ==
    ASSUME IInv, SelList
    PROVE  \E args \in Seq(ListArgs) : SelStep("list", args, Labelled(args, ListOk, ListSlices))
<1>1. PICK args \in UpTo(1, [label : Labels, values : Args(Values)])
                      \cup SelArgs([label : Labels, values : UpTo(1, Values)]) :
         Call("list", args, ListCost(args), Labelled(args, ListOk, ListSlices))
    BY DEF SelList
<1> DEFINE r == Labelled(args, ListOk, ListSlices)
<1>2. Call("list", args, ListCost(args), r)
    BY <1>1
<1> HIDE DEF r
<1>3. SelStep("list", args, r)
    BY <1>2, CallFacts DEF SelStep
<1> QED
    BY <1>3, ListArgsType DEF r

LEMMA RangeStep ==
    ASSUME IInv, SelRange
    PROVE  \E args \in Seq(RangeArgs) :
              args # <<>> /\ SelStep("range", args, Labelled(args, RangeOk, RangeSlices))
<1>1. PICK args \in SelArgs([label : Labels, start : Values, stop : Values]) :
         Call("range", args, Len(args), Labelled(args, RangeOk, RangeSlices))
    BY DEF SelRange
<1> DEFINE r == Labelled(args, RangeOk, RangeSlices)
<1>2. Call("range", args, Len(args), r)
    BY <1>1
<1> HIDE DEF r
<1>3. SelStep("range", args, r)
    BY <1>2, CallFacts DEF SelStep
<1> QED
    BY <1>3, RangeArgsType DEF r

LEMMA SelectedAgrees ==
    ASSUME Agree(view), NEW op, NEW args, NEW r, NEW E, SelStep(op, args, r), Selects(r, E)
    PROVE  Agree(view')
BY DEF SelStep, Selects

LEMMA AgreesStep == ASSUME IInv, Next PROVE VariablesAgree'
<1> SUFFICES ASSUME Agree(call'.before), call'.op = "isel" => OnePerLabel(call'.args)
             PROVE  Agree(view')
    BY DEF VariablesAgree, Agree, Axis, OnePerLabel
<1>1. Shown(view)
    BY DEF IInv
<1>2. CASE DoIsel /\ call'.op = "isel"
    <2>1. PICK descs \in Seq(Descriptors) :
              /\ call'.args = descs /\ call'.before = view /\ call'.ok \in BOOLEAN
              /\ call'.ok => IselOk(view, descs) /\ view' = Isel(view, descs)
              /\ ~call'.ok => view' = view
        BY <1>2, IselStep
    <2>2. CASE call'.ok
        <3>1. Narrowed(view, Isel(view, descs), descs) /\ Agree(view)
            BY <1>1, <1>2, <2>1, <2>2, IselNarrows
        <3>2. Agree(Isel(view, descs))
            BY <1>1, <3>1, NarrowedAgrees
        <3> QED
            BY <2>1, <2>2, <3>2
    <2> QED
        BY <2>1, <2>2
<1>3. CASE DoIselVector
    <2>1. PICK descs \in Seq(Descriptors) :
              /\ call'.before = view /\ call'.ok \in BOOLEAN
              /\ call'.ok => view' = IselVector(view, descs).view
              /\ ~call'.ok => view' = view
        BY <1>3, IselVectorStep
    <2>2. Agree(view) /\ Agree(IselVector(view, descs).view)
        BY <1>1, <2>1, IselVectorType
    <2> QED
        BY <2>1, <2>2
<1>4. CASE SelValue
    <2>1. PICK args \in Seq(ValueArgs) :
              SelStep("value", args, Labelled(args, LAMBDA w, a : TRUE, ValueSlices))
        BY <1>4, ValueStep
    <2>2. Agree(view)
        BY <2>1 DEF SelStep
    <2> QED
        BY <2>1, <2>2, ValueResult, SelectedAgrees
<1>5. CASE SelList
    <2>1. PICK args \in Seq(ListArgs) : SelStep("list", args, Labelled(args, ListOk, ListSlices))
        BY <1>5, ListStep
    <2>2. Agree(view)
        BY <2>1 DEF SelStep
    <2> QED
        BY <2>1, <2>2, ListResult, SelectedAgrees
<1>6. CASE SelRange
    <2>1. PICK args \in Seq(RangeArgs) : SelStep("range", args, Labelled(args, RangeOk, RangeSlices))
        BY <1>6, RangeStep
    <2>2. Agree(view)
        BY <2>1 DEF SelStep
    <2> QED
        BY <2>1, <2>2, RangeResult, SelectedAgrees
<1> QED
    BY <1>2, <1>3, <1>4, <1>5, <1>6, NextOp

\* No sequence of calls makes variables whose common dimensions agree
\* disagree, unless one isel names a dimension twice.
THEOREM Agrees == Spec => []VariablesAgree
<1>1. Init => VariablesAgree
    BY FullIsShown DEF Init, VariablesAgree
<1>2. IInv /\ VariablesAgree /\ [Next]_vars => VariablesAgree'
    <2> SUFFICES ASSUME IInv, VariablesAgree, [Next]_vars PROVE VariablesAgree'
        OBVIOUS
    <2>1. CASE Next
        BY <2>1, AgreesStep
    <2>2. CASE UNCHANGED vars
        BY <2>2 DEF vars, VariablesAgree, Agree, Axis, OnePerLabel
    <2> QED
        BY <2>1, <2>2
<1> QED
    BY <1>1, <1>2, SpecInv, PTL DEF Spec

LEMMA SelectedAxes ==
    ASSUME IInv, NEW E, Grouped(E, FlattenSeq(E)), \A d \in Dims : Len(E[d]) <= MaxSlices
    PROVE  SlicedByLabel(view, FlattenSeq(E), IselVector(view, FlattenSeq(E)))
<1> DEFINE D == FlattenSeq(E)
<1>1. D \in Seq(Descriptors) /\ Shown(view)
    BY DEF Grouped, IInv
<1>2. Few(D)
    BY GroupedFew
<1> HIDE DEF D
<1>3. SlicedByLabel(view, D, IselVector(view, D))
    BY <1>1, <1>2, IselVectorFew
<1> QED
    BY <1>3 DEF D

\* The axis of each dimension when a selection succeeds.
LEMMA SelectedAxis ==
    ASSUME IInv, NEW r, NEW E, Selects(r, E), r.ok, \A d \in Dims : Len(E[d]) <= MaxSlices,
           NEW d \in Dims
    PROVE  Axis(r.view, d) = IF E[d] = <<>> THEN Axis(view, d) ELSE Cut(view[{d}], d, E[d])
<1> DEFINE D == FlattenSeq(E)
<1>1. Grouped(E, D) /\ r = IselVector(view, D)
    BY DEF Selects
<1>2. SlicedByLabel(view, D, r)
    BY <1>1, SelectedAxes
<1> HIDE DEF D
<1>3. {d} \in Variables /\ d \in {d}
    BY CoordinateVariable
<1>4. r.view[{d}][d] = IF Of(d, D) = <<>> THEN view[{d}][d] ELSE Cut(view[{d}], d, Of(d, D))
    BY <1>2, <1>3 DEF SlicedByLabel
<1> QED
    BY <1>1, <1>4 DEF Grouped, Axis

Picks(cells, from, samples) == cells = [k \in 1..Len(samples) |-> from[samples[k]]]

LEMMA PointsCut ==
    ASSUME NEW w, Shown(w), coord \in Coordinates, NEW d \in Dims,
           NEW samples \in Seq(1..Len(Axis(w, d).cells)), samples # <<>>
    PROVE  /\ Points(w, d, samples) # <<>>
           /\ Picks(Cut(w[{d}], d, Points(w, d, samples)).cells, Axis(w, d).cells, samples)
<1> DEFINE domain == w[{d}]
           rs == Points(w, d, samples)
<1>1. /\ rs \in Seq(Descriptors) /\ Only(rs, d) /\ Len(rs) = Len(samples)
      /\ PointsAt(rs, samples, domain[d].origin)
    BY PointsType DEF Axis, PointsAt
<1>2. d \in DOMAIN domain /\ domain[d] \in Axes(Size[d])
    BY CoordinateVariable DEF Shown, Fits
<1>3. Axis(w, d) = domain[d]
    BY DEF Axis
<1>4. rs # <<>>
    <2>1. Len(samples) # 0
        BY EmptySeq
    <2> QED
        BY <1>1, <2>1
<1> HIDE DEF rs, domain
<1> DEFINE n == Size[d]
<1>5. /\ samples \in Seq(1..Len(domain[d].cells))
      /\ domain[d] \in Axes(n)
    BY <1>1, <1>2, <1>3
<1> HIDE DEF n
<1>6. Cut(domain, d, rs).cells = [k \in 1..Len(samples) |-> domain[d].cells[samples[k]]]
    BY <1>1, <1>2, <1>5, CutPoints
<1> QED
    BY <1>3, <1>4, <1>6 DEF rs, domain, Picks

-----------------------------------------------------------------------------
(* Values and lists *)

ValuesSelected(args) == Labelled(args, LAMBDA w, a : TRUE, ValueSlices)

HitsOf(w, a) == Sorted(Occurrences(ReadCoordinate(w, a.label), a.value))

ValueExact(w, new, args) ==
    \A d \in Dims :
        /\ (\A i \in DOMAIN args : args[i].label # d) => Axis(new, d) = Axis(w, d)
        /\ \A i \in DOMAIN args : args[i].label = d =>
              Axis(new, d).cells =
                  [k \in DOMAIN HitsOf(w, args[i]) |-> Axis(w, d).cells[HitsOf(w, args[i])[k]]]

FewHits(w, args) ==
    \A i \in DOMAIN args :
        Cardinality(Occurrences(ReadCoordinate(w, args[i].label), args[i].value)) \in 1..MaxSlices

LEMMA ValueSlicesFew ==
    ASSUME NEW w, Shown(w), coord \in Coordinates, NEW a, a.label \in Dims,
           Cardinality(Occurrences(ReadCoordinate(w, a.label), a.value)) \in 1..MaxSlices
    PROVE  /\ Len(ValueSlices(w, a)) <= MaxSlices /\ ValueSlices(w, a) # <<>>
           /\ Cut(w[{a.label}], a.label, ValueSlices(w, a)).cells =
                [k \in DOMAIN HitsOf(w, a) |-> Axis(w, a.label).cells[HitsOf(w, a)[k]]]
<1> DEFINE d == a.label
           hits == HitsOf(w, a)
           n == Cardinality(Occurrences(ReadCoordinate(w, d), a.value))
<1>1. d \in Dims /\ n \in 1..MaxSlices
    OBVIOUS
<1>2. hits = Sorted(Occurrences(ReadCoordinate(w, d), a.value))
    BY DEF HitsOf
<1>3. ValueSlices(w, a) = Points(w, d, hits)
    BY DEF ValueSlices, HitsOf
<1> HIDE DEF d, hits
<1>4. hits \in Seq(1..Len(Axis(w, d).cells)) /\ Len(hits) = n /\ DOMAIN hits = 1..Len(hits)
    BY <1>1, <1>2, OccurrencesSorted
<1> HIDE DEF n
<1>5. hits # <<>>
    <2>1. Len(<<>>) = 0 /\ n # 0
        BY <1>1
    <2> QED
        BY <1>4, <2>1
<1>6. Len(Points(w, d, hits)) = n /\ n <= MaxSlices
    BY <1>1, <1>4, PointsType
<1>7. /\ Points(w, d, hits) # <<>>
      /\ Picks(Cut(w[{d}], d, Points(w, d, hits)).cells, Axis(w, d).cells, hits)
    BY <1>1, <1>4, <1>5, PointsCut
<1>8. Cut(w[{d}], d, Points(w, d, hits)).cells = [k \in DOMAIN hits |-> Axis(w, d).cells[hits[k]]]
    BY <1>4, <1>7 DEF Picks
<1> QED
    BY <1>3, <1>6, <1>7, <1>8 DEF d, hits

LEMMA ValuesLeft ==
    ASSUME IInv, NEW args \in Seq(ValueArgs), NEW r,
           r = ValuesSelected(args), r.ok, FewHits(view, args)
    PROVE  ValueExact(view, r.view, args)
<1> DEFINE E == ValueEntries(view, args)
           s == [i \in DOMAIN args |-> ValueSlices(view, args[i])]
<1>1. ValidLabels(args) /\ Selects(r, E)
    BY ValueResult DEF ValuesSelected
<1>2. MadeOf(E, args, s)
    BY <1>1, ValueMade
<1>3. Shown(view) /\ coord \in Coordinates
    BY DEF IInv
<1>4. ASSUME NEW i \in DOMAIN args
      PROVE  /\ s[i] = ValueSlices(view, args[i]) /\ args[i].label \in Dims
             /\ Len(s[i]) <= MaxSlices /\ s[i] # <<>>
             /\ Cut(view[{args[i].label}], args[i].label, s[i]).cells =
                  [k \in DOMAIN HitsOf(view, args[i]) |->
                      Axis(view, args[i].label).cells[HitsOf(view, args[i])[k]]]
    BY <1>1, <1>3, ValueSlicesFew DEF ValidLabels, FewHits
<1> HIDE DEF s, E
<1>5. Len(<<>>) = 0 /\ 0 <= MaxSlices
    OBVIOUS
<1>6. \A d \in Dims : Len(E[d]) <= MaxSlices
    BY <1>2, <1>4, <1>5 DEF MadeOf
<1>7. ASSUME NEW d \in Dims, \A i \in DOMAIN args : args[i].label # d
      PROVE  Axis(r.view, d) = Axis(view, d)
    <2>1. E[d] = <<>>
        BY <1>2, <1>7 DEF MadeOf
    <2> QED
        BY <1>1, <1>6, <2>1, SelectedAxis
<1>8. ASSUME NEW d \in Dims, NEW i \in DOMAIN args, args[i].label = d
      PROVE  Axis(r.view, d).cells =
               [k \in DOMAIN HitsOf(view, args[i]) |-> Axis(view, d).cells[HitsOf(view, args[i])[k]]]
    <2>1. E[d] = s[i]
        BY <1>2, <1>8 DEF MadeOf
    <2>2. Axis(r.view, d) = Cut(view[{d}], d, s[i])
        <3>1. E[d] # <<>>
            BY <1>4, <2>1
        <3>2. Axis(r.view, d) = Cut(view[{d}], d, E[d])
            BY <1>1, <1>6, <3>1, SelectedAxis
        <3> QED
            BY <2>1, <3>2
    <2> QED
        BY <1>4, <1>8, <2>2
<1> QED
    BY <1>7, <1>8 DEF ValueExact

ListExact(w, new, args) ==
    \A d \in Dims :
        /\ (\A i \in DOMAIN args : args[i].label # d) => Axis(new, d) = Axis(w, d)
        /\ \A i \in DOMAIN args : args[i].label = d => ReadCoordinate(new, d) = args[i].values

LEMMA ListSlicesExact ==
    ASSUME NEW w, Shown(w), coord \in Coordinates, NEW a \in ListArgs, a.label \in Dims, ListOk(w, a),
           Len(a.values) <= MaxSlices,
           NEW new, Axis(new, a.label).cells = Cut(w[{a.label}], a.label, ListSlices(w, a)).cells
    PROVE  ReadCoordinate(new, a.label) = a.values
<1> DEFINE d == a.label
           c == ReadCoordinate(w, d)
           L == Len(Axis(w, d).cells)
           cells == Axis(w, d).cells
<1>1. d \in Dims /\ a.values \in Seq(Values) /\ a.values # <<>>
    BY DEF ListArgs
<1>2. PICK hits \in Seq(1..L) :
          /\ Len(hits) = Len(a.values) /\ \A k \in 1..Len(hits) : c[hits[k]] = a.values[k]
          /\ ListSlices(w, a) = Points(w, d, hits)
    BY <1>1, ListIsPoints
<1> DEFINE N == Len(hits)
<1>3. N \in Nat /\ \A k \in 1..N : hits[k] \in 1..L
    BY <1>2, LenProperties, ElementOfSeq
<1>4. a.values = [k \in 1..N |-> a.values[k]]
    BY <1>1, <1>2
<1>5. hits # <<>>
    <2>1. Len(a.values) # 0
        BY <1>1, EmptySeq
    <2>2. Len(<<>>) = 0
        OBVIOUS
    <2> QED
        BY <1>2, <2>1, <2>2
<1> HIDE DEF d
<1>6. \A i \in 1..L : c[i] = coord[d][cells[i] + 1]
    <2>1. \A i \in 1..Len(Axis(w, d).cells) :
              ReadCoordinate(w, d)[i] = coord[d][Axis(w, d).cells[i] + 1]
        <3>1. DOMAIN Axis(w, d).cells = 1..Len(Axis(w, d).cells)
            BY <1>1, CoordinateRead, LenProperties
        <3> QED
            BY <3>1 DEF ReadCoordinate
    <2> QED
        BY <2>1
<1> HIDE DEF c
<1>7. Cut(w[{d}], d, Points(w, d, hits)).cells = [k \in 1..N |-> cells[hits[k]]]
    <2>1. Picks(Cut(w[{d}], d, Points(w, d, hits)).cells, Axis(w, d).cells, hits)
        BY <1>1, <1>5, PointsCut
    <2> QED
        BY <2>1 DEF Picks
<1> HIDE DEF L, cells, N
<1>8. Axis(new, d).cells = [k \in 1..N |-> cells[hits[k]]]
    BY <1>2, <1>7 DEF d
<1>9. ReadCoordinate(new, d) = [k \in 1..N |-> coord[d][cells[hits[k]] + 1]]
    BY <1>8 DEF ReadCoordinate
<1>10. \A k \in 1..N : coord[d][cells[hits[k]] + 1] = a.values[k]
    BY <1>2, <1>3, <1>6 DEF N
<1>11. ReadCoordinate(new, d) = a.values
    BY <1>4, <1>9, <1>10
<1> QED
    BY <1>11 DEF d

LEMMA ListsLeft ==
    ASSUME IInv, NEW args \in Seq(ListArgs), NEW r, r = Labelled(args, ListOk, ListSlices), r.ok,
           \A i \in DOMAIN args : Len(args[i].values) <= MaxSlices
    PROVE  ListExact(view, r.view, args)
<1> DEFINE E == ListEntries(view, args)
           s == [i \in DOMAIN args |-> ListSlices(view, args[i])]
<1>1. ValidLabels(args) /\ Selects(r, E) /\ \A i \in DOMAIN args : ListOk(view, args[i])
    BY ListResult
<1>2. MadeOf(E, args, s)
    BY <1>1, ListMade
<1>3. Shown(view) /\ coord \in Coordinates /\ \A i \in DOMAIN args : args[i] \in ListArgs
    BY LenProperties, ElementOfSeq DEF IInv
<1>4. ASSUME NEW i \in DOMAIN args
      PROVE  /\ s[i] = ListSlices(view, args[i]) /\ args[i].label \in Dims
             /\ Len(s[i]) <= MaxSlices /\ s[i] # <<>>
    <2> DEFINE a == args[i]
    <2>1. /\ a \in ListArgs /\ a.label \in Dims /\ ListOk(view, a) /\ Len(a.values) <= MaxSlices
          /\ a.values \in Seq(Values) /\ a.values # <<>>
        BY <1>1, <1>3 DEF ValidLabels, ListArgs
    <2>2. s[i] = ListSlices(view, a)
        OBVIOUS
    <2> HIDE DEF a, s
    <2>3. PICK hits \in Seq(1..Len(Axis(view, a.label).cells)) :
              Len(hits) = Len(a.values) /\ ListSlices(view, a) = Points(view, a.label, hits)
        BY <1>3, <2>1, ListIsPoints
    <2>4. Len(Points(view, a.label, hits)) = Len(a.values)
        BY <1>3, <2>1, <2>3, PointsType
    <2>5. Len(a.values) # 0 /\ Len(<<>>) = 0
        BY <2>1, EmptySeq
    <2> QED
        BY <2>1, <2>2, <2>3, <2>4, <2>5 DEF a
<1> HIDE DEF s, E
<1>5. Len(<<>>) = 0 /\ 0 <= MaxSlices
    OBVIOUS
<1>6. \A d \in Dims : Len(E[d]) <= MaxSlices
    BY <1>2, <1>4, <1>5 DEF MadeOf
<1>7. ASSUME NEW d \in Dims, \A i \in DOMAIN args : args[i].label # d
      PROVE  Axis(r.view, d) = Axis(view, d)
    <2>1. E[d] = <<>>
        BY <1>2, <1>7 DEF MadeOf
    <2> QED
        BY <1>1, <1>6, <2>1, SelectedAxis
<1>8. ASSUME NEW d \in Dims, NEW i \in DOMAIN args, args[i].label = d
      PROVE  ReadCoordinate(r.view, d) = args[i].values
    <2>1. E[d] = s[i]
        BY <1>2, <1>8 DEF MadeOf
    <2>2. Axis(r.view, d) = Cut(view[{d}], d, s[i])
        <3>1. E[d] # <<>>
            BY <1>4, <2>1
        <3>2. Axis(r.view, d) = Cut(view[{d}], d, E[d])
            BY <1>1, <1>6, <3>1, SelectedAxis
        <3> QED
            BY <2>1, <3>2
    <2> DEFINE a == args[i]
               new == r.view
    <2>3. /\ Axis(new, a.label).cells = Cut(view[{a.label}], a.label, ListSlices(view, a)).cells
          /\ a \in ListArgs /\ a.label \in Dims /\ ListOk(view, a) /\ Len(a.values) <= MaxSlices
        BY <1>1, <1>3, <1>4, <1>8, <2>2
    <2> HIDE DEF a, new
    <2>4. ReadCoordinate(new, a.label) = a.values
        BY <1>3, <2>3, ListSlicesExact
    <2> QED
        BY <1>8, <2>4 DEF a, new
<1> QED
    BY <1>7, <1>8 DEF ListExact

\* What ReadCoordinate returns when the stored values are co.
ReadAt(co, w, d) == [i \in DOMAIN Axis(w, d).cells |-> co[d][Axis(w, d).cells[i] + 1]]

LEMMA ReadIs == \A w, d : ReadCoordinate(w, d) = ReadAt(coord, w, d)
BY DEF ReadCoordinate, ReadAt

NamedIn(args, d) == {args[i] : i \in {i \in DOMAIN args : args[i].label = d}}

\* SelExact of the call k, the dataset w and the coordinates co.
Exactly(k, w, co) ==
    LET c(d) == ReadAt(co, k.before, d)
        FewFound(d, a) == k.op = "value" => Cardinality(Occurrences(c(d), a.value)) \in 1..MaxSlices
        Short(d, a) == k.op = "list" => Len(a.values) <= MaxSlices
    IN  (/\ k.op \in {"value", "list"} /\ k.ok
         /\ \A d \in Dims : \A a \in NamedIn(k.args, d) : FewFound(d, a) /\ Short(d, a)) =>
            \A d \in Dims :
                IF NamedIn(k.args, d) = {} THEN Axis(w, d).cells = Axis(k.before, d).cells
                ELSE \A a \in NamedIn(k.args, d) :
                       IF k.op = "list" THEN ReadAt(co, w, d) = a.values
                       ELSE LET hits == Sorted(Occurrences(c(d), a.value))
                            IN  Axis(w, d).cells =
                                  [i \in DOMAIN hits |-> Axis(k.before, d).cells[hits[i]]]

LEMMA ExactlyIs ==
    /\ SelExact <=> Exactly(call, view, coord)
    /\ SelExact' <=> Exactly(call', view', coord')
BY DEF SelExact, Exactly, Asked, NamedIn, ReadCoordinate, ReadAt, Axis

LEMMA ExactStep == ASSUME IInv, Next PROVE SelExact'
<1> DEFINE Named(d) == NamedIn(call'.args, d)
           c(d) == ReadAt(coord', call'.before, d)
<1> SUFFICES ASSUME call'.op \in {"value", "list"}, call'.ok,
                    \A d \in Dims : \A a \in Named(d) :
                       /\ call'.op = "value" => Cardinality(Occurrences(c(d), a.value)) \in 1..MaxSlices
                       /\ call'.op = "list" => Len(a.values) <= MaxSlices,
                    NEW d \in Dims
             PROVE  IF Named(d) = {} THEN Axis(view', d).cells = Axis(call'.before, d).cells
                    ELSE \A a \in Named(d) :
                       IF call'.op = "list" THEN ReadAt(coord', view', d) = a.values
                       ELSE LET hits == Sorted(Occurrences(c(d), a.value))
                            IN  Axis(view', d).cells =
                                  [k \in DOMAIN hits |-> Axis(call'.before, d).cells[hits[k]]]
    BY ExactlyIs DEF Exactly
<1>1. CASE SelValue /\ call'.op = "value"
    <2>1. PICK args \in Seq(ValueArgs) : SelStep("value", args, ValuesSelected(args))
        BY <1>1, ValueStep DEF ValuesSelected
    <2> DEFINE r == ValuesSelected(args)
    <2>2. r = ValuesSelected(args)
        OBVIOUS
    <2> HIDE DEF r
    <2>3. SelStep("value", args, r)
        BY <2>1 DEF r
    <2>4. r.ok /\ view' = r.view /\ call'.before = view /\ call'.args = args /\ coord' = coord
        BY <2>3 DEF SelStep
    <2>5. \A e \in Dims : c(e) = ReadCoordinate(view, e)
        BY <2>4, ReadIs
    <2>6. ValidLabels(args)
        BY <2>2, <2>4, ValueResult DEF ValuesSelected
    <2>7. FewHits(view, args)
        BY <1>1, <2>4, <2>5, <2>6 DEF FewHits, ValidLabels, NamedIn
    <2>8. ValueExact(view, view', args)
        BY <2>2, <2>4, <2>7, ValuesLeft
    <2>9. CASE Named(d) = {}
        BY <2>4, <2>8, <2>9 DEF ValueExact, NamedIn
    <2>10. ASSUME NEW i \in DOMAIN args, args[i].label = d
           PROVE  LET hits == Sorted(Occurrences(c(d), args[i].value))
                  IN  Axis(view', d).cells =
                        [k \in DOMAIN hits |-> Axis(call'.before, d).cells[hits[k]]]
        BY <2>4, <2>5, <2>8, <2>10 DEF ValueExact, HitsOf
    <2> QED
        BY <1>1, <2>4, <2>9, <2>10 DEF NamedIn
<1>2. CASE SelList /\ call'.op = "list"
    <2>1. PICK args \in Seq(ListArgs) : SelStep("list", args, Labelled(args, ListOk, ListSlices))
        BY <1>2, ListStep
    <2> DEFINE r == Labelled(args, ListOk, ListSlices)
    <2>2. r = Labelled(args, ListOk, ListSlices)
        OBVIOUS
    <2> HIDE DEF r
    <2>3. SelStep("list", args, r)
        BY <2>1 DEF r
    <2>4. r.ok /\ view' = r.view /\ call'.before = view /\ call'.args = args /\ coord' = coord
        BY <2>3 DEF SelStep
    <2>5. ValidLabels(args)
        BY <2>2, <2>4, ListResult
    <2>6. \A i \in DOMAIN args : Len(args[i].values) <= MaxSlices
        BY <1>2, <2>4, <2>5 DEF ValidLabels, NamedIn
    <2>7. ListExact(view, view', args)
        BY <2>2, <2>4, <2>6, ListsLeft
    <2>8. CASE Named(d) = {}
        BY <2>4, <2>7, <2>8 DEF ListExact, NamedIn
    <2>9. ASSUME NEW i \in DOMAIN args, args[i].label = d
          PROVE  ReadAt(coord', view', d) = args[i].values
        BY <2>4, <2>7, <2>9, ReadIs DEF ListExact
    <2> QED
        BY <1>2, <2>4, <2>8, <2>9 DEF NamedIn
<1> QED
    BY <1>1, <1>2, NextOp

\* Selecting values or a list by label leaves exactly what was asked for, on
\* a dataset that was sliced before as well, and the other dimensions whole.
THEOREM Exact == Spec => []SelExact
<1>1. Init => SelExact
    BY DEF Init, SelExact
<1>2. IInv /\ SelExact /\ [Next]_vars => SelExact'
    <2> SUFFICES ASSUME IInv, SelExact, [Next]_vars PROVE SelExact'
        OBVIOUS
    <2>1. CASE Next
        BY <2>1, ExactStep
    <2>2. CASE UNCHANGED vars
        BY <2>2, ExactlyIs DEF vars
    <2> QED
        BY <2>1, <2>2
<1> QED
    BY <1>1, <1>2, SpecInv, PTL DEF Spec

-----------------------------------------------------------------------------
(* Ranges *)

\* A set of positions without a gap at its start is counted by its last one.
LEMMA DownwardClosed ==
    ASSUME NEW n \in Nat, NEW S \in SUBSET (1..n),
           \A i \in S : \A j \in 1..n : j < i => j \in S
    PROVE  Cardinality(S) \in 0..n /\ \A i \in 1..n : i \in S <=> i <= Cardinality(S)
<1>1. IsFiniteSet(1..n) /\ Cardinality(1..n) = n
    BY FS_Interval
<1>2. IsFiniteSet(S) /\ Cardinality(S) \in Nat /\ Cardinality(S) <= n
    <2> DEFINE X == 1..n
    <2>1. IsFiniteSet(X) /\ Cardinality(X) = n /\ S \in SUBSET X
        BY <1>1
    <2> HIDE DEF X
    <2>2. IsFiniteSet(S) /\ Cardinality(S) <= n
        BY <2>1, FS_Subset
    <2> QED
        BY <2>2, FS_CardinalityType
<1>3. ASSUME NEW i \in S PROVE i <= Cardinality(S)
    <2>1. 1..i \subseteq S /\ i \in Nat
        OBVIOUS
    <2>2. Cardinality(1..i) = i
        BY <2>1, FS_Interval
    <2> QED
        BY <1>2, <2>1, <2>2, FS_Subset
<1>4. ASSUME NEW i \in 1..n, i \notin S PROVE ~(i <= Cardinality(S))
    <2>1. S \subseteq 1..(i - 1) /\ i - 1 \in Nat
        BY <1>4
    <2>2. IsFiniteSet(1..(i - 1)) /\ Cardinality(1..(i - 1)) = i - 1
        BY <2>1, FS_Interval
    <2> DEFINE X == 1..(i - 1)
    <2>3. Cardinality(S) <= i - 1
        <3>1. IsFiniteSet(X) /\ Cardinality(X) = i - 1 /\ S \in SUBSET X
            BY <2>1, <2>2
        <3> HIDE DEF X
        <3> QED
            BY <3>1, FS_Subset
    <2> QED
        BY <1>2, <2>3
<1> QED
    BY <1>2, <1>3, <1>4

BetweenOf(c, a) == {i \in DOMAIN c : Contained(OrderOf(c), a, c[i])}

FirstOf(c, a) == NearestStart(c, OrderOf(c), a.start)
LastOf(c, a)  == NearestStop(c, OrderOf(c), a.stop)

\* The samples between the endpoints are those the binary searches enclose.
LEMMA BetweenInterval ==
    ASSUME NEW L \in Nat, NEW c, DOMAIN c = 1..L, \A i \in 1..L : c[i] \in Int,
           OrderOf(c) # "unordered", NEW a, a.start \in Int, a.stop \in Int
    PROVE  /\ FirstOf(c, a) \in 1..(L + 1) /\ LastOf(c, a) \in 0..L
           /\ BetweenOf(c, a) = FirstOf(c, a)..LastOf(c, a)
<1> DEFINE up == OrderOf(c) = "ascending"
           before == {i \in 1..L : IF up THEN c[i] < a.start ELSE c[i] > a.start}
           within == {i \in 1..L : IF up THEN c[i] <= a.stop ELSE c[i] >= a.stop}
<1>1. /\ up => \A i, j \in 1..L : i < j => c[i] <= c[j]
      /\ ~up => \A i, j \in 1..L : i < j => c[i] >= c[j]
    BY DEF OrderOf, Ascending, Descending
<1>2. FirstOf(c, a) = 1 + Cardinality(before) /\ LastOf(c, a) = Cardinality(within)
    BY DEF FirstOf, LastOf, NearestStart, NearestStop
<1>3. BetweenOf(c, a) = {i \in 1..L : i \notin before /\ i \in within}
    BY DEF BetweenOf, Contained
<1> HIDE DEF up
<1>4. \A i \in before : \A j \in 1..L : j < i => j \in before
    BY <1>1
<1>5. \A i \in within : \A j \in 1..L : j < i => j \in within
    BY <1>1
<1>6. before \in SUBSET (1..L) /\ within \in SUBSET (1..L)
    OBVIOUS
<1> HIDE DEF before, within
<1>7. Cardinality(before) \in 0..L /\ \A i \in 1..L : i \in before <=> i <= Cardinality(before)
    BY <1>4, <1>6, DownwardClosed
<1>8. Cardinality(within) \in 0..L /\ \A i \in 1..L : i \in within <=> i <= Cardinality(within)
    BY <1>5, <1>6, DownwardClosed
<1> QED
    BY <1>2, <1>3, <1>7, <1>8

LEMMA MonotonicEndsAre ==
    ASSUME NEW L \in Nat, NEW c, DOMAIN c = 1..L, \A i \in 1..L : c[i] \in Int,
           OrderOf(c) # "unordered", NEW a, a.start \in Int, a.stop \in Int
    PROVE  /\ BetweenOf(c, a) # {} <=> Ends(c, a) # {}
           /\ \A e \in Ends(c, a) : BetweenOf(c, a) = e[1]..e[2]
<1> DEFINE first == FirstOf(c, a)
           last == LastOf(c, a)
<1>1. first \in 1..(L + 1) /\ last \in 0..L /\ BetweenOf(c, a) = first..last
    BY BetweenInterval
<1>2. MonotonicEnds(c, a) = IF first \in 1..L /\ last \in 1..L THEN {<<first, last>>} ELSE {}
    BY DEF MonotonicEnds, FirstOf, LastOf
<1>3. Ends(c, a) = {e \in MonotonicEnds(c, a) : e[1] <= e[2]}
    BY DEF Ends
<1> HIDE DEF first, last
<1>4. \A e \in Ends(c, a) : e = <<first, last>>
    BY <1>2, <1>3
<1>5. CASE first <= last
    <2>1. first \in 1..L /\ last \in 1..L
        BY <1>1, <1>5
    <2>2. <<first, last>> \in Ends(c, a)
        BY <1>2, <1>3, <1>5, <2>1
    <2>3. first \in first..last
        BY <1>1, <1>5
    <2>4. \A e \in Ends(c, a) : e[1] = first /\ e[2] = last
        BY <1>4
    <2>5. BetweenOf(c, a) # {} /\ Ends(c, a) # {}
        BY <1>1, <2>2, <2>3
    <2> QED
        BY <1>1, <2>4, <2>5
<1>6. CASE ~(first <= last)
    <2>1. Ends(c, a) = {}
        BY <1>3, <1>4, <1>6
    <2>2. first..last = {}
        BY <1>1, <1>6
    <2> QED
        BY <1>1, <2>1, <2>2
<1> QED
    BY <1>5, <1>6

Keeps(cells, from, S) == {cells[j] : j \in DOMAIN cells} = {from[i] : i \in S}

RangeOn(d, axis, from, to) == Descriptor(d, axis.origin + from - 1, axis.origin + to)

\* A descriptor of the samples from..to selects them.
LEMMA CutRange ==
    ASSUME NEW n, NEW domain, NEW d \in DOMAIN domain, domain[d] \in Axes(n),
           NEW from \in Nat, NEW to \in Nat, 1 <= from, from <= to, to <= Len(domain[d].cells),
           NEW x \in Descriptors, x = RangeOn(d, domain[d], from, to)
    PROVE  /\ ~Refused(domain, <<x>>)
           /\ Keeps(Cut(domain, d, <<x>>).cells, domain[d].cells, from..to)
<1> DEFINE axis == domain[d]
           o == axis.origin
           L == Len(axis.cells)
           t == SliceInRange(x, domain)
           h == HalfOpenInterval(axis, t)
           N == to - from + 1
<1>1. x.label = d /\ x.start = o + from - 1 /\ x.stop = o + to
    BY DEF RangeOn, Descriptor
<1>2. Clamps(t, x, domain[d])
    BY <1>1, SliceInRangeBounds
<1>3. o \in Nat /\ L \in Nat /\ Upper(axis) = o + L /\ axis \in Axes(n)
    BY LenProperties DEF Axes, Upper
<1>4. Cut(domain, d, <<x>>) = h \/ Refused(domain, <<x>>)
    BY <1>1, CutOne
<1>5. to <= L
    OBVIOUS
<1>6. /\ t.start = IF x.start < o THEN o ELSE x.start
      /\ t.stop = IF x.stop > Upper(axis) THEN Upper(axis) ELSE x.stop
    BY <1>2 DEF Clamps
<1> HIDE DEF axis, o, L, t, h
<1>7. t.start = o + from - 1 /\ t.stop = o + to
    BY <1>1, <1>3, <1>5, <1>6
<1>8. ~Refused(domain, <<x>>)
    <2>1. ~(t.start > t.stop)
        BY <1>3, <1>7
    <2>2. \A i \in DOMAIN <<x>> : <<x>>[i] = x
        OBVIOUS
    <2> QED
        BY <2>1, <2>2 DEF Refused, t
<1>9. /\ t.start \in Int /\ t.stop \in Int /\ axis.origin <= t.start
      /\ t.start <= t.stop /\ t.stop <= Upper(axis)
      /\ t.stop - t.start = N /\ t.start - axis.origin = from - 1 /\ N \in Nat
    BY <1>3, <1>5, <1>7 DEF o
<1>10. /\ Len(h.cells) = t.stop - t.start /\ h \in Axes(n)
       /\ \A j \in 1..(t.stop - t.start) : h.cells[j] = axis.cells[t.start - axis.origin + j]
    BY <1>3, <1>9, IntervalCells DEF h
<1> HIDE DEF N
<1>11. h.cells \in Seq(0..(n - 1))
    BY <1>10 DEF Axes
<1>12. DOMAIN h.cells = 1..N
    BY <1>9, <1>10, <1>11, LenProperties
<1>13. \A j \in 1..N : h.cells[j] = axis.cells[from - 1 + j]
    BY <1>9, <1>10
<1>14. {h.cells[j] : j \in 1..N} = {axis.cells[i] : i \in from..to}
    <2>1. ASSUME NEW j \in 1..N PROVE from - 1 + j \in from..to
        BY DEF N
    <2>2. ASSUME NEW i \in from..to PROVE i - from + 1 \in 1..N /\ from - 1 + (i - from + 1) = i
        BY DEF N
    <2>3. \A j \in 1..N : h.cells[j] \in {axis.cells[i] : i \in from..to}
        BY <1>13, <2>1
    <2>4. ASSUME NEW i \in from..to PROVE axis.cells[i] \in {h.cells[j] : j \in 1..N}
        <3>1. h.cells[i - from + 1] = axis.cells[i]
            BY <1>13, <2>2
        <3> QED
            BY <2>2, <3>1
    <2> QED
        BY <2>3, <2>4
<1> QED
    BY <1>4, <1>8, <1>12, <1>14 DEF axis, Keeps

\* Where a variable has no such dimension, a descriptor is refused only if it
\* is the wrong way round.
LEMMA RangeElsewhere ==
    ASSUME NEW domain, NEW d, d \notin DOMAIN domain, NEW x, x.label = d, ~(x.start > x.stop)
    PROVE  ~Refused(domain, <<x>>)
<1>1. SliceInRange(x, domain) = x
    BY DEF SliceInRange
<1>2. \A i \in DOMAIN <<x>> : <<x>>[i] = x
    OBVIOUS
<1> QED
    BY <1>1, <1>2 DEF Refused

Monotone(w, d) ==
    /\ \A i \in DOMAIN ReadCoordinate(w, d) : ReadCoordinate(w, d)[i] # NaN
    /\ OrderOf(ReadCoordinate(w, d)) # "unordered"

LEMMA RangeArgIs ==
    ASSUME NEW w, Shown(w), coord \in Coordinates, NEW a \in RangeArgs, a.label \in Dims,
           Monotone(w, a.label), a.start # a.stop
    PROVE  /\ RangeOk(w, a) <=> BetweenOf(ReadCoordinate(w, a.label), a) # {}
           /\ \A e \in Ends(ReadCoordinate(w, a.label), a) :
                 BetweenOf(ReadCoordinate(w, a.label), a) = e[1]..e[2]
<1> DEFINE d == a.label
           c == ReadCoordinate(w, d)
           L == Len(Axis(w, d).cells)
<1>1. d \in Dims /\ a.start \in Int /\ a.stop \in Int
    BY ValuesAssumption DEF RangeArgs
<1>2. L \in Nat /\ DOMAIN c = 1..L /\ c \in Seq(Values \cup {NaN}) /\ Len(c) = L
    BY CoordinateRead
<1>3. (\A i \in 1..L : c[i] # NaN) /\ OrderOf(c) # "unordered"
    BY <1>2 DEF Monotone
<1>4. RangeOk(w, a) <=> Ends(c, a) # {}
    BY <1>2, <1>3 DEF RangeOk
<1> HIDE DEF d, c, L
<1>5. \A i \in 1..L : c[i] \in Values \cup {NaN}
    BY <1>2, ElementOfSeq
<1>6. \A i \in 1..L : c[i] \in Int
    BY <1>3, <1>5, ValuesAssumption
<1>7. /\ BetweenOf(c, a) # {} <=> Ends(c, a) # {}
      /\ \A e \in Ends(c, a) : BetweenOf(c, a) = e[1]..e[2]
    BY <1>1, <1>2, <1>3, <1>6, MonotonicEndsAre
<1> QED
    BY <1>4, <1>7 DEF c, d

LEMMA RangeSliceIs ==
    ASSUME NEW w, Shown(w), coord \in Coordinates, NEW a, a.label \in Dims, RangeOk(w, a)
    PROVE  \E e \in Ends(ReadCoordinate(w, a.label), a) : \E x \in Descriptors :
              /\ e[1] \in Nat /\ e[2] \in Nat /\ 1 <= e[1] /\ e[1] <= e[2]
              /\ e[2] <= Len(w[{a.label}][a.label].cells)
              /\ RangeSlices(w, a) = <<x>> /\ x = RangeOn(a.label, w[{a.label}][a.label], e[1], e[2])
<1> DEFINE d == a.label
           axis == w[{d}][d]
           L == Len(axis.cells)
<1>1. Axis(w, d) = axis
    BY DEF Axis
<1>2. PICK e \in Ends(ReadCoordinate(w, d), a) :
          /\ e[1] \in 1..L /\ e[2] \in 1..L /\ e[1] <= e[2]
          /\ RangeSlices(w, a) = <<Descriptor(d, axis.origin + e[1] - 1, axis.origin + e[2])>>
          /\ Descriptor(d, axis.origin + e[1] - 1, axis.origin + e[2]) \in Descriptors
    BY <1>1, RangeIs
<1>3. L \in Nat
    BY <1>1, CoordinateRead
<1> DEFINE x == RangeOn(d, axis, e[1], e[2])
<1>4. x \in Descriptors /\ RangeSlices(w, a) = <<x>>
    BY <1>2 DEF RangeOn
<1> HIDE DEF x, axis, d, L
<1>5. e[1] \in Nat /\ e[2] \in Nat /\ 1 <= e[1] /\ e[1] <= e[2] /\ e[2] <= L
    BY <1>2, <1>3
<1>6. /\ e[1] \in Nat /\ e[2] \in Nat /\ 1 <= e[1] /\ e[1] <= e[2]
      /\ e[2] <= Len(axis.cells)
      /\ RangeSlices(w, a) = <<x>> /\ x = RangeOn(d, axis, e[1], e[2])
    BY <1>4, <1>5 DEF L, x
<1> QED
    BY <1>2, <1>4, <1>6 DEF axis, d

\* What a range selects of its dimension.
LEMMA RangeArgLeft ==
    ASSUME NEW w, Shown(w), coord \in Coordinates, NEW a \in RangeArgs, a.label \in Dims,
           Monotone(w, a.label), a.start # a.stop, RangeOk(w, a),
           NEW new, Axis(new, a.label) = Cut(w[{a.label}], a.label, RangeSlices(w, a))
    PROVE  Keeps(Axis(new, a.label).cells, Axis(w, a.label).cells,
                 BetweenOf(ReadCoordinate(w, a.label), a))
<1> DEFINE d == a.label
           domain == w[{d}]
           n == Size[d]
<1>1. PICK e \in Ends(ReadCoordinate(w, d), a), x \in Descriptors :
          /\ e[1] \in Nat /\ e[2] \in Nat /\ 1 <= e[1] /\ e[1] <= e[2]
          /\ e[2] <= Len(domain[d].cells)
          /\ RangeSlices(w, a) = <<x>> /\ x = RangeOn(d, domain[d], e[1], e[2])
    BY RangeSliceIs
<1>2. BetweenOf(ReadCoordinate(w, d), a) = e[1]..e[2]
    BY <1>1, RangeArgIs
<1>3. d \in DOMAIN domain /\ domain[d] \in Axes(n) /\ Axis(w, d) = domain[d]
    BY CoordinateVariable DEF Shown, Fits, Axis
<1>4. Axis(new, d) = Cut(domain, d, <<x>>)
    BY <1>1
<1> DEFINE from == e[1]
           to == e[2]
<1>5. /\ from \in Nat /\ to \in Nat /\ 1 <= from /\ from <= to /\ to <= Len(domain[d].cells)
      /\ x = RangeOn(d, domain[d], from, to)
    BY <1>1
<1> HIDE DEF d, domain, n, from, to
<1>6. Keeps(Cut(domain, d, <<x>>).cells, domain[d].cells, from..to)
    BY <1>3, <1>5, CutRange
<1>7. Keeps(Axis(new, d).cells, Axis(w, d).cells, BetweenOf(ReadCoordinate(w, d), a))
    BY <1>2, <1>3, <1>4, <1>6 DEF from, to
<1> QED
    BY <1>7 DEF d

AllMonotone(w, args) ==
    \A i \in DOMAIN args : Monotone(w, args[i].label) /\ args[i].start # args[i].stop

RangesExact(w, new, args) ==
    \A i \in DOMAIN args :
        /\ BetweenOf(ReadCoordinate(w, args[i].label), args[i]) # {}
        /\ Keeps(Axis(new, args[i].label).cells, Axis(w, args[i].label).cells,
                 BetweenOf(ReadCoordinate(w, args[i].label), args[i]))

LEMMA RangesLeft ==
    ASSUME IInv, NEW args \in Seq(RangeArgs), NEW r, r = Labelled(args, RangeOk, RangeSlices), r.ok,
           AllMonotone(view, args)
    PROVE  RangesExact(view, r.view, args)
<1> DEFINE E == RangeEntries(view, args)
           s == [i \in DOMAIN args |-> RangeSlices(view, args[i])]
<1>1. ValidLabels(args) /\ Selects(r, E) /\ \A i \in DOMAIN args : RangeOk(view, args[i])
    BY RangeResult
<1>2. MadeOf(E, args, s)
    BY <1>1, RangeMade
<1>3. Shown(view) /\ coord \in Coordinates /\ \A i \in DOMAIN args : args[i] \in RangeArgs
    BY LenProperties, ElementOfSeq DEF IInv
<1>4. ASSUME NEW i \in DOMAIN args
      PROVE  /\ s[i] = RangeSlices(view, args[i]) /\ args[i].label \in Dims
             /\ Len(s[i]) <= MaxSlices /\ s[i] # <<>>
    <2>1. args[i].label \in Dims /\ RangeOk(view, args[i])
        BY <1>1 DEF ValidLabels
    <2>2. s[i] = RangeSlices(view, args[i])
        OBVIOUS
    <2> HIDE DEF s
    <2>3. Len(s[i]) = 1 /\ s[i] # <<>>
        BY <1>3, <2>1, <2>2, RangeSlicesType
    <2> QED
        BY <2>1, <2>2, <2>3
<1> HIDE DEF s, E
<1>5. Len(<<>>) = 0 /\ 0 <= MaxSlices
    OBVIOUS
<1>6. \A d \in Dims : Len(E[d]) <= MaxSlices
    BY <1>2, <1>4, <1>5 DEF MadeOf
<1>7. ASSUME NEW i \in DOMAIN args
      PROVE  /\ BetweenOf(ReadCoordinate(view, args[i].label), args[i]) # {}
             /\ Keeps(Axis(r.view, args[i].label).cells, Axis(view, args[i].label).cells,
                      BetweenOf(ReadCoordinate(view, args[i].label), args[i]))
    <2> DEFINE a == args[i]
               d == a.label
               new == r.view
    <2>1. E[d] = s[i] /\ d \in Dims
        BY <1>2, <1>4 DEF MadeOf
    <2>2. E[d] # <<>> /\ E[d] = RangeSlices(view, a)
        BY <1>4, <2>1
    <2>3. Axis(r.view, d) = Cut(view[{d}], d, E[d])
        <3>1. d \in Dims /\ E[d] # <<>>
            BY <2>1, <2>2
        <3> HIDE DEF d
        <3> QED
            BY <1>1, <1>6, <3>1, SelectedAxis
    <2>4. /\ a \in RangeArgs /\ a.label \in Dims /\ RangeOk(view, a)
          /\ Monotone(view, a.label) /\ a.start # a.stop
          /\ Axis(new, a.label) = Cut(view[{a.label}], a.label, RangeSlices(view, a))
        BY <1>1, <1>3, <2>1, <2>2, <2>3 DEF AllMonotone
    <2> HIDE DEF a, new
    <2>5. BetweenOf(ReadCoordinate(view, a.label), a) # {}
        BY <1>3, <2>4, RangeArgIs
    <2>6. Keeps(Axis(new, a.label).cells, Axis(view, a.label).cells,
                BetweenOf(ReadCoordinate(view, a.label), a))
        BY <1>3, <2>4, RangeArgLeft
    <2> QED
        BY <2>5, <2>6 DEF a, new
<1> QED
    BY <1>7 DEF RangesExact

\* On variables that agree no range that contains samples is refused.
LEMMA RangesAccepted ==
    ASSUME IInv, Agree(view), NEW args \in Seq(RangeArgs), args # <<>>, ValidLabels(args),
           AllMonotone(view, args),
           \A i \in DOMAIN args : BetweenOf(ReadCoordinate(view, args[i].label), args[i]) # {},
           NEW r, r = Labelled(args, RangeOk, RangeSlices)
    PROVE  r.ok
<1> DEFINE E == RangeEntries(view, args)
           s == [i \in DOMAIN args |-> RangeSlices(view, args[i])]
           D == FlattenSeq(E)
<1>1. Shown(view) /\ coord \in Coordinates /\ \A i \in DOMAIN args : args[i] \in RangeArgs
    BY LenProperties, ElementOfSeq DEF IInv
<1>2. \A i \in DOMAIN args : RangeOk(view, args[i]) /\ args[i].label \in Dims
    BY <1>1, RangeArgIs DEF ValidLabels, AllMonotone
<1>3. r = IselVector(view, D) /\ Grouped(E, D)
    BY <1>2, RangeResult
<1>4. MadeOf(E, args, s)
    BY RangeMade
<1>5. ASSUME NEW i \in DOMAIN args
      PROVE  /\ s[i] = RangeSlices(view, args[i]) /\ args[i].label \in Dims
             /\ Len(s[i]) <= MaxSlices /\ s[i] # <<>>
    <2>1. s[i] = RangeSlices(view, args[i])
        OBVIOUS
    <2> HIDE DEF s
    <2>2. Len(s[i]) = 1 /\ s[i] # <<>>
        BY <1>1, <1>2, <2>1, RangeSlicesType
    <2> QED
        BY <1>2, <2>1, <2>2
<1> HIDE DEF s, E
<1>6. Len(<<>>) = 0 /\ 0 <= MaxSlices
    OBVIOUS
<1>7. \A d \in Dims : Len(E[d]) <= MaxSlices
    BY <1>4, <1>5, <1>6 DEF MadeOf
<1>8. SlicedByLabel(view, D, r)
    BY <1>3, <1>7, SelectedAxes
<1> HIDE DEF D
<1>9. D # <<>>
    <2>1. Len(args) # 0 /\ Len(args) \in Nat /\ DOMAIN args = 1..Len(args)
        BY EmptySeq, LenProperties
    <2>2. 1 \in DOMAIN args
        BY <2>1
    <2>3. E[args[1].label] # <<>> /\ args[1].label \in Dims
        BY <1>4, <1>5, <2>2 DEF MadeOf
    <2> QED
        BY <1>3, <2>3, GroupedSome
<1>10. ASSUME NEW v \in Variables, NEW d \in Labels PROVE ~Refused(view[v], Of(d, D))
    <2>1. CASE Of(d, D) = <<>>
        <3>1. ~\E i \in DOMAIN <<>> : TRUE
            OBVIOUS
        <3> QED
            BY <2>1, <3>1 DEF Refused
    <2>2. CASE Of(d, D) # <<>>
        <3>1. d \in Dims /\ Of(d, D) = E[d]
            BY <1>3, <2>2 DEF Grouped
        <3>2. PICK i \in DOMAIN args : args[i].label = d /\ E[d] = s[i]
            BY <1>4, <2>2, <3>1 DEF MadeOf
        <3> DEFINE domain == view[v]
                   axis == view[{d}][d]
        <3>3. PICK e \in Ends(ReadCoordinate(view, d), args[i]), x \in Descriptors :
                  /\ e[1] \in Nat /\ e[2] \in Nat /\ 1 <= e[1] /\ e[1] <= e[2]
                  /\ e[2] <= Len(axis.cells)
                  /\ RangeSlices(view, args[i]) = <<x>> /\ x = RangeOn(d, axis, e[1], e[2])
            BY <1>1, <1>2, <3>2, RangeSliceIs
        <3>4. Of(d, D) = <<x>>
            BY <1>5, <3>1, <3>2, <3>3
        <3>5. DOMAIN view[v] = v /\ \A y \in v : view[v][y] \in Axes(Size[y]) /\ view[v][y] = view[{y}][y]
            BY <1>1 DEF Shown, Fits, Agree, Axis
        <3>6. axis.origin \in Nat
            BY <1>1, <3>1, CoordinateRead
        <3> DEFINE from == e[1]
                   to == e[2]
                   n == Size[d]
        <3>7. /\ from \in Nat /\ to \in Nat /\ 1 <= from /\ from <= to /\ to <= Len(axis.cells)
              /\ x = RangeOn(d, axis, from, to)
            BY <3>3
        <3>8. d \in v => d \in DOMAIN domain /\ domain[d] \in Axes(n) /\ domain[d] = axis
            BY <3>5
        <3>9. d \notin v => d \notin DOMAIN domain
            BY <3>5
        <3> HIDE DEF from, to, n, domain, axis
        <3>10. CASE d \in v
            <4>1. ~Refused(domain, <<x>>)
                BY <3>7, <3>8, <3>10, CutRange
            <4> QED
                BY <3>4, <4>1 DEF domain
        <3>11. CASE d \notin v
            <4>1. x.label = d /\ x.start = axis.origin + from - 1 /\ x.stop = axis.origin + to
                BY <3>7 DEF RangeOn, Descriptor
            <4>2. ~(x.start > x.stop)
                BY <3>6, <3>7, <4>1
            <4>3. ~Refused(domain, <<x>>)
                BY <3>9, <3>11, <4>1, <4>2, RangeElsewhere
            <4> QED
                BY <3>4, <4>3 DEF domain
        <3> QED
            BY <3>10, <3>11
    <2> QED
        BY <2>1, <2>2
<1> QED
    BY <1>8, <1>9, <1>10 DEF SlicedByLabel

\* RangeContained of the call k, the dataset w and the coordinates co.
InRanges(k, w, co) ==
    (k.op = "range" /\ ValidLabels(k.args)) =>
        LET c(d) == ReadAt(co, k.before, d)
            Steady(d) == /\ \A i \in DOMAIN c(d) : c(d)[i] # NaN
                         /\ OrderOf(c(d)) # "unordered"
            Wanted == {d \in Dims : NamedIn(k.args, d) # {}}
        IN  (\A d \in Wanted : Steady(d) /\ \A a \in NamedIn(k.args, d) : a.start # a.stop) =>
                /\ (Agree(k.before) /\ \A d \in Wanted : \A a \in NamedIn(k.args, d) : BetweenOf(c(d), a) # {})
                      => k.ok
                /\ k.ok => \A d \in Wanted : \A a \in NamedIn(k.args, d) :
                       /\ BetweenOf(c(d), a) # {}
                       /\ Keeps(Axis(w, d).cells, Axis(k.before, d).cells, BetweenOf(c(d), a))

LEMMA InRangesIs ==
    /\ RangeContained <=> InRanges(call, view, coord)
    /\ RangeContained' <=> InRanges(call', view', coord')
BY DEF RangeContained, InRanges, Asked, NamedIn, ReadCoordinate, ReadAt, Axis, Agree, BetweenOf, Keeps

LEMMA ContainedStep == ASSUME IInv, Next PROVE RangeContained'
<1> DEFINE Named(d) == NamedIn(call'.args, d)
           c(d) == ReadAt(coord', call'.before, d)
           Wanted == {d \in Dims : Named(d) # {}}
<1> SUFFICES ASSUME call'.op = "range", ValidLabels(call'.args),
                    \A d \in Wanted : /\ \A i \in DOMAIN c(d) : c(d)[i] # NaN
                                      /\ OrderOf(c(d)) # "unordered"
                                      /\ \A a \in Named(d) : a.start # a.stop
             PROVE  /\ (Agree(call'.before) /\ \A d \in Wanted : \A a \in Named(d) : BetweenOf(c(d), a) # {})
                          => call'.ok
                    /\ call'.ok => \A d \in Wanted : \A a \in Named(d) :
                           /\ BetweenOf(c(d), a) # {}
                           /\ Keeps(Axis(view', d).cells, Axis(call'.before, d).cells, BetweenOf(c(d), a))
    BY InRangesIs DEF InRanges
<1>1. SelRange
    BY NextOp
<1>2. PICK args \in Seq(RangeArgs) :
          args # <<>> /\ SelStep("range", args, Labelled(args, RangeOk, RangeSlices))
    BY <1>1, RangeStep
<1> DEFINE r == Labelled(args, RangeOk, RangeSlices)
<1>3. r = Labelled(args, RangeOk, RangeSlices)
    OBVIOUS
<1> HIDE DEF r
<1>4. /\ call'.ok = r.ok /\ call'.before = view /\ call'.args = args /\ coord' = coord
      /\ r.ok => view' = r.view
    BY <1>2 DEF SelStep, r
<1>5. \A d : c(d) = ReadCoordinate(view, d)
    BY <1>4, ReadIs
<1>6. ValidLabels(args)
    BY <1>4
<1>7. \A i \in DOMAIN args : args[i].label \in Wanted /\ args[i] \in Named(args[i].label)
    BY <1>4, <1>6 DEF NamedIn, ValidLabels
<1>8. \A d : \A a \in Named(d) : \E i \in DOMAIN args : args[i].label = d /\ a = args[i]
    BY <1>4 DEF NamedIn
<1> HIDE DEF c, Wanted, Named
<1>9. AllMonotone(view, args)
    BY <1>5, <1>7 DEF AllMonotone, Monotone
<1>10. ASSUME Agree(call'.before), \A d \in Wanted : \A a \in Named(d) : BetweenOf(c(d), a) # {}
       PROVE  call'.ok
    <2>1. \A i \in DOMAIN args : BetweenOf(ReadCoordinate(view, args[i].label), args[i]) # {}
        BY <1>5, <1>7, <1>10
    <2> QED
        BY <1>2, <1>3, <1>4, <1>6, <1>9, <1>10, <2>1, RangesAccepted
<1>11. ASSUME call'.ok, NEW d \in Wanted, NEW a \in Named(d)
       PROVE  /\ BetweenOf(c(d), a) # {}
              /\ Keeps(Axis(view', d).cells, Axis(call'.before, d).cells, BetweenOf(c(d), a))
    <2>1. RangesExact(view, view', args)
        BY <1>3, <1>4, <1>9, <1>11, RangesLeft
    <2>2. PICK i \in DOMAIN args : args[i].label = d /\ a = args[i]
        BY <1>8
    <2> QED
        BY <1>4, <1>5, <2>1, <2>2 DEF RangesExact
<1> QED
    BY <1>10, <1>11

\* A range of an increasing or decreasing coordinate selects exactly the
\* samples between its endpoints, and is an error only if there are none or
\* the variables do not agree.
THEOREM RangesContained == Spec => []RangeContained
<1>1. Init => RangeContained
    BY DEF Init, RangeContained
<1>2. IInv /\ RangeContained /\ [Next]_vars => RangeContained'
    <2> SUFFICES ASSUME IInv, RangeContained, [Next]_vars PROVE RangeContained'
        OBVIOUS
    <2>1. CASE Next
        BY <2>1, ContainedStep
    <2>2. CASE UNCHANGED vars
        BY <2>2, InRangesIs DEF vars
    <2> QED
        BY <2>1, <2>2
<1> QED
    BY <1>1, <1>2, SpecInv, PTL DEF Spec
=============================================================================
