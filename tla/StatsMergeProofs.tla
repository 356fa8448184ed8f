-------------------------- MODULE StatsMergeProofs --------------------------
(***************************************************************************)
(* For every variable, any number of callers and any order in which their  *)
(* partials arrive, what MergeStats returns is about the whole variable.   *)
(* Sums and extrema are folds over sets: what is needed of them is proved  *)
(* by a smallest counterexample.                                           *)
(***************************************************************************)
EXTENDS StatsMerge, FiniteSetTheorems, WellFoundedInduction, TLAPS

-----------------------------------------------------------------------------
(* Smallest sets *)

LEMMA Smallest ==
    ASSUME NEW C, C # {}, \A s \in C : IsFiniteSet(s)
    PROVE  \E s \in C : \A t \in C : Cardinality(s) <= Cardinality(t)
<1> DEFINE R == {ss \in Nat \X Nat : ss[1] < ss[2]}
           T == {Cardinality(s) : s \in C}
<1>1. IsWellFoundedOn(R, Nat)
  BY NatLessThanWellFounded DEF OpToRel
<1>2. T \subseteq Nat /\ T # {}
  BY FS_CardinalityType
<1>3. PICK x \in T : \A y \in T : ~(<<y, x>> \in R)
  <2> HIDE DEF R, T
  <2> QED
    BY <1>1, <1>2, WFMin
<1>4. ASSUME NEW y \in T PROVE x <= y
  <2>1. x \in Nat /\ y \in Nat /\ ~(<<y, x>> \in R)
    BY <1>2, <1>3, <1>4
  <2> QED
    BY <2>1
<1>5. PICK s \in C : x = Cardinality(s)
  OBVIOUS
<1>6. \A t \in C : Cardinality(t) \in T
  OBVIOUS
<1> QED
  BY <1>4, <1>5, <1>6

\* What holds of a set as soon as it holds of all that lack one of its elements holds of all.
LEMMA Removing ==
    ASSUME NEW S, IsFiniteSet(S), NEW Good,
           \A s \in SUBSET S : (\A x \in s : s \ {x} \in Good) => s \in Good
    PROVE  \A s \in SUBSET S : s \in Good
<1> DEFINE Bad == {s \in SUBSET S : s \notin Good}
<1>1. SUFFICES ASSUME Bad # {} PROVE FALSE
  OBVIOUS
<1>2. \A s \in Bad : IsFiniteSet(s)
  BY FS_Subset
<1>3. PICK s \in Bad : \A t \in Bad : Cardinality(s) <= Cardinality(t)
  <2> HIDE DEF Bad
  <2> QED
    BY <1>1, <1>2, Smallest
<1>4. PICK x \in s : s \ {x} \notin Good
  BY <1>3
<1>5. s \ {x} \in Bad
  BY <1>4
<1>6. Cardinality(s \ {x}) = Cardinality(s) - 1 /\ Cardinality(s) \in Nat
  BY <1>2, <1>3, <1>4, FS_RemoveElement, FS_CardinalityType
<1> QED
  BY <1>3, <1>5, <1>6

LEMMA CardDisjoint ==
    ASSUME NEW S, IsFiniteSet(S), NEW T, IsFiniteSet(T), S \cap T = {}
    PROVE  Cardinality(S \cup T) = Cardinality(S) + Cardinality(T)
<1>1. Cardinality(S \cup T) = Cardinality(S) + Cardinality(T) - Cardinality(S \cap T)
  BY FS_Union
<1>2. Cardinality(S \cap T) = 0 /\ Cardinality(S) \in Nat /\ Cardinality(T) \in Nat
  BY FS_EmptySet, FS_CardinalityType
<1> QED
  BY <1>1, <1>2

-----------------------------------------------------------------------------
(* Sums *)

Pick(s) == CHOOSE x \in s : TRUE

Sum(f, S) == MapThenSumSet(LAMBDA c : f[c], S)

\* The function by which a sum is computed.
Iterates(g, f, S) ==
    g = [s \in SUBSET S |-> IF s = {} THEN 0 ELSE f[Pick(s)] + g[s \ {Pick(s)}]]

LEMMA PickIn ==
    ASSUME NEW s, s # {}
    PROVE  Pick(s) \in s
BY DEF Pick

LEMMA SumIs ==
    ASSUME NEW f, NEW S
    PROVE  Sum(f, S) = (CHOOSE g : Iterates(g, f, S))[S]
<1>1. \A g : Iterates(g, f, S) <=>
         g = [s \in SUBSET S |-> IF s = {} THEN 0
                                 ELSE f[CHOOSE x \in s : TRUE] + g[s \ {CHOOSE x \in s : TRUE}]]
  BY DEF Iterates, Pick
<1> QED
  BY DEF Sum, MapThenSumSet, MapThenFoldSet, Iterates, Pick

\* Where two of them are defined they agree.
LEMMA IteratesAgree ==
    ASSUME NEW f, NEW S, NEW g, Iterates(g, f, S), NEW T, NEW h, Iterates(h, f, T),
           NEW U, U \subseteq S, U \subseteq T, IsFiniteSet(U)
    PROVE  g[U] = h[U]
<1> DEFINE Good == {s \in SUBSET U : g[s] = h[s]}
<1>1. ASSUME NEW s \in SUBSET U, \A x \in s : s \ {x} \in Good PROVE s \in Good
  <2>1. s \in SUBSET S /\ s \in SUBSET T
    OBVIOUS
  <2>2. /\ g[s] = IF s = {} THEN 0 ELSE f[Pick(s)] + g[s \ {Pick(s)}]
        /\ h[s] = IF s = {} THEN 0 ELSE f[Pick(s)] + h[s \ {Pick(s)}]
    BY <2>1 DEF Iterates
  <2>3. s # {} => g[s \ {Pick(s)}] = h[s \ {Pick(s)}]
    BY <1>1, PickIn
  <2> QED
    BY <1>1, <2>2, <2>3
<1>2. \A s \in SUBSET U : s \in Good
  <2> HIDE DEF Good
  <2> QED
    BY <1>1, Removing
<1> QED
  BY <1>2

LEMMA IteratesExists ==
    ASSUME NEW f, NEW S, IsFiniteSet(S)
    PROVE  \E g : Iterates(g, f, S)
<1> DEFINE Good == {s \in SUBSET S : \E g : Iterates(g, f, s)}
<1>1. ASSUME NEW U \in SUBSET S, \A x \in U : U \ {x} \in Good PROVE U \in Good
  <2> DEFINE g == [s \in SUBSET U |-> IF s = {} THEN 0 ELSE f[Pick(s)] + Sum(f, s \ {Pick(s)})]
  <2>0. ASSUME NEW V \in SUBSET U, V # U
        PROVE  IsFiniteSet(V) /\ Iterates(CHOOSE h : Iterates(h, f, V), f, V)
    <3>1. PICK x \in U : V \subseteq U \ {x}
      BY <2>0
    <3>2. PICK h : Iterates(h, f, U \ {x})
      BY <1>1
    <3> DEFINE k == [s \in SUBSET V |-> h[s]]
    <3>3. ASSUME NEW s \in SUBSET V PROVE k[s] = IF s = {} THEN 0 ELSE f[Pick(s)] + k[s \ {Pick(s)}]
      <4>1. s \in SUBSET (U \ {x}) /\ s \ {Pick(s)} \in SUBSET V
        BY <3>1
      <4>2. h[s] = IF s = {} THEN 0 ELSE f[Pick(s)] + h[s \ {Pick(s)}]
        BY <3>2, <4>1 DEF Iterates
      <4> QED
        BY <4>1, <4>2
    <3>4. Iterates(k, f, V)
      BY <3>3 DEF Iterates
    <3>5. IsFiniteSet(V)
      BY FS_Subset
    <3> HIDE DEF k
    <3> QED
      BY <3>4, <3>5
  <2>1. ASSUME NEW s \in SUBSET U, s # {} PROVE g[s \ {Pick(s)}] = Sum(f, s \ {Pick(s)})
    <3> DEFINE r == s \ {Pick(s)}
               h == CHOOSE k : Iterates(k, f, r)
               q == r \ {Pick(r)}
               j == CHOOSE k : Iterates(k, f, q)
    <3>1. r \in SUBSET U /\ r # U /\ q \in SUBSET U /\ q # U /\ q \subseteq r
      BY <2>1, PickIn
    <3>2. Iterates(h, f, r) /\ Iterates(j, f, q) /\ IsFiniteSet(q)
      BY <2>0, <3>1
    <3>3. Sum(f, r) = h[r] /\ Sum(f, q) = j[q]
      BY SumIs
    <3>4. g[r] = IF r = {} THEN 0 ELSE f[Pick(r)] + Sum(f, q)
      BY <3>1
    <3> HIDE DEF g, h, j
    <3>5. h[q] = j[q]
      BY <3>1, <3>2, IteratesAgree
    <3>6. h[r] = IF r = {} THEN 0 ELSE f[Pick(r)] + h[q]
      BY <3>2 DEF Iterates
    <3> QED
      BY <3>3, <3>4, <3>5, <3>6
  <2>2. Iterates(g, f, U)
    BY <2>1 DEF Iterates
  <2> HIDE DEF g
  <2> QED
    BY <2>2
<1>2. S \in Good
  <2> HIDE DEF Good
  <2> QED
    BY <1>1, Removing
<1> QED
  BY <1>2

LEMMA SumStep ==
    ASSUME NEW f, NEW S, IsFiniteSet(S)
    PROVE  Sum(f, S) = IF S = {} THEN 0 ELSE f[Pick(S)] + Sum(f, S \ {Pick(S)})
<1> DEFINE g == CHOOSE k : Iterates(k, f, S)
           r == S \ {Pick(S)}
           h == CHOOSE k : Iterates(k, f, r)
<1>1. IsFiniteSet(r) /\ r \subseteq S
  BY FS_Subset
<1>2. Iterates(g, f, S) /\ Iterates(h, f, r)
  BY <1>1, IteratesExists
<1>3. Sum(f, S) = g[S] /\ Sum(f, r) = h[r]
  BY SumIs
<1> HIDE DEF g, h
<1>4. g[r] = h[r]
  BY <1>1, <1>2, IteratesAgree
<1>5. g[S] = IF S = {} THEN 0 ELSE f[Pick(S)] + g[r]
  BY <1>2 DEF Iterates
<1> QED
  BY <1>3, <1>4, <1>5

LEMMA SumEmpty ==
    ASSUME NEW f
    PROVE  Sum(f, {}) = 0
BY SumStep, FS_EmptySet

LEMMA SumInt ==
    ASSUME NEW f, NEW S, IsFiniteSet(S), \A x \in S : f[x] \in Int
    PROVE  Sum(f, S) \in Int
<1> DEFINE Good == {s \in SUBSET S : Sum(f, s) \in Int}
<1>1. ASSUME NEW s \in SUBSET S, \A x \in s : s \ {x} \in Good PROVE s \in Good
  <2>1. IsFiniteSet(s)
    BY FS_Subset
  <2>2. Sum(f, s) = IF s = {} THEN 0 ELSE f[Pick(s)] + Sum(f, s \ {Pick(s)})
    BY <2>1, SumStep
  <2>3. s # {} => Pick(s) \in s
    BY PickIn
  <2> QED
    BY <1>1, <2>2, <2>3
<1>2. \A s \in SUBSET S : s \in Good
  <2> HIDE DEF Good
  <2> QED
    BY <1>1, Removing
<1> QED
  BY <1>2

\* Any element may be the first.
LEMMA SumRemove ==
    ASSUME NEW f, NEW S, IsFiniteSet(S), \A x \in S : f[x] \in Int, NEW y \in S
    PROVE  Sum(f, S) = f[y] + Sum(f, S \ {y})
<1> DEFINE Good == {s \in SUBSET S : \A z \in s : Sum(f, s) = f[z] + Sum(f, s \ {z})}
<1>1. ASSUME NEW s \in SUBSET S, \A x \in s : s \ {x} \in Good PROVE s \in Good
  <2>1. SUFFICES ASSUME NEW z \in s PROVE Sum(f, s) = f[z] + Sum(f, s \ {z})
    OBVIOUS
  <2> DEFINE x == Pick(s)
  <2>2. x \in s /\ Sum(f, s) = f[x] + Sum(f, s \ {x})
    <3>1. IsFiniteSet(s) /\ s # {}
      BY <2>1, FS_Subset
    <3> QED
      BY <3>1, SumStep, PickIn
  <2> HIDE DEF x
  <2>3. CASE x = z
    BY <2>2, <2>3
  <2>4. CASE x # z
    <3>1. (s \ {x}) \ {z} = (s \ {z}) \ {x}
      OBVIOUS
    <3>2. Sum(f, s \ {x}) = f[z] + Sum(f, (s \ {x}) \ {z})
      BY <1>1, <2>1, <2>2, <2>4
    <3>3. Sum(f, s \ {z}) = f[x] + Sum(f, (s \ {z}) \ {x})
      BY <1>1, <2>1, <2>2, <2>4
    <3>4. Sum(f, (s \ {x}) \ {z}) \in Int
      <4>1. IsFiniteSet((s \ {x}) \ {z})
        BY FS_Subset
      <4> QED
        BY <4>1, SumInt
    <3>5. f[x] \in Int /\ f[z] \in Int
      BY <2>1, <2>2
    <3> DEFINE fx == f[x]
               fz == f[z]
               rest == Sum(f, (s \ {x}) \ {z})
    <3>6. /\ fx \in Int /\ fz \in Int /\ rest \in Int
          /\ Sum(f, s) = fx + (fz + rest) /\ Sum(f, s \ {z}) = fx + rest
      BY <2>2, <3>1, <3>2, <3>3, <3>4, <3>5
    <3>7. Sum(f, s) = fz + Sum(f, s \ {z})
      <4> HIDE DEF fx, fz, rest
      <4> QED
        BY <3>6
    <3> QED
      BY <3>7
  <2> QED
    BY <2>3, <2>4
<1>2. \A s \in SUBSET S : s \in Good
  <2> HIDE DEF Good
  <2> QED
    BY <1>1, Removing
<1> QED
  BY <1>2

LEMMA SumDisjoint ==
    ASSUME NEW f, NEW S, IsFiniteSet(S), \A x \in S : f[x] \in Int,
           NEW T, IsFiniteSet(T), \A x \in T : f[x] \in Int, S \cap T = {}
    PROVE  Sum(f, S \cup T) = Sum(f, S) + Sum(f, T)
<1> DEFINE Good == {s \in SUBSET S : Sum(f, s \cup T) = Sum(f, s) + Sum(f, T)}
<1>1. ASSUME NEW s \in SUBSET S, \A x \in s : s \ {x} \in Good PROVE s \in Good
  <2>1. IsFiniteSet(s) /\ IsFiniteSet(s \cup T)
    BY FS_Subset, FS_Union
  <2>2. Sum(f, s) \in Int /\ Sum(f, T) \in Int
    BY <2>1, SumInt
  <2>3. CASE s = {}
    BY <2>2, <2>3, SumEmpty
  <2>4. CASE s # {}
    <3>1. PICK x \in s : TRUE
      BY <2>4
    <3>2. (s \cup T) \ {x} = (s \ {x}) \cup T
      BY <3>1
    <3>3. Sum(f, s \cup T) = f[x] + Sum(f, (s \cup T) \ {x})
      BY <2>1, <3>1, SumRemove
    <3>4. Sum(f, s) = f[x] + Sum(f, s \ {x})
      BY <2>1, <3>1, SumRemove
    <3>5. Sum(f, (s \ {x}) \cup T) = Sum(f, s \ {x}) + Sum(f, T)
      BY <1>1, <3>1
    <3>6. Sum(f, s \ {x}) \in Int /\ f[x] \in Int
      <4>1. IsFiniteSet(s \ {x})
        BY FS_Subset
      <4> QED
        BY <3>1, <4>1, SumInt
    <3>7. Sum(f, s \cup T) = Sum(f, s) + Sum(f, T)
      <4> DEFINE fx == f[x]
                 rest == Sum(f, s \ {x})
                 other == Sum(f, T)
      <4>1. /\ fx \in Int /\ rest \in Int /\ other \in Int
            /\ Sum(f, s \cup T) = fx + (rest + other) /\ Sum(f, s) = fx + rest
        BY <2>2, <3>2, <3>3, <3>4, <3>5, <3>6
      <4> HIDE DEF fx, rest, other
      <4>2. Sum(f, s \cup T) = Sum(f, s) + other
        BY <4>1
      <4> QED
        BY <4>2 DEF other
    <3> QED
      BY <3>7
  <2> QED
    BY <2>3, <2>4
<1>2. \A s \in SUBSET S : s \in Good
  <2> HIDE DEF Good
  <2> QED
    BY <1>1, Removing
<1> QED
  BY <1>2

\* Sorting the members of a set into bins and adding up the bins counts what is in one of them.
At(cells, b, I) == {c \in cells : b[c] \in I}

LEMMA CountSum ==
    ASSUME NEW cells, IsFiniteSet(cells), NEW b, NEW I, IsFiniteSet(I),
           NEW f, \A i \in I : f[i] = Cardinality(At(cells, b, {i}))
    PROVE  Sum(f, I) = Cardinality(At(cells, b, I))
<1> USE DEF At
<1> DEFINE In(s) == At(cells, b, s)
           Good == {s \in SUBSET I : Sum(f, s) = Cardinality(In(s))}
<1>0. ASSUME NEW s PROVE IsFiniteSet(In(s)) /\ Cardinality(In(s)) \in Nat
  BY FS_Subset, FS_CardinalityType
<1>1. ASSUME NEW s \in SUBSET I, \A x \in s : s \ {x} \in Good PROVE s \in Good
  <2>1. CASE s = {}
    BY <2>1, SumEmpty, FS_EmptySet
  <2>2. CASE s # {}
    <3>1. PICK x \in s : TRUE
      BY <2>2
    <3>2. f[x] = Cardinality(In({x}))
      BY <3>1
    <3>3. \A i \in s : f[i] \in Int
      <4>1. SUFFICES ASSUME NEW i \in s PROVE f[i] \in Int
        OBVIOUS
      <4>2. f[i] = Cardinality(In({i}))
        BY <4>1
      <4>3. Cardinality(In({i})) \in Nat
        BY <1>0
      <4> QED
        BY <4>2, <4>3
    <3>4. Sum(f, s) = f[x] + Sum(f, s \ {x})
      <4>1. IsFiniteSet(s)
        BY FS_Subset
      <4> QED
        BY <3>1, <3>3, <4>1, SumRemove
    <3>5. In(s) = In({x}) \cup In(s \ {x}) /\ In({x}) \cap In(s \ {x}) = {}
      BY <3>1
    <3>6. Cardinality(In(s)) = Cardinality(In({x})) + Cardinality(In(s \ {x}))
      <4> DEFINE A == In({x})
                 B == In(s \ {x})
      <4>1. IsFiniteSet(A) /\ IsFiniteSet(B) /\ A \cap B = {}
        BY <1>0, <3>5
      <4>2. Cardinality(A \cup B) = Cardinality(A) + Cardinality(B)
        <5> HIDE DEF A, B
        <5> QED
          BY <4>1, CardDisjoint
      <4> QED
        BY <3>5, <4>2
    <3>7. Sum(f, s \ {x}) = Cardinality(In(s \ {x}))
      BY <1>1, <3>1
    <3> QED
      BY <3>2, <3>4, <3>6, <3>7
  <2> QED
    BY <2>1, <2>2
<1>2. \A s \in SUBSET I : s \in Good
  <2> HIDE DEF Good
  <2> QED
    BY <1>1, Removing
<1> QED
  BY <1>2

-----------------------------------------------------------------------------
(* Extrema *)

Low(f, S)  == Min({f[c] : c \in S})
High(f, S) == Max({f[c] : c \in S})

LEMMA Extremes ==
    ASSUME NEW S, IsFiniteSet(S), S # {}, NEW f, \A x \in S : f[x] \in Int
    PROVE  /\ \E x \in S : \A y \in S : f[x] <= f[y]
           /\ \E x \in S : \A y \in S : f[y] <= f[x]
<1> DEFINE Good == {s \in SUBSET S : s # {} => /\ \E x \in s : \A y \in s : f[x] <= f[y]
                                               /\ \E x \in s : \A y \in s : f[y] <= f[x]}
<1>1. ASSUME NEW s \in SUBSET S, \A x \in s : s \ {x} \in Good PROVE s \in Good
  <2>1. SUFFICES ASSUME s # {}
                 PROVE  /\ \E x \in s : \A y \in s : f[x] <= f[y]
                        /\ \E x \in s : \A y \in s : f[y] <= f[x]
    OBVIOUS
  <2>2. PICK z \in s : TRUE
    BY <2>1
  <2>3. f[z] \in Int /\ \A y \in s : f[y] \in Int
    BY <2>2
  <2>4. CASE s \ {z} = {}
    <3>1. \A y \in s : y = z
      BY <2>4
    <3> QED
      BY <2>2, <2>3, <3>1
  <2>5. CASE s \ {z} # {}
    <3>1. /\ \E x \in s \ {z} : \A y \in s \ {z} : f[x] <= f[y]
          /\ \E x \in s \ {z} : \A y \in s \ {z} : f[y] <= f[x]
      BY <1>1, <2>2, <2>5
    <3>2. PICK u \in s \ {z} : \A y \in s \ {z} : f[u] <= f[y]
      BY <3>1
    <3>3. PICK v \in s \ {z} : \A y \in s \ {z} : f[y] <= f[v]
      BY <3>1
    <3>4. \E x \in s : \A y \in s : f[x] <= f[y]
      <4>1. CASE f[u] <= f[z]
        BY <2>3, <3>2, <4>1
      <4>2. CASE ~(f[u] <= f[z])
        BY <2>2, <2>3, <3>2, <4>2
      <4> QED
        BY <4>1, <4>2
    <3>5. \E x \in s : \A y \in s : f[y] <= f[x]
      <4>1. CASE f[z] <= f[v]
        BY <2>3, <3>3, <4>1
      <4>2. CASE ~(f[z] <= f[v])
        BY <2>2, <2>3, <3>3, <4>2
      <4> QED
        BY <4>1, <4>2
    <3> QED
      BY <3>4, <3>5
  <2> QED
    BY <2>4, <2>5
<1>2. \A s \in SUBSET S : s \in Good
  <2> HIDE DEF Good
  <2> QED
    BY <1>1, Removing
<1> QED
  BY <1>2

LEMMA LowHigh ==
    ASSUME NEW S, IsFiniteSet(S), S # {}, NEW f, \A x \in S : f[x] \in Int
    PROVE  /\ Low(f, S) \in Int /\ High(f, S) \in Int
           /\ \E x \in S : f[x] = Low(f, S)
           /\ \E x \in S : f[x] = High(f, S)
           /\ \A y \in S : Low(f, S) <= f[y] /\ f[y] <= High(f, S)
<1> DEFINE V == {f[c] : c \in S}
<1>1. PICK u \in S : \A y \in S : f[u] <= f[y]
  BY Extremes
<1>2. PICK v \in S : \A y \in S : f[y] <= f[v]
  BY Extremes
<1>3. Low(f, S) \in V /\ \A y \in V : Low(f, S) <= y
  <2>1. \E x \in V : \A y \in V : x <= y
    BY <1>1
  <2> QED
    BY <2>1 DEF Low, Min
<1>4. High(f, S) \in V /\ \A y \in V : High(f, S) >= y
  <2>1. \E x \in V : \A y \in V : x >= y
    <3>1. \A y \in S : f[y] \in Int
      OBVIOUS
    <3>2. \A y \in S : f[v] >= f[y]
      BY <1>2, <3>1
    <3> QED
      BY <3>2
  <2> QED
    BY <2>1 DEF High, Max
<1> QED
  BY <1>3, <1>4

\* A bound that is reached is the extremum.
LEMMA LowHighUnique ==
    ASSUME NEW S, IsFiniteSet(S), S # {}, NEW f, \A x \in S : f[x] \in Int, NEW z \in S
    PROVE  /\ (\A y \in S : f[z] <= f[y]) => Low(f, S) = f[z]
           /\ (\A y \in S : f[y] <= f[z]) => High(f, S) = f[z]
<1>1. PICK u \in S : f[u] = Low(f, S)
  BY LowHigh
<1>2. PICK v \in S : f[v] = High(f, S)
  BY LowHigh
<1>3. Low(f, S) <= f[z] /\ f[z] <= High(f, S) /\ Low(f, S) \in Int /\ High(f, S) \in Int
  BY LowHigh
<1> QED
  BY <1>1, <1>2, <1>3

LEMMA LowUnion ==
    ASSUME NEW S, IsFiniteSet(S), S # {}, NEW T, IsFiniteSet(T), T # {},
           NEW f, \A x \in S \cup T : f[x] \in Int
    PROVE  Low(f, S \cup T) = IF Low(f, T) < Low(f, S) THEN Low(f, T) ELSE Low(f, S)
<1>1. IsFiniteSet(S \cup T) /\ S \cup T # {}
  BY FS_Union
<1>2. PICK u \in S : f[u] = Low(f, S) /\ \A y \in S : Low(f, S) <= f[y]
  BY LowHigh
<1>3. PICK v \in T : f[v] = Low(f, T) /\ \A y \in T : Low(f, T) <= f[y]
  BY LowHigh
<1>4. Low(f, S) \in Int /\ Low(f, T) \in Int
  BY <1>2, <1>3
<1>5. CASE Low(f, T) < Low(f, S)
  <2>1. \A y \in S \cup T : f[v] <= f[y]
    BY <1>2, <1>3, <1>4, <1>5
  <2> QED
    BY <1>1, <1>3, <1>5, <2>1, LowHighUnique
<1>6. CASE ~(Low(f, T) < Low(f, S))
  <2>1. \A y \in S \cup T : f[u] <= f[y]
    BY <1>2, <1>3, <1>4, <1>6
  <2> QED
    BY <1>1, <1>2, <1>6, <2>1, LowHighUnique
<1> QED
  BY <1>5, <1>6

LEMMA HighUnion ==
    ASSUME NEW S, IsFiniteSet(S), S # {}, NEW T, IsFiniteSet(T), T # {},
           NEW f, \A x \in S \cup T : f[x] \in Int
    PROVE  High(f, S \cup T) = IF High(f, T) > High(f, S) THEN High(f, T) ELSE High(f, S)
<1>1. IsFiniteSet(S \cup T) /\ S \cup T # {}
  BY FS_Union
<1>2. PICK u \in S : f[u] = High(f, S) /\ \A y \in S : f[y] <= High(f, S)
  BY LowHigh
<1>3. PICK v \in T : f[v] = High(f, T) /\ \A y \in T : f[y] <= High(f, T)
  BY LowHigh
<1>4. High(f, S) \in Int /\ High(f, T) \in Int
  BY <1>2, <1>3
<1>5. CASE High(f, T) > High(f, S)
  <2>1. \A y \in S \cup T : f[y] <= f[v]
    BY <1>2, <1>3, <1>4, <1>5
  <2> QED
    BY <1>1, <1>3, <1>5, <2>1, LowHighUnique
<1>6. CASE ~(High(f, T) > High(f, S))
  <2>1. \A y \in S \cup T : f[y] <= f[u]
    BY <1>2, <1>3, <1>4, <1>6
  <2> QED
    BY <1>1, <1>2, <1>6, <2>1, LowHighUnique
<1> QED
  BY <1>5, <1>6

-----------------------------------------------------------------------------
(* Bins *)

Ordered(b) == \A i \in 1..(Len(b) - 1) : b[i] < b[i + 1]

IsBins(b) == b \in Seq(Int) /\ b # <<>> /\ Ordered(b)

LEMMA Increasing ==
    ASSUME NEW b, b \in Seq(Int), Ordered(b), NEW i \in 1..Len(b), NEW j \in 1..Len(b), i < j
    PROVE  b[i] < b[j]
<1> DEFINE Bad == {k \in 1..Len(b) : i < k /\ ~(b[i] < b[k])}
           f == [k \in Bad |-> k]
<1>0. Len(b) \in Nat /\ \A k \in 1..Len(b) : b[k] \in Int
  OBVIOUS
<1>1. SUFFICES ASSUME Bad # {} PROVE FALSE
  OBVIOUS
<1>2. IsFiniteSet(Bad)
  <2>1. IsFiniteSet(1..Len(b))
    BY <1>0, FS_Interval
  <2> QED
    BY <2>1, FS_Subset
<1>3. PICK k \in Bad : \A m \in Bad : f[k] <= f[m]
  <2>1. \A x \in Bad : f[x] \in Int
    OBVIOUS
  <2> HIDE DEF Bad, f
  <2> QED
    BY <1>1, <1>2, <2>1, Extremes
<1>4. \A m \in Bad : k <= m
  BY <1>3
<1>5. k - 1 \in 1..Len(b) /\ i <= k - 1 /\ k - 1 \notin Bad
  BY <1>0, <1>4
<1>6. b[k - 1] < b[k]
  BY <1>0, <1>5 DEF Ordered
<1>7. b[i] <= b[k - 1]
  BY <1>0, <1>5
<1> QED
  BY <1>0, <1>5, <1>6, <1>7

LEMMA ScaledInt ==
    ASSUME NEW x \in Int
    PROVE  Scaled(x) \in Int
BY LimitsAssumption DEF Scaled

LEMMA ScaledMonotonic ==
    ASSUME NEW x \in Int, NEW y \in Int, x < y
    PROVE  Scaled(x) < Scaled(y)
<1> DEFINE n == 2 * BinCount
           d == y - x
<1>1. n \in Nat /\ n > 0 /\ d \in Nat /\ d > 0
  BY LimitsAssumption
<1>2. n * d > 0 /\ n * d \in Int /\ n * x \in Int
  <2> HIDE DEF n, d
  <2> QED
    BY <1>1
<1>3. n * y = n * x + n * d
  <2>1. y = x + d
    OBVIOUS
  <2> HIDE DEF n, d
  <2> QED
    BY <1>1, <2>1
<1>4. n * x < n * y
  <2> HIDE DEF n, d
  <2> QED
    BY <1>2, <1>3
<1> QED
  BY <1>4 DEF Scaled

LEMMA UniformOrdered ==
    ASSUME NEW lo \in Int, NEW hi \in Int, lo < hi
    PROVE  IsBins(UniformBinCenters(lo, hi)) /\ Len(UniformBinCenters(lo, hi)) = BinCount
<1> DEFINE b == UniformBinCenters(lo, hi)
           at == Scaled(lo)
           d == hi - lo
<1>1. BinCount \in Nat /\ BinCount >= 1 /\ at \in Int /\ d \in Nat /\ d > 0
  BY LimitsAssumption, ScaledInt
<1>2. b = [i \in 1..BinCount |-> at + (2 * i - 1) * d]
  BY DEF UniformBinCenters
<1> HIDE DEF at, d
<1>3. \A i \in 1..BinCount : at + (2 * i - 1) * d \in Int
  BY <1>1
<1>4. b \in Seq(Int) /\ Len(b) = BinCount
  <2>1. b \in [1..BinCount -> Int]
    <3> HIDE DEF b
    <3> QED
      BY <1>2, <1>3
  <2> HIDE DEF b
  <2> QED
    BY <1>1, <2>1
<1>5. ASSUME NEW i \in 1..(Len(b) - 1) PROVE b[i] < b[i + 1]
  <2>1. i \in 1..BinCount /\ i + 1 \in 1..BinCount
    BY <1>1, <1>4, <1>5
  <2> DEFINE m == 2 * i - 1
  <2>2. m \in Int /\ 2 * (i + 1) - 1 = m + 2
    BY <2>1
  <2>3. b[i] = at + m * d /\ b[i + 1] = at + (m + 2) * d
    BY <1>2, <2>1, <2>2
  <2> HIDE DEF m, b
  <2>4. (m + 2) * d = m * d + 2 * d /\ m * d \in Int
    BY <1>1, <2>2
  <2> QED
    BY <1>1, <2>3, <2>4
<1> HIDE DEF b
<1>6. b # <<>>
  BY <1>1, <1>4
<1> QED
  BY <1>4, <1>5, <1>6 DEF IsBins, Ordered, b

Kind(how) == IF how = "edges" THEN "edges" ELSE "centers"

\* The centers a caller that bins gives its cells of d, and what it counts with them.
Given == [i \in DOMAIN Centers |-> Scaled(Centers[i])]

Bins(d, cells, how) ==
    CASE how = "default" /\ Low(d, cells) = High(d, cells) -> <<Scaled(Low(d, cells))>>
      [] how = "default" /\ Low(d, cells) # High(d, cells) ->
            UniformBinCenters(Low(d, cells), High(d, cells))
      [] OTHER -> Given

InBin(d, cells, bins, i) == {c \in cells : BinIndexForValue(d[c], BinUpperEdges(bins)) = i}

Counted(d, cells, kind, bins) ==
    [kind |-> kind, bins |-> bins,
     counts |-> [i \in DOMAIN bins |-> Cardinality(InBin(d, cells, bins, i))]]

LEMMA GivenIsBins == IsBins(Given)
<1>1. \A i \in DOMAIN Centers : Centers[i] \in Int /\ Scaled(Centers[i]) \in Int
  BY CentersAssumption, ScaledInt
<1>2. Given \in Seq(Int) /\ Given # <<>> /\ Len(Given) = Len(Centers)
  BY <1>1, CentersAssumption DEF Given
<1>3. \A i \in 1..(Len(Given) - 1) : Given[i] < Given[i + 1]
  <2>1. SUFFICES ASSUME NEW i \in 1..(Len(Centers) - 1) PROVE Given[i] < Given[i + 1]
    BY <1>2
  <2>2. /\ i \in DOMAIN Centers /\ i + 1 \in DOMAIN Centers /\ Centers[i] < Centers[i + 1]
        /\ Centers[i] \in Int /\ Centers[i + 1] \in Int
    BY CentersAssumption
  <2> QED
    BY <2>2, ScaledMonotonic DEF Given
<1> QED
  BY <1>2, <1>3 DEF IsBins, Ordered

LEMMA BinsAreBins ==
    ASSUME NEW d, NEW cells, IsFiniteSet(cells), cells # {}, \A c \in cells : d[c] \in Int, NEW how
    PROVE  IsBins(Bins(d, cells, how))
<1> DEFINE lo == Low(d, cells)
           hi == High(d, cells)
           bins == Bins(d, cells, how)
<1>1. lo \in Int /\ hi \in Int /\ lo <= hi
  BY LowHigh
<1>2. bins = CASE how = "default" /\ lo = hi -> <<Scaled(lo)>>
               [] how = "default" /\ lo # hi -> UniformBinCenters(lo, hi)
               [] OTHER -> Given
  BY DEF Bins
<1> HIDE DEF lo, hi, bins
<1>3. CASE how = "default" /\ lo = hi
  <2> DEFINE y == Scaled(lo)
  <2>1. y \in Int /\ bins = <<y>>
    BY <1>1, <1>2, <1>3, ScaledInt
  <2> HIDE DEF y
  <2>2. bins \in Seq(Int) /\ Len(bins) = 1 /\ bins # <<>>
    BY <2>1
  <2> QED
    BY <2>2 DEF IsBins, Ordered, bins
<1>4. CASE how = "default" /\ lo # hi
  BY <1>1, <1>2, <1>4, UniformOrdered DEF bins
<1>5. CASE how # "default"
  BY <1>2, <1>5, GivenIsBins DEF bins
<1> QED
  BY <1>3, <1>4, <1>5

LEMMA HistogramIs ==
    ASSUME NEW cells, NEW how, how # "none"
    PROVE  Histogram(cells, how) = Counted(data, cells, Kind(how), Bins(data, cells, how))
<1> DEFINE bins == Bins(data, cells, how)
<1>1. Histogram(cells, how) = [kind |-> Kind(how), bins |-> bins, counts |-> CountsOf(cells, bins)]
  BY DEF Histogram, Bins, Kind, Given, Low, High
<1> HIDE DEF bins
<1>2. CountsOf(cells, bins) = [i \in DOMAIN bins |-> Cardinality(InBin(data, cells, bins, i))]
  BY DEF CountsOf, InBin
<1> QED
  BY <1>1, <1>2 DEF Counted, bins

\* The edges below a sample are those of the bins before its own.
LEMMA BinIndex ==
    ASSUME NEW b, IsBins(b), NEW x \in Int
    PROVE  /\ BinIndexForValue(x, BinUpperEdges(b)) \in DOMAIN b
           /\ \A j \in 1..(Len(b) - 1) :
                 b[j] + b[j + 1] <= 2 * Scaled(x) <=> j < BinIndexForValue(x, BinUpperEdges(b))
<1> DEFINE e == BinUpperEdges(b)
           v == 2 * Scaled(x)
           L == Len(b) - 1
           P == {i \in DOMAIN e : e[i] <= v}
           f == [i \in P |-> i]
<1>1. /\ L \in Nat /\ v \in Int /\ DOMAIN b = 1..(L + 1)
      /\ \A i \in 1..(L + 1) : b[i] \in Int
  <2>1. Scaled(x) \in Int
    BY ScaledInt
  <2> QED
    BY <2>1 DEF IsBins
<1>2. DOMAIN e = 1..L /\ \A i \in 1..L : e[i] = b[i] + b[i + 1] /\ e[i] \in Int
  BY <1>1 DEF BinUpperEdges
<1>3. ASSUME NEW i \in 1..L, NEW j \in 1..L, i < j PROVE e[i] < e[j]
  <2>1. b[i] < b[j] /\ b[i + 1] < b[j + 1]
    <3>1. /\ i \in 1..Len(b) /\ j \in 1..Len(b) /\ i + 1 \in 1..Len(b) /\ j + 1 \in 1..Len(b)
          /\ i + 1 < j + 1
      BY <1>1, <1>3
    <3> QED
      BY <1>3, <3>1, Increasing DEF IsBins
  <2>2. b[i] \in Int /\ b[j] \in Int /\ b[i + 1] \in Int /\ b[j + 1] \in Int
    BY <1>1, <1>3
  <2> QED
    BY <1>2, <1>3, <2>1, <2>2
<1>4. BinIndexForValue(x, e) = 1 + Cardinality(P)
  BY DEF BinIndexForValue
<1> HIDE DEF e, v, L
<1>5. \E n \in 0..L : P = 1..n
  <2>1. CASE P = {}
    BY <1>1, <2>1
  <2>2. CASE P # {}
    <3>1. IsFiniteSet(P)
      <4>1. IsFiniteSet(1..L) /\ P \in SUBSET (1..L)
        BY <1>1, <1>2, FS_Interval
      <4> QED
        BY <4>1, FS_Subset
    <3>2. PICK n \in P : \A i \in P : f[i] <= f[n]
      <4>1. \A i \in P : f[i] \in Int
        BY <1>1, <1>2
      <4> HIDE DEF P, f
      <4> QED
        BY <2>2, <3>1, <4>1, Extremes
    <3>3. n \in 0..L /\ \A i \in P : i <= n
      BY <1>1, <1>2, <3>2
    <3>4. ASSUME NEW i \in 1..n PROVE i \in P
      <4>1. i \in 1..L /\ n \in 1..L /\ e[n] <= v
        BY <1>1, <1>2, <3>2
      <4>2. i = n \/ e[i] < e[n]
        BY <1>3, <4>1
      <4>3. e[i] \in Int /\ e[n] \in Int /\ i \in DOMAIN e
        BY <1>2, <4>1
      <4>4. e[i] <= v
        BY <1>1, <4>1, <4>2, <4>3
      <4> QED
        BY <4>3, <4>4
    <3>5. P = 1..n
      <4>1. \A i \in P : i \in 1..n
        BY <1>1, <1>2, <3>3
      <4> HIDE DEF P
      <4> QED
        BY <3>4, <4>1
    <3> QED
      BY <3>3, <3>5
  <2> QED
    BY <2>1, <2>2
<1>6. PICK n \in 0..L : P = 1..n
  BY <1>5
<1>7. Cardinality(P) = n
  <2>1. Cardinality(1..n) = n
    BY <1>1, <1>6, FS_Interval
  <2> QED
    BY <1>6, <2>1
<1>8. BinIndexForValue(x, e) = n + 1 /\ n + 1 \in DOMAIN b
  BY <1>1, <1>4, <1>6, <1>7
<1>9. \A j \in 1..L : e[j] <= v <=> j < n + 1
  <2>1. \A j \in 1..L : e[j] <= v <=> j \in P
    BY <1>2
  <2> HIDE DEF P
  <2> QED
    BY <1>1, <1>6, <2>1
<1> QED
  BY <1>2, <1>8, <1>9 DEF e, v, L

Nearest(x, b, i) ==
    \A j \in DOMAIN b :
        IF j > i THEN Distance(Scaled(x), b[i]) < Distance(Scaled(x), b[j])
                 ELSE Distance(Scaled(x), b[i]) <= Distance(Scaled(x), b[j])

LEMMA NearestIsBin ==
    ASSUME NEW b, IsBins(b), NEW x \in Int, NEW i \in DOMAIN b
    PROVE  BinIndexForValue(x, BinUpperEdges(b)) = i <=> Nearest(x, b, i)
<1> DEFINE k == BinIndexForValue(x, BinUpperEdges(b))
           at == Scaled(x)
           L == Len(b)
<1>1. /\ k \in 1..L /\ i \in 1..L /\ L \in Nat /\ at \in Int /\ DOMAIN b = 1..L
      /\ \A j \in 1..L : b[j] \in Int
  <2>1. k \in DOMAIN b /\ at \in Int
    BY BinIndex, ScaledInt
  <2>2. b \in Seq(Int)
    BY DEF IsBins
  <2> HIDE DEF k, at
  <2> QED
    BY <2>1, <2>2
<1>2. \A j \in 1..(L - 1) : b[j] + b[j + 1] <= 2 * at <=> j < k
  BY BinIndex
<1>3. \A j, m \in 1..L : j < m => b[j] < b[m]
  BY Increasing DEF IsBins
<1>4. Nearest(x, b, i) <=>
        \A j \in 1..L : IF j > i THEN Distance(at, b[i]) < Distance(at, b[j])
                                 ELSE Distance(at, b[i]) <= Distance(at, b[j])
  BY <1>1 DEF Nearest
<1> HIDE DEF k, at, L
<1>5. ASSUME k = i, NEW j \in 1..L
      PROVE  IF j > i THEN Distance(at, b[i]) < Distance(at, b[j])
                      ELSE Distance(at, b[i]) <= Distance(at, b[j])
  <2>0. b[i] \in Int /\ b[j] \in Int
    BY <1>1, <1>5
  <2>1. CASE j > i
    <3>1. i \in 1..(L - 1) /\ i + 1 \in 1..L /\ ~(b[i] + b[i + 1] <= 2 * at)
      BY <1>1, <1>2, <1>5, <2>1
    <3>2. b[i] < b[i + 1] /\ b[i + 1] <= b[j] /\ b[i + 1] \in Int
      BY <1>1, <1>3, <2>1, <3>1
    <3> QED
      BY <1>1, <2>0, <2>1, <3>1, <3>2 DEF Distance
  <2>2. CASE j = i
    BY <1>1, <2>0, <2>2 DEF Distance
  <2>3. CASE j < i
    <3>1. i - 1 \in 1..(L - 1) /\ i - 1 \in 1..L /\ b[i - 1] + b[(i - 1) + 1] <= 2 * at /\ (i - 1) + 1 = i
      BY <1>1, <1>2, <1>5, <2>3
    <3>2. b[i - 1] < b[i] /\ b[j] <= b[i - 1] /\ b[i - 1] \in Int /\ b[i - 1] + b[i] <= 2 * at
      BY <1>1, <1>3, <2>3, <3>1
    <3> QED
      BY <1>1, <2>0, <2>3, <3>2 DEF Distance
  <2> QED
    BY <1>1, <2>1, <2>2, <2>3
<1>6. ASSUME \A j \in 1..L : IF j > i THEN Distance(at, b[i]) < Distance(at, b[j])
                                      ELSE Distance(at, b[i]) <= Distance(at, b[j])
      PROVE  k = i
  <2>1. ASSUME i < k PROVE FALSE
    <3>1. i \in 1..(L - 1) /\ i + 1 \in 1..L /\ b[i] + b[i + 1] <= 2 * at /\ i + 1 > i /\ i < i + 1
      BY <1>1, <1>2, <2>1
    <3>2. b[i] < b[i + 1] /\ b[i] \in Int /\ b[i + 1] \in Int
      BY <1>1, <1>3, <3>1
    <3>3. Distance(at, b[i]) < Distance(at, b[i + 1])
      BY <1>6, <3>1
    <3> QED
      BY <1>1, <3>1, <3>2, <3>3 DEF Distance
  <2>2. ASSUME i > k PROVE FALSE
    <3>1. /\ i - 1 \in 1..(L - 1) /\ i - 1 \in 1..L /\ ~(b[i - 1] + b[(i - 1) + 1] <= 2 * at)
          /\ (i - 1) + 1 = i /\ ~(i - 1 > i) /\ i - 1 < i
      <4>1. i - 1 \in 1..(L - 1) /\ ~(i - 1 < k)
        BY <1>1, <2>2
      <4>2. ~(b[i - 1] + b[(i - 1) + 1] <= 2 * at)
        BY <1>2, <4>1
      <4> QED
        BY <1>1, <4>1, <4>2
    <3>2. b[i - 1] < b[i] /\ b[i - 1] \in Int /\ b[i] \in Int /\ ~(b[i - 1] + b[i] <= 2 * at)
      BY <1>1, <1>3, <3>1
    <3>3. Distance(at, b[i]) <= Distance(at, b[i - 1])
      BY <1>6, <3>1
    <3> QED
      BY <1>1, <3>2, <3>3 DEF Distance
  <2> QED
    BY <1>1, <2>1, <2>2
<1> QED
  BY <1>4, <1>5, <1>6 DEF k

-----------------------------------------------------------------------------
(* The invariant: acc is about the samples of the partials merged so far. *)

\* The samples d has in the parts T, by owner o, and those that are binned, by mode m.
CellsOf(d, o, T) == {c \in Cells : d[c] # NaN /\ o[c] \in T}

BinnedOf(d, o, m, T) == {c \in CellsOf(d, o, T) : m[o[c]] # "none"}

Binners(d, o, m, T) == {p \in T : m[p] # "none" /\ CellsOf(d, o, {p}) # {}}

BinsOf(d, o, m, p) == Bins(d, CellsOf(d, o, {p}), m[p])

Tally(d, cells, h) ==
    [count |-> Cardinality(cells), sum |-> Sum(d, cells),
     min |-> IF cells = {} THEN 0 ELSE Low(d, cells),
     max |-> IF cells = {} THEN 0 ELSE High(d, cells),
     histogram |-> h]

\* A histogram is that of every part with one, over the samples of all of them.
HistogramOk(d, o, m, T, h) ==
    /\ Binners(d, o, m, T) = {} => h = NoHistogram
    /\ \A p \in Binners(d, o, m, T) :
          h = Counted(d, BinnedOf(d, o, m, T), Kind(m[p]), BinsOf(d, o, m, p))

Merged(d, o, m, T, a) ==
    /\ a = [stats |-> Tally(d, CellsOf(d, o, T), a.stats.histogram),
            haveHistogram |-> Binners(d, o, m, T) # {}]
    /\ HistogramOk(d, o, m, T, a.stats.histogram)

\* Callers that agree on bin centers fail only on the total.
Failed(d, o, m) ==
    (\A p \in Parts : m[p] = "centers") => ~Fits(Tally(d, CellsOf(d, o, Parts), NoHistogram))

DataInv ==
    /\ data \in [Cells -> Values \cup {NaN}] /\ owner \in [Cells -> Parts]
    /\ mode \in [Parts -> Modes]

MergeInv ==
    /\ DataInv
    /\ todo \subseteq Parts
    /\ outcome \in {"merging", "ok", "error"}
    /\ outcome # "error" => Merged(data, owner, mode, Parts \ todo, acc)
    /\ outcome = "ok" => todo = {} /\ Fits(acc.stats)
    /\ outcome = "error" => Failed(data, owner, mode)

-----------------------------------------------------------------------------
(* What is counted *)

LEMMA CellsFinite ==
    ASSUME DataInv, NEW T
    PROVE  /\ IsFiniteSet(CellsOf(data, owner, T))
           /\ \A c \in CellsOf(data, owner, T) : data[c] \in Int
           /\ IsFiniteSet(BinnedOf(data, owner, mode, T))
           /\ BinnedOf(data, owner, mode, T) \subseteq CellsOf(data, owner, T)
           /\ BinnedOf(data, owner, mode, T) \subseteq Cells
<1>1. CellsOf(data, owner, T) \subseteq Cells
  BY DEF CellsOf
<1>2. BinnedOf(data, owner, mode, T) \subseteq CellsOf(data, owner, T)
  BY DEF BinnedOf
<1>3. IsFiniteSet(Cells)
  BY SamplesAssumption
<1>4. \A c \in CellsOf(data, owner, T) : data[c] \in Int
  BY SamplesAssumption DEF CellsOf, DataInv
<1>5. IsFiniteSet(CellsOf(data, owner, T)) /\ IsFiniteSet(BinnedOf(data, owner, mode, T))
  BY <1>1, <1>2, <1>3, FS_Subset
<1> QED
  BY <1>1, <1>2, <1>4, <1>5

LEMMA PartialIs ==
    ASSUME NEW p
    PROVE  Partial(p) =
             IF CellsOf(data, owner, {p}) = {} THEN Empty
             ELSE Tally(data, CellsOf(data, owner, {p}),
                        IF mode[p] = "none" THEN NoHistogram
                        ELSE Counted(data, CellsOf(data, owner, {p}), Kind(mode[p]),
                                     BinsOf(data, owner, mode, p)))
<1> DEFINE cells == CellsOf(data, owner, {p})
           h == Histogram(cells, mode[p])
<1>1. Samples(PositionsOf(p)) = cells
  BY DEF Samples, PositionsOf, CellsOf
<1>2. Partial(p) = IF cells = {} THEN Empty
                   ELSE [count |-> Cardinality(cells), sum |-> Sum(data, cells),
                         min |-> Low(data, cells), max |-> High(data, cells), histogram |-> h]
  <2> HIDE DEF cells
  <2> QED
    BY <1>1 DEF Partial, ComputeStats, Sum, Low, High
<1>3. mode[p] # "none" => h = Counted(data, cells, Kind(mode[p]), BinsOf(data, owner, mode, p))
  BY HistogramIs DEF BinsOf
<1>4. mode[p] = "none" => h = NoHistogram
  BY DEF Histogram
<1> HIDE DEF cells, h
<1>5. CASE cells = {}
  BY <1>2, <1>5 DEF cells
<1>6. CASE cells # {}
  <2>1. Partial(p) = Tally(data, cells, h)
    BY <1>2, <1>6 DEF Tally
  <2>2. h = IF mode[p] = "none" THEN NoHistogram
            ELSE Counted(data, cells, Kind(mode[p]), BinsOf(data, owner, mode, p))
    BY <1>3, <1>4
  <2> QED
    BY <1>6, <2>1, <2>2 DEF cells
<1> QED
  BY <1>5, <1>6

LEMMA WholeIs ==
    ASSUME DataInv, NEW how
    PROVE  ComputeStats(Cells, how) =
             IF CellsOf(data, owner, Parts) = {} THEN Empty
             ELSE Tally(data, CellsOf(data, owner, Parts), Histogram(CellsOf(data, owner, Parts), how))
<1> DEFINE cells == CellsOf(data, owner, Parts)
           h == Histogram(cells, how)
<1>1. Samples(Cells) = cells
  BY DEF Samples, CellsOf, DataInv
<1>2. ComputeStats(Cells, how) = IF cells = {} THEN Empty
                   ELSE [count |-> Cardinality(cells), sum |-> Sum(data, cells),
                         min |-> Low(data, cells), max |-> High(data, cells), histogram |-> h]
  <2> HIDE DEF cells
  <2> QED
    BY <1>1 DEF ComputeStats, Sum, Low, High
<1> HIDE DEF cells, h
<1>3. cells # {} => ComputeStats(Cells, how) = Tally(data, cells, h)
  BY <1>2 DEF Tally
<1> QED
  BY <1>2, <1>3 DEF cells, h

LEMMA TallyEmpty ==
    ASSUME NEW d
    PROVE  Tally(d, {}, NoHistogram) = Empty
BY SumEmpty, FS_EmptySet DEF Tally, Empty

LEMMA FoldTally ==
    ASSUME NEW d, NEW S, IsFiniteSet(S), NEW T, IsFiniteSet(T), T # {}, S \cap T = {},
           \A c \in S \cup T : d[c] \in Int, NEW h, NEW g
    PROVE  FoldScalars(Tally(d, S, h), Tally(d, T, g)) = Tally(d, S \cup T, h)
<1> DEFINE a == Tally(d, S, h)
           s == Tally(d, T, g)
<1>1. /\ a.count = Cardinality(S) /\ s.count = Cardinality(T)
      /\ a.sum = Sum(d, S) /\ s.sum = Sum(d, T) /\ a.histogram = h
      /\ a.min = (IF S = {} THEN 0 ELSE Low(d, S)) /\ s.min = Low(d, T)
      /\ a.max = (IF S = {} THEN 0 ELSE High(d, S)) /\ s.max = High(d, T)
  BY DEF Tally
<1>2. Cardinality(S \cup T) = a.count + s.count /\ (a.count = 0 <=> S = {})
  BY <1>1, CardDisjoint, FS_EmptySet
<1>3. Sum(d, S \cup T) = a.sum + s.sum
  BY <1>1, SumDisjoint
<1>4. S = {} => S \cup T = T
  OBVIOUS
<1>5. S # {} => Low(d, S \cup T) = IF Low(d, T) < Low(d, S) THEN Low(d, T) ELSE Low(d, S)
  BY LowUnion
<1>6. S # {} => High(d, S \cup T) = IF High(d, T) > High(d, S) THEN High(d, T) ELSE High(d, S)
  BY HighUnion
<1> HIDE DEF a, s
<1>7. Low(d, S \cup T) = IF a.count = 0 \/ s.min < a.min THEN s.min ELSE a.min
  BY <1>1, <1>2, <1>4, <1>5
<1>8. High(d, S \cup T) = IF a.count = 0 \/ s.max > a.max THEN s.max ELSE a.max
  BY <1>1, <1>2, <1>4, <1>6
<1>9. FoldScalars(a, s) = [count |-> Cardinality(S \cup T), sum |-> Sum(d, S \cup T),
                           min |-> Low(d, S \cup T), max |-> High(d, S \cup T), histogram |-> h]
  BY <1>1, <1>2, <1>3, <1>7, <1>8 DEF FoldScalars
<1> QED
  BY <1>9 DEF Tally, a, s

LEMMA AddCounted ==
    ASSUME NEW d, NEW S, IsFiniteSet(S), NEW T, IsFiniteSet(T), S \cap T = {}, NEW kind, NEW bins
    PROVE  AddCounts(Counted(d, S, kind, bins), Counted(d, T, kind, bins))
             = Counted(d, S \cup T, kind, bins)
<1>1. ASSUME NEW i
      PROVE  Cardinality(InBin(d, S \cup T, bins, i))
               = Cardinality(InBin(d, S, bins, i)) + Cardinality(InBin(d, T, bins, i))
  <2> DEFINE A == InBin(d, S, bins, i)
             B == InBin(d, T, bins, i)
  <2>1. A \subseteq S /\ B \subseteq T /\ InBin(d, S \cup T, bins, i) = A \cup B
    BY DEF InBin
  <2>2. IsFiniteSet(A) /\ IsFiniteSet(B) /\ A \cap B = {}
    BY <2>1, FS_Subset
  <2> HIDE DEF A, B
  <2>3. Cardinality(A \cup B) = Cardinality(A) + Cardinality(B)
    BY <2>2, CardDisjoint
  <2> QED
    BY <2>1, <2>3 DEF A, B
<1> DEFINE count(U) == [i \in DOMAIN bins |-> Cardinality(InBin(d, U, bins, i))]
<1>2. AddCounts(Counted(d, S, kind, bins), Counted(d, T, kind, bins))
        = [kind |-> kind, bins |-> bins,
           counts |-> [i \in DOMAIN count(S) |-> count(S)[i] + count(T)[i]]]
  <2> DEFINE cs == count(S)
             ct == count(T)
  <2>1. /\ Counted(d, S, kind, bins) = [kind |-> kind, bins |-> bins, counts |-> cs]
        /\ Counted(d, T, kind, bins) = [kind |-> kind, bins |-> bins, counts |-> ct]
    BY DEF Counted
  <2> HIDE DEF cs, ct
  <2>2. AddCounts(Counted(d, S, kind, bins), Counted(d, T, kind, bins))
          = [kind |-> kind, bins |-> bins, counts |-> [i \in DOMAIN cs |-> cs[i] + ct[i]]]
    BY <2>1 DEF AddCounts
  <2> QED
    BY <2>2 DEF cs, ct
<1>3. [i \in DOMAIN count(S) |-> count(S)[i] + count(T)[i]] = count(S \cup T)
  BY <1>1
<1> QED
  BY <1>2, <1>3 DEF Counted

-----------------------------------------------------------------------------
(* One partial *)

\* What the partial of p adds to the cells and to the bins.
Adds(d, o, m, T, p) ==
    /\ CellsOf(d, o, T \cup {p}) = CellsOf(d, o, T) \cup CellsOf(d, o, {p})
    /\ CellsOf(d, o, T) \cap CellsOf(d, o, {p}) = {}
    /\ BinnedOf(d, o, m, T \cup {p}) = BinnedOf(d, o, m, T) \cup BinnedOf(d, o, m, {p})
    /\ BinnedOf(d, o, m, T) \cap BinnedOf(d, o, m, {p}) = {}
    /\ Binners(d, o, m, T \cup {p}) = Binners(d, o, m, T) \cup Binners(d, o, m, {p})

LEMMA PartAdds ==
    ASSUME NEW d, NEW o, NEW m, NEW T, NEW p, p \notin T
    PROVE  Adds(d, o, m, T, p)
BY DEF Adds, BinnedOf, Binners, CellsOf

\* A part that has samples and bins them, and one that does not.
PartBinned(d, o, m, p) ==
    BinnedOf(d, o, m, {p}) = CellsOf(d, o, {p}) /\ Binners(d, o, m, {p}) = {p}

PartBare(d, o, m, p) == BinnedOf(d, o, m, {p}) = {} /\ Binners(d, o, m, {p}) = {}

LEMMA PartBins ==
    ASSUME NEW d, NEW o, NEW m, NEW p
    PROVE  IF m[p] # "none" /\ CellsOf(d, o, {p}) # {}
           THEN PartBinned(d, o, m, p) ELSE PartBare(d, o, m, p)
<1>1. ASSUME m[p] # "none", CellsOf(d, o, {p}) # {} PROVE PartBinned(d, o, m, p)
  BY <1>1 DEF PartBinned, BinnedOf, Binners, CellsOf
<1>2. ASSUME ~(m[p] # "none" /\ CellsOf(d, o, {p}) # {}) PROVE PartBare(d, o, m, p)
  BY <1>2 DEF PartBare, BinnedOf, Binners, CellsOf
<1> QED
  BY <1>1, <1>2

LEMMA NoBinners ==
    ASSUME NEW d, NEW o, NEW m, NEW T, Binners(d, o, m, T) = {}
    PROVE  BinnedOf(d, o, m, T) = {}
<1>1. ASSUME NEW c \in BinnedOf(d, o, m, T) PROVE o[c] \in Binners(d, o, m, T)
  BY <1>1 DEF BinnedOf, Binners, CellsOf
<1> QED
  BY <1>1

\* The partial of a part with samples, and that it is not taken for an empty one.
LEMMA PartialOf ==
    ASSUME DataInv, NEW p \in Parts
    PROVE  /\ CellsOf(data, owner, {p}) = {} => IsNeutral(Partial(p))
           /\ CellsOf(data, owner, {p}) # {} =>
                 /\ ~IsNeutral(Partial(p))
                 /\ Partial(p) = Tally(data, CellsOf(data, owner, {p}), Partial(p).histogram)
                 /\ mode[p] = "none" => Partial(p).histogram = NoHistogram
                 /\ mode[p] # "none" =>
                       /\ Partial(p).histogram =
                             Counted(data, CellsOf(data, owner, {p}), Kind(mode[p]),
                                     BinsOf(data, owner, mode, p))
                       /\ Partial(p).histogram.bins = BinsOf(data, owner, mode, p)
                       /\ IsBins(BinsOf(data, owner, mode, p))
<1> DEFINE cells == CellsOf(data, owner, {p})
           h == IF mode[p] = "none" THEN NoHistogram
                ELSE Counted(data, cells, Kind(mode[p]), BinsOf(data, owner, mode, p))
<1>1. Partial(p) = IF cells = {} THEN Empty ELSE Tally(data, cells, h)
  BY PartialIs
<1>2. IsFiniteSet(cells) /\ \A c \in cells : data[c] \in Int
  BY CellsFinite
<1>3. Cardinality(cells) = 0 <=> cells = {}
  BY <1>2, FS_EmptySet
<1>4. cells # {} => IsBins(BinsOf(data, owner, mode, p))
  BY <1>2, BinsAreBins DEF BinsOf
<1> HIDE DEF cells, h
<1>5. cells = {} => IsNeutral(Partial(p))
  BY <1>1 DEF IsNeutral, Empty
<1>6. cells # {} => /\ ~IsNeutral(Partial(p)) /\ Partial(p).histogram = h
                    /\ Partial(p) = Tally(data, cells, Partial(p).histogram)
  BY <1>1, <1>3 DEF IsNeutral, Tally
<1>7. /\ mode[p] = "none" => h = NoHistogram
      /\ mode[p] # "none" =>
            /\ h = Counted(data, cells, Kind(mode[p]), BinsOf(data, owner, mode, p))
            /\ h.bins = BinsOf(data, owner, mode, p)
  BY DEF h, Counted
<1> QED
  BY <1>4, <1>5, <1>6, <1>7 DEF cells

\* How the fields of a merged accumulator are read.
LEMMA MergedIs ==
    ASSUME NEW d, NEW o, NEW m, NEW T, NEW a, Merged(d, o, m, T, a)
    PROVE  /\ a.stats = Tally(d, CellsOf(d, o, T), a.stats.histogram)
           /\ a.haveHistogram = (Binners(d, o, m, T) # {})
           /\ a = [stats |-> a.stats, haveHistogram |-> a.haveHistogram]
           /\ HistogramOk(d, o, m, T, a.stats.histogram)
<1> DEFINE s == Tally(d, CellsOf(d, o, T), a.stats.histogram)
           b == Binners(d, o, m, T) # {}
<1>1. a = [stats |-> s, haveHistogram |-> b] /\ HistogramOk(d, o, m, T, a.stats.histogram)
  BY DEF Merged
<1> HIDE DEF s, b
<1>2. a.stats = s /\ a.haveHistogram = b /\ a = [stats |-> a.stats, haveHistogram |-> a.haveHistogram]
  BY <1>1
<1> QED
  BY <1>1, <1>2 DEF s, b

\* A partial without samples leaves the accumulator right.
LEMMA SkipKeeps ==
    ASSUME NEW d, NEW o, NEW m, NEW T, NEW a, NEW p, p \notin T,
           Merged(d, o, m, T, a), CellsOf(d, o, {p}) = {}
    PROVE  Merged(d, o, m, T \cup {p}, a)
<1>1. Adds(d, o, m, T, p) /\ PartBare(d, o, m, p)
  BY PartAdds, PartBins
<1>2. /\ CellsOf(d, o, T \cup {p}) = CellsOf(d, o, T)
      /\ BinnedOf(d, o, m, T \cup {p}) = BinnedOf(d, o, m, T)
      /\ Binners(d, o, m, T \cup {p}) = Binners(d, o, m, T)
  BY <1>1 DEF Adds, PartBare
<1> QED
  BY <1>2 DEF Merged, HistogramOk

\* The scalars of a further partial are added to those merged so far.
LEMMA ScalarsKeep ==
    ASSUME DataInv, NEW T, NEW p \in Parts, p \notin T, Merged(data, owner, mode, T, acc),
           CellsOf(data, owner, {p}) # {}
    PROVE  FoldScalars(acc.stats, Partial(p))
             = Tally(data, CellsOf(data, owner, T \cup {p}), acc.stats.histogram)
<1> DEFINE S == CellsOf(data, owner, T)
           R == CellsOf(data, owner, {p})
           h == acc.stats.histogram
           g == Partial(p).histogram
<1>1. acc.stats = Tally(data, S, h) /\ Partial(p) = Tally(data, R, g)
  BY MergedIs, PartialOf
<1>2. IsFiniteSet(S) /\ IsFiniteSet(R) /\ \A c \in S \cup R : data[c] \in Int
  BY CellsFinite
<1>3. CellsOf(data, owner, T \cup {p}) = S \cup R /\ S \cap R = {} /\ R # {}
  <2>1. Adds(data, owner, mode, T, p)
    BY PartAdds
  <2> QED
    BY <2>1 DEF Adds
<1> HIDE DEF S, R, h, g
<1>4. FoldScalars(Tally(data, S, h), Tally(data, R, g)) = Tally(data, S \cup R, h)
  BY <1>2, <1>3, FoldTally
<1> QED
  BY <1>1, <1>3, <1>4 DEF h

LEMMA BareKeeps ==
    ASSUME DataInv, NEW T, NEW p \in Parts, p \notin T, Merged(data, owner, mode, T, acc),
           CellsOf(data, owner, {p}) # {}, mode[p] = "none"
    PROVE  Merged(data, owner, mode, T \cup {p},
                  [acc EXCEPT !.stats = FoldScalars(@, Partial(p))])
<1> DEFINE h == acc.stats.histogram
           s == FoldScalars(acc.stats, Partial(p))
           a == [acc EXCEPT !.stats = FoldScalars(@, Partial(p))]
           total == Tally(data, CellsOf(data, owner, T \cup {p}), h)
<1>1. s = total /\ total.histogram = h
  BY ScalarsKeep DEF Tally
<1>2. /\ acc = [stats |-> acc.stats, haveHistogram |-> acc.haveHistogram]
      /\ acc.haveHistogram = (Binners(data, owner, mode, T) # {})
      /\ HistogramOk(data, owner, mode, T, h)
  BY MergedIs
<1>3. /\ BinnedOf(data, owner, mode, T \cup {p}) = BinnedOf(data, owner, mode, T)
      /\ Binners(data, owner, mode, T \cup {p}) = Binners(data, owner, mode, T)
  <2>1. Adds(data, owner, mode, T, p) /\ PartBare(data, owner, mode, p)
    BY PartAdds, PartBins
  <2> QED
    BY <2>1 DEF Adds, PartBare
<1>4. HistogramOk(data, owner, mode, T \cup {p}, h)
  BY <1>2, <1>3 DEF HistogramOk
<1>5. acc.haveHistogram = (Binners(data, owner, mode, T \cup {p}) # {})
  BY <1>2, <1>3
<1>6. a = [stats |-> s, haveHistogram |-> acc.haveHistogram]
  <2> DEFINE b == acc.haveHistogram
             u == acc.stats
  <2>1. acc = [stats |-> u, haveHistogram |-> b]
    BY <1>2
  <2> HIDE DEF b, u
  <2>2. [acc EXCEPT !.stats = s] = [stats |-> s, haveHistogram |-> b]
    BY <2>1
  <2> QED
    BY <2>2 DEF b
<1> HIDE DEF h, s, total
<1>7. a.stats = total /\ a.stats.histogram = h
  BY <1>1, <1>6
<1> QED
  BY <1>1, <1>4, <1>5, <1>6, <1>7 DEF Merged, total

\* The first histogram counts the samples of its partial, and none was binned before.
LEMMA FirstKeeps ==
    ASSUME DataInv, NEW T, NEW p \in Parts, p \notin T, Merged(data, owner, mode, T, acc),
           CellsOf(data, owner, {p}) # {}, mode[p] # "none", ~acc.haveHistogram
    PROVE  Merged(data, owner, mode, T \cup {p},
                  [stats |-> [FoldScalars(acc.stats, Partial(p)) EXCEPT
                                !.histogram = Partial(p).histogram],
                   haveHistogram |-> TRUE])
<1> DEFINE h == acc.stats.histogram
           g == Partial(p).histogram
           cells == CellsOf(data, owner, T \cup {p})
           s == [FoldScalars(acc.stats, Partial(p)) EXCEPT !.histogram = g]
<1>1. s = Tally(data, cells, g)
  <2>1. FoldScalars(acc.stats, Partial(p)) = Tally(data, cells, h)
    BY ScalarsKeep
  <2> HIDE DEF h, g, cells
  <2> QED
    BY <2>1 DEF Tally
<1>2. Binners(data, owner, mode, T) = {}
  BY MergedIs
<1>3. /\ BinnedOf(data, owner, mode, T \cup {p}) = CellsOf(data, owner, {p})
      /\ Binners(data, owner, mode, T \cup {p}) = {p}
  <2>1. BinnedOf(data, owner, mode, T) = {}
    BY <1>2, NoBinners
  <2>2. Adds(data, owner, mode, T, p) /\ PartBinned(data, owner, mode, p)
    BY PartAdds, PartBins
  <2> QED
    BY <1>2, <2>1, <2>2 DEF Adds, PartBinned
<1>4. g = Counted(data, CellsOf(data, owner, {p}), Kind(mode[p]), BinsOf(data, owner, mode, p))
  BY PartialOf
<1> HIDE DEF g, cells, s
<1>5. HistogramOk(data, owner, mode, T \cup {p}, g)
  BY <1>3, <1>4 DEF HistogramOk
<1>6. s.histogram = g
  BY <1>1 DEF Tally
<1> QED
  BY <1>1, <1>3, <1>5, <1>6 DEF Merged, cells, g, s

\* Histograms are added only where they have the same bins as all those added before.
LEMMA FurtherKeeps ==
    ASSUME DataInv, NEW T, NEW p \in Parts, p \notin T, Merged(data, owner, mode, T, acc),
           CellsOf(data, owner, {p}) # {}, mode[p] # "none", Binners(data, owner, mode, T) # {},
           SameBinning(Partial(p).histogram, acc.stats.histogram)
    PROVE  Merged(data, owner, mode, T \cup {p},
                  [acc EXCEPT !.stats = [FoldScalars(acc.stats, Partial(p)) EXCEPT
                      !.histogram = AddCounts(acc.stats.histogram, Partial(p).histogram)]])
<1> DEFINE h == acc.stats.histogram
           g == Partial(p).histogram
           sum == AddCounts(h, g)
           cells == CellsOf(data, owner, T \cup {p})
           s == [FoldScalars(acc.stats, Partial(p)) EXCEPT !.histogram = sum]
           kind == Kind(mode[p])
           bins == BinsOf(data, owner, mode, p)
           U == BinnedOf(data, owner, mode, T)
           R == CellsOf(data, owner, {p})
<1>1. s = Tally(data, cells, sum)
  <2>1. FoldScalars(acc.stats, Partial(p)) = Tally(data, cells, h)
    BY ScalarsKeep
  <2> HIDE DEF h, sum, cells
  <2> QED
    BY <2>1 DEF Tally
<1>2. /\ acc = [stats |-> acc.stats, haveHistogram |-> acc.haveHistogram]
      /\ Binners(data, owner, mode, T) # {}
      /\ HistogramOk(data, owner, mode, T, h)
  BY MergedIs
<1>3. /\ BinnedOf(data, owner, mode, T \cup {p}) = U \cup R /\ U \cap R = {}
      /\ Binners(data, owner, mode, T \cup {p}) = Binners(data, owner, mode, T) \cup {p}
      /\ IsFiniteSet(U) /\ IsFiniteSet(R)
  <2>1. Adds(data, owner, mode, T, p) /\ PartBinned(data, owner, mode, p)
    BY PartAdds, PartBins
  <2>2. /\ BinnedOf(data, owner, mode, T \cup {p}) = U \cup R /\ U \cap R = {}
        /\ Binners(data, owner, mode, T \cup {p}) = Binners(data, owner, mode, T) \cup {p}
    BY <2>1 DEF Adds, PartBinned
  <2>3. IsFiniteSet(U) /\ IsFiniteSet(R)
    BY CellsFinite
  <2> QED
    BY <2>2, <2>3
<1>4. g = Counted(data, R, kind, bins)
  BY PartialOf
<1>5. ASSUME NEW q \in Binners(data, owner, mode, T)
      PROVE  /\ h = Counted(data, U, kind, bins)
             /\ Kind(mode[q]) = kind /\ BinsOf(data, owner, mode, q) = bins
  <2> DEFINE k == Kind(mode[q])
             b == BinsOf(data, owner, mode, q)
  <2>1. h = Counted(data, U, k, b)
    BY <1>2, <1>5 DEF HistogramOk
  <2>2. g.kind = h.kind /\ g.bins = h.bins
    BY DEF SameBinning
  <2> HIDE DEF h, g, kind, bins, U, R, k, b
  <2>3. k = kind /\ b = bins
    BY <1>4, <2>1, <2>2 DEF Counted
  <2> QED
    BY <2>1, <2>3 DEF k, b
<1>6. h = Counted(data, U, kind, bins)
  BY <1>2, <1>5
<1> HIDE DEF h, g, kind, bins, U, R
<1>7. sum = Counted(data, U \cup R, kind, bins)
  BY <1>3, <1>4, <1>6, AddCounted
<1>8. HistogramOk(data, owner, mode, T \cup {p}, sum)
  <2>1. ASSUME NEW q \in Binners(data, owner, mode, T \cup {p})
        PROVE  Kind(mode[q]) = kind /\ BinsOf(data, owner, mode, q) = bins
    BY <1>3, <1>5, <2>1 DEF kind, bins
  <2> HIDE DEF sum
  <2> QED
    BY <1>3, <1>7, <2>1 DEF HistogramOk
<1> HIDE DEF sum, s, cells
<1>9. s.histogram = sum
  BY <1>1 DEF Tally
<1>10. [acc EXCEPT !.stats = s] = [stats |-> s, haveHistogram |-> TRUE]
  <2> DEFINE u == acc.stats
             b == acc.haveHistogram
  <2>1. acc = [stats |-> u, haveHistogram |-> b]
    BY <1>2
  <2>2. b = TRUE
    <3>1. b = (Binners(data, owner, mode, T) # {})
      BY MergedIs
    <3> QED
      BY <1>2, <3>1
  <2> HIDE DEF u, b
  <2>3. [acc EXCEPT !.stats = s] = [stats |-> s, haveHistogram |-> b]
    BY <2>1
  <2> QED
    BY <2>2, <2>3
<1>11. Merged(data, owner, mode, T \cup {p}, [acc EXCEPT !.stats = s])
  <2>1. (Binners(data, owner, mode, T \cup {p}) # {}) = TRUE
    BY <1>3
  <2> QED
    BY <1>1, <1>8, <1>9, <1>10, <2>1 DEF Merged, cells
<1> QED
  BY <1>11 DEF s, sum, h, g

-----------------------------------------------------------------------------
(* Steps *)

\* What MergePartial leaves alone, and the parts it has seen.
LEMMA SeenNext ==
    ASSUME MergeInv, NEW p \in Parts, MergePartial(p)
    PROVE  /\ data' = data /\ owner' = owner /\ mode' = mode /\ DataInv'
           /\ todo' \subseteq Parts /\ p \notin Parts \ todo
           /\ Parts \ todo' = (Parts \ todo) \cup {p}
           /\ outcome = "merging"
           /\ Merged(data, owner, mode, Parts \ todo, acc)
<1>1. data' = data /\ owner' = owner /\ mode' = mode /\ todo' = todo \ {p} /\ p \in todo
      /\ outcome = "merging"
  BY DEF MergePartial
<1>2. DataInv'
  BY <1>1 DEF MergeInv, DataInv
<1>3. todo' \subseteq Parts /\ Parts \ todo' = (Parts \ todo) \cup {p}
  BY <1>1 DEF MergeInv
<1> QED
  BY <1>1, <1>2, <1>3 DEF MergeInv

LEMMA GivenBins ==
    ASSUME NEW d, NEW o, NEW m, NEW p, m[p] = "centers"
    PROVE  BinsOf(d, o, m, p) = Given /\ Kind(m[p]) = "centers"
BY DEF BinsOf, Bins, Kind

\* A step to an error: the callers did not agree on bin centers.
LEMMA ErrorStep ==
    ASSUME MergeInv, NEW p \in Parts, MergePartial(p), NEW q \in Parts,
           mode[q] # "centers", outcome' = "error"
    PROVE  MergeInv'
<1>1. Failed(data, owner, mode)
  BY DEF Failed
<1>2. data' = data /\ owner' = owner /\ mode' = mode /\ DataInv' /\ todo' \subseteq Parts
  BY SeenNext
<1> QED
  BY <1>1, <1>2 DEF MergeInv

LEMMA GoodStep ==
    ASSUME MergeInv, NEW p \in Parts, MergePartial(p), outcome' = outcome,
           Merged(data, owner, mode, (Parts \ todo) \cup {p}, acc')
    PROVE  MergeInv'
<1>1. /\ data' = data /\ owner' = owner /\ mode' = mode /\ DataInv' /\ todo' \subseteq Parts
      /\ Parts \ todo' = (Parts \ todo) \cup {p} /\ outcome = "merging"
  BY SeenNext
<1>2. Merged(data', owner', mode', Parts \ todo', acc')
  BY <1>1
<1> QED
  BY <1>1, <1>2 DEF MergeInv

LEMMA MergePartialStep ==
    ASSUME MergeInv, NEW p \in Parts, MergePartial(p)
    PROVE  MergeInv'
<1> DEFINE T == Parts \ todo
           R == CellsOf(data, owner, {p})
           h == acc.stats.histogram
           g == Partial(p).histogram
<1>1. DataInv /\ p \notin T /\ Merged(data, owner, mode, T, acc)
  BY SeenNext DEF MergeInv
<1>2. /\ R = {} => IsNeutral(Partial(p))
      /\ R # {} => ~IsNeutral(Partial(p))
      /\ R # {} /\ mode[p] = "none" => g = NoHistogram
      /\ R # {} /\ mode[p] # "none" =>
            /\ g = Counted(data, R, Kind(mode[p]), BinsOf(data, owner, mode, p))
            /\ g.bins = BinsOf(data, owner, mode, p) /\ g.bins # <<>>
  <2>1. R = {} => IsNeutral(Partial(p))
    BY <1>1, PartialOf
  <2>2. R # {} =>
          /\ ~IsNeutral(Partial(p))
          /\ mode[p] = "none" => g = NoHistogram
          /\ mode[p] # "none" =>
               /\ g = Counted(data, R, Kind(mode[p]), BinsOf(data, owner, mode, p))
               /\ g.bins = BinsOf(data, owner, mode, p) /\ IsBins(BinsOf(data, owner, mode, p))
    BY <1>1, PartialOf
  <2> QED
    BY <2>1, <2>2 DEF IsBins
<1>3. SkipNeutral(p) \/ FoldBare(p) \/ FoldFirstHistogram(p) \/ FoldHistogram(p)
  BY DEF MergePartial
<1>4. NoHistogram.bins = <<>>
  BY DEF NoHistogram
<1> HIDE DEF T, R, h, g
<1>5. CASE SkipNeutral(p)
  <2>1. R = {} /\ acc' = acc /\ outcome' = outcome
    BY <1>2, <1>5 DEF SkipNeutral
  <2>2. Merged(data, owner, mode, T \cup {p}, acc)
    BY <1>1, <2>1, SkipKeeps DEF R
  <2> QED
    BY <2>1, <2>2, GoodStep DEF T
<1>6. CASE FoldBare(p)
  <2>1. /\ R # {} /\ mode[p] = "none"
        /\ acc' = [acc EXCEPT !.stats = FoldScalars(@, Partial(p))]
        /\ outcome' = IF acc.haveHistogram THEN "error" ELSE outcome
    BY <1>2, <1>6 DEF FoldBare, g
  <2>2. Merged(data, owner, mode, T \cup {p}, acc')
    BY <1>1, <2>1, BareKeeps DEF R
  <2> QED
    BY <2>1, <2>2, GoodStep, ErrorStep DEF T
<1>7. CASE FoldFirstHistogram(p)
  <2>1. /\ R # {} /\ g.bins # <<>> /\ ~acc.haveHistogram /\ outcome' = outcome
        /\ acc' = [stats |-> [FoldScalars(acc.stats, Partial(p)) EXCEPT !.histogram = Partial(p).histogram],
                   haveHistogram |-> TRUE]
    BY <1>2, <1>7 DEF FoldFirstHistogram, g
  <2>2. mode[p] # "none"
    BY <1>2, <1>4, <2>1
  <2>3. Merged(data, owner, mode, T \cup {p}, acc')
    BY <1>1, <2>1, <2>2, FirstKeeps DEF R
  <2> QED
    BY <2>1, <2>3, GoodStep DEF T
<1>8. CASE FoldHistogram(p)
  <2>1. /\ R # {} /\ g.bins # <<>> /\ acc.haveHistogram
        /\ IF SameBinning(g, h)
           THEN /\ acc' = [acc EXCEPT !.stats = [FoldScalars(acc.stats, Partial(p)) EXCEPT
                             !.histogram = AddCounts(acc.stats.histogram, Partial(p).histogram)]]
                /\ outcome' = outcome
           ELSE outcome' = "error"
    BY <1>2, <1>8 DEF FoldHistogram, g, h
  <2>2. mode[p] # "none"
    BY <1>2, <1>4, <2>1
  <2>3. CASE SameBinning(g, h)
    <3>1. Merged(data, owner, mode, T \cup {p}, acc')
      <4>1. Binners(data, owner, mode, T) # {}
        BY <1>1, <2>1, MergedIs
      <4> QED
        BY <1>1, <2>1, <2>2, <2>3, <4>1, FurtherKeeps DEF R, g, h
    <3> QED
      BY <2>1, <2>3, <3>1, GoodStep DEF T
  <2>4. CASE ~SameBinning(g, h)
    <3>1. PICK q \in Binners(data, owner, mode, T) :
            h = Counted(data, BinnedOf(data, owner, mode, T), Kind(mode[q]), BinsOf(data, owner, mode, q))
      <4>1. Binners(data, owner, mode, T) # {}
        BY <1>1, <2>1, MergedIs
      <4>2. HistogramOk(data, owner, mode, T, h)
        BY <1>1, MergedIs DEF h
      <4> QED
        BY <4>1, <4>2 DEF HistogramOk
    <3>2. q \in Parts
      BY <3>1 DEF Binners, T
    <3>3. mode[p] # "centers" \/ mode[q] # "centers"
      <4>1. SUFFICES ASSUME mode[p] = "centers", mode[q] = "centers" PROVE SameBinning(g, h)
        BY <2>4
      <4>2. /\ BinsOf(data, owner, mode, p) = Given /\ Kind(mode[p]) = "centers"
            /\ BinsOf(data, owner, mode, q) = Given /\ Kind(mode[q]) = "centers"
        BY <4>1, GivenBins
      <4>3. /\ g = Counted(data, R, "centers", Given)
            /\ h = Counted(data, BinnedOf(data, owner, mode, T), "centers", Given)
        BY <1>2, <2>1, <2>2, <3>1, <4>2
      <4> QED
        BY <4>3 DEF SameBinning, Counted
    <3> QED
      BY <2>1, <2>4, <3>2, <3>3, ErrorStep
  <2> QED
    BY <2>3, <2>4
<1> QED
  BY <1>3, <1>5, <1>6, <1>7, <1>8

LEMMA FinishStep ==
    ASSUME MergeInv, Finish
    PROVE  MergeInv'
<1>1. /\ data' = data /\ owner' = owner /\ mode' = mode /\ todo' = todo /\ acc' = acc
      /\ outcome = "merging" /\ todo = {} /\ outcome' = IF Fits(acc.stats) THEN "ok" ELSE "error"
  BY DEF Finish
<1>2. DataInv' /\ todo' \subseteq Parts /\ Merged(data, owner, mode, Parts \ todo, acc)
  BY <1>1 DEF MergeInv, DataInv
<1>3. CASE Fits(acc.stats)
  <2>1. Fits(acc.stats)'
    BY <1>1, <1>3 DEF Fits
  <2> QED
    BY <1>1, <1>2, <1>3, <2>1 DEF MergeInv
<1>4. CASE ~Fits(acc.stats)
  <2>1. acc.stats = Tally(data, CellsOf(data, owner, Parts), acc.stats.histogram)
    <3>1. Parts \ todo = Parts
      BY <1>1
    <3> QED
      BY <1>2, <3>1, MergedIs
  <2>2. Failed(data, owner, mode)
    BY <1>4, <2>1 DEF Failed, Tally, Fits
  <2> QED
    BY <1>1, <1>2, <1>4, <2>2 DEF MergeInv
<1> QED
  BY <1>3, <1>4

LEMMA MergeInit ==
    ASSUME Init
    PROVE  MergeInv
<1>1. DataInv /\ todo \subseteq Parts /\ Parts \ todo = {} /\ outcome = "merging" /\ acc = Begin
  BY DEF Init, DataInv
<1>2. /\ CellsOf(data, owner, {}) = {} /\ BinnedOf(data, owner, mode, {}) = {}
      /\ Binners(data, owner, mode, {}) = {}
  BY DEF CellsOf, BinnedOf, Binners
<1>3. HistogramOk(data, owner, mode, {}, NoHistogram)
  BY <1>2 DEF HistogramOk
<1>4. Merged(data, owner, mode, {}, Begin)
  <2>1. Begin = [stats |-> Empty, haveHistogram |-> FALSE] /\ Empty.histogram = NoHistogram
    BY DEF Begin, Empty
  <2>2. (Binners(data, owner, mode, {}) # {}) = FALSE
    BY <1>2
  <2>3. Tally(data, CellsOf(data, owner, {}), NoHistogram) = Empty
    BY <1>2, TallyEmpty
  <2>4. Begin.stats.histogram = NoHistogram
    BY <2>1
  <2> QED
    BY <1>3, <2>1, <2>2, <2>3, <2>4 DEF Merged
<1> QED
  BY <1>1, <1>4 DEF MergeInv

LEMMA MergeNext ==
    ASSUME MergeInv, [Next]_vars
    PROVE  MergeInv'
<1>1. ASSUME NEW p \in Parts, MergePartial(p) PROVE MergeInv'
  BY <1>1, MergePartialStep
<1>2. CASE Finish
  BY <1>2, FinishStep
<1>3. CASE UNCHANGED vars
  <2>1. /\ data' = data /\ owner' = owner /\ mode' = mode /\ todo' = todo /\ acc' = acc
        /\ outcome' = outcome
    BY <1>3 DEF vars
  <2> QED
    BY <2>1 DEF MergeInv, DataInv, Fits
<1> QED
  BY <1>1, <1>2, <1>3 DEF Next

\* acc is the statistics of the samples of the partials merged so far.
THEOREM MergeInvariant == Spec => []MergeInv
<1>1. Init => MergeInv
  BY MergeInit
<1>2. MergeInv /\ [Next]_vars => MergeInv'
  BY MergeNext
<1> QED
  BY <1>1, <1>2, PTL DEF Spec

-----------------------------------------------------------------------------
(* The properties *)

\* The bins of a histogram have between them every sample counted.
LEMMA CountedAll ==
    ASSUME NEW d, NEW cells, IsFiniteSet(cells), \A c \in cells : d[c] \in Int, NEW kind,
           NEW bins, IsBins(bins), NEW h, h = Counted(d, cells, kind, bins)
    PROVE  Sum(h.counts, DOMAIN h.counts) = Cardinality(cells)
<1> DEFINE I == DOMAIN bins
           b == [c \in cells |-> BinIndexForValue(d[c], BinUpperEdges(bins))]
           f == h.counts
<1>1. f = [i \in I |-> Cardinality(InBin(d, cells, bins, i))]
  BY DEF Counted
<1>2. IsFiniteSet(I)
  <2>1. I = 1..Len(bins) /\ Len(bins) \in Nat
    BY DEF IsBins
  <2> HIDE DEF I
  <2> QED
    BY <2>1, FS_Interval
<1>3. \A c \in cells : b[c] \in I
  BY BinIndex
<1>4. \A i : InBin(d, cells, bins, i) = At(cells, b, {i})
  BY DEF InBin, At
<1>5. At(cells, b, I) = cells
  BY <1>3 DEF At
<1> HIDE DEF I, b, f
<1>6. \A i \in I : f[i] = Cardinality(At(cells, b, {i}))
  BY <1>1, <1>4
<1>7. Sum(f, I) = Cardinality(At(cells, b, I))
  BY <1>2, <1>6, CountSum
<1>8. DOMAIN f = I
  BY <1>1
<1> QED
  BY <1>5, <1>7, <1>8 DEF f

LEMMA InvMergeIsWhole ==
    ASSUME MergeInv
    PROVE  MergeIsWhole
<1>1. SUFFICES ASSUME outcome = "ok"
      PROVE  /\ Scalars(acc.stats) = Scalars(ComputeStats(Cells, "none"))
             /\ Fits(acc.stats)
             /\ \A p, q \in {r \in Parts : HasHistogram(r)} : SameBins(p, q)
             /\ Sum(acc.stats.histogram.counts, DOMAIN acc.stats.histogram.counts)
                  = Cardinality({c \in Samples(Cells) : mode[owner[c]] # "none"})
  BY DEF MergeIsWhole, Sum
<1> DEFINE cells == CellsOf(data, owner, Parts)
           h == acc.stats.histogram
           U == BinnedOf(data, owner, mode, Parts)
<1>2. DataInv /\ Merged(data, owner, mode, Parts, acc) /\ Fits(acc.stats)
  <2>1. DataInv /\ Merged(data, owner, mode, Parts \ todo, acc) /\ todo = {} /\ Fits(acc.stats)
    BY <1>1 DEF MergeInv
  <2>2. Parts \ todo = Parts
    BY <2>1
  <2> QED
    BY <2>1, <2>2
<1>3. acc.stats = Tally(data, cells, h) /\ HistogramOk(data, owner, mode, Parts, h)
  BY <1>2, MergedIs
<1>4. Scalars(acc.stats) = Scalars(ComputeStats(Cells, "none"))
  <2> DEFINE g == Histogram(cells, "none")
  <2>1. ComputeStats(Cells, "none") = IF cells = {} THEN Empty ELSE Tally(data, cells, g)
    BY <1>2, WholeIs
  <2>2. cells = {} => Tally(data, cells, NoHistogram) = Empty
    BY TallyEmpty
  <2> HIDE DEF cells, h, g
  <2>3. Scalars(Tally(data, cells, h)) = Scalars(Tally(data, cells, g))
    BY DEF Tally, Scalars
  <2>4. Scalars(Tally(data, cells, h)) = Scalars(Tally(data, cells, NoHistogram))
    BY DEF Tally, Scalars
  <2> QED
    BY <1>3, <2>1, <2>2, <2>3, <2>4
<1>5. \A p \in Parts : HasHistogram(p) <=> p \in Binners(data, owner, mode, Parts)
  <2>1. ASSUME NEW p \in Parts PROVE Samples(PositionsOf(p)) = CellsOf(data, owner, {p})
    BY DEF Samples, PositionsOf, CellsOf
  <2> QED
    BY <2>1 DEF HasHistogram, Binners
<1>6. ASSUME NEW p \in Binners(data, owner, mode, Parts)
      PROVE  Partial(p).histogram.kind = h.kind /\ Partial(p).histogram.bins = h.bins
  <2>1. p \in Parts /\ mode[p] # "none" /\ CellsOf(data, owner, {p}) # {}
    BY <1>6 DEF Binners
  <2>2. Partial(p).histogram = Counted(data, CellsOf(data, owner, {p}), Kind(mode[p]),
                                       BinsOf(data, owner, mode, p))
    BY <1>2, <2>1, PartialOf
  <2>3. h = Counted(data, U, Kind(mode[p]), BinsOf(data, owner, mode, p))
    BY <1>3, <1>6 DEF HistogramOk
  <2> HIDE DEF h, U
  <2> QED
    BY <2>2, <2>3 DEF Counted
<1>7. \A p, q \in {r \in Parts : HasHistogram(r)} : SameBins(p, q)
  <2> HIDE DEF h
  <2> QED
    BY <1>5, <1>6 DEF SameBins
<1>8. {c \in Samples(Cells) : mode[owner[c]] # "none"} = U
  BY <1>2 DEF Samples, BinnedOf, CellsOf, DataInv
<1>9. Sum(h.counts, DOMAIN h.counts) = Cardinality(U)
  <2>1. IsFiniteSet(U) /\ \A c \in U : data[c] \in Int
    BY <1>2, CellsFinite
  <2>2. CASE Binners(data, owner, mode, Parts) = {}
    <3>1. U = {} /\ h = NoHistogram
      BY <1>3, <2>2, NoBinners DEF HistogramOk
    <3>2. h.counts = <<>> /\ DOMAIN h.counts = {}
      BY <3>1 DEF NoHistogram
    <3>3. Sum(<<>>, {}) = 0 /\ Cardinality({}) = 0
      BY SumEmpty, FS_EmptySet
    <3> HIDE DEF U, h
    <3> QED
      BY <3>1, <3>2, <3>3
  <2>3. CASE Binners(data, owner, mode, Parts) # {}
    <3>1. PICK p \in Binners(data, owner, mode, Parts) : TRUE
      BY <2>3
    <3>2. p \in Parts /\ mode[p] # "none" /\ CellsOf(data, owner, {p}) # {}
      BY <3>1 DEF Binners
    <3> DEFINE kind == Kind(mode[p])
               bins == BinsOf(data, owner, mode, p)
    <3>3. h = Counted(data, U, kind, bins) /\ IsBins(bins)
      BY <1>2, <1>3, <3>1, <3>2, PartialOf DEF HistogramOk
    <3> HIDE DEF U, h, kind, bins
    <3> QED
      BY <2>1, <3>3, CountedAll
  <2> QED
    BY <2>2, <2>3
<1> QED
  BY <1>2, <1>4, <1>7, <1>8, <1>9

LEMMA InvAgreedCentersMerge ==
    ASSUME MergeInv
    PROVE  AgreedCentersMerge
<1> DEFINE whole == ComputeStats(Cells, "centers")
           cells == CellsOf(data, owner, Parts)
           h == acc.stats.histogram
<1>1. SUFFICES ASSUME \A p \in Parts : mode[p] = "centers", outcome # "merging"
               PROVE  IF Fits(whole) THEN outcome = "ok" /\ acc.stats = whole ELSE outcome = "error"
  BY DEF AgreedCentersMerge
<1>2. DataInv /\ outcome \in {"ok", "error"}
  BY <1>1 DEF MergeInv
<1>3. whole = IF cells = {} THEN Empty ELSE Tally(data, cells, Histogram(cells, "centers"))
  BY <1>2, WholeIs
<1>4. Histogram(cells, "centers") = Counted(data, cells, "centers", Given)
  <2>1. Histogram(cells, "centers") = Counted(data, cells, Kind("centers"), Bins(data, cells, "centers"))
    BY HistogramIs
  <2> QED
    BY <2>1 DEF Kind, Bins
<1>5. cells = {} => Tally(data, cells, NoHistogram) = Empty
  BY TallyEmpty
<1>6. Fits(whole) <=> Fits(Tally(data, cells, NoHistogram))
  <2> DEFINE g == Histogram(cells, "centers")
  <2> HIDE DEF cells, whole, g
  <2>1. whole = IF cells = {} THEN Empty ELSE Tally(data, cells, g)
    BY <1>3 DEF g
  <2> QED
    BY <1>5, <2>1 DEF Fits, Tally
<1>7. CASE outcome = "error"
  <2>1. ~Fits(Tally(data, cells, NoHistogram))
    BY <1>1, <1>7 DEF MergeInv, Failed
  <2> QED
    BY <1>6, <1>7, <2>1
<1>8. CASE outcome = "ok"
  <2>1. Merged(data, owner, mode, Parts, acc) /\ Fits(acc.stats)
    <3>1. Merged(data, owner, mode, Parts \ todo, acc) /\ todo = {} /\ Fits(acc.stats)
      BY <1>8 DEF MergeInv
    <3>2. Parts \ todo = Parts
      BY <3>1
    <3> QED
      BY <3>1, <3>2
  <2>2. acc.stats = Tally(data, cells, h) /\ HistogramOk(data, owner, mode, Parts, h)
    BY <2>1, MergedIs
  <2>3. BinnedOf(data, owner, mode, Parts) = cells
    BY <1>1 DEF BinnedOf, CellsOf
  <2>4. acc.stats = whole
    <3>1. CASE cells = {}
      <4>1. Binners(data, owner, mode, Parts) = {}
        BY <3>1 DEF Binners, CellsOf
      <4>2. h = NoHistogram
        BY <2>2, <4>1 DEF HistogramOk
      <4> HIDE DEF whole, cells, h
      <4> QED
        BY <1>3, <1>5, <2>2, <3>1, <4>2
    <3>2. CASE cells # {}
      <4>1. PICK c \in cells : TRUE
        BY <3>2
      <4>2. owner[c] \in Parts /\ mode[owner[c]] = "centers" /\ owner[c] \in Binners(data, owner, mode, Parts)
        BY <1>1, <4>1 DEF CellsOf, Binners
      <4>3. h = Counted(data, cells, Kind(mode[owner[c]]), BinsOf(data, owner, mode, owner[c]))
        BY <2>2, <2>3, <4>2 DEF HistogramOk
      <4>4. h = Counted(data, cells, "centers", Given)
        BY <4>2, <4>3, GivenBins
      <4> HIDE DEF whole, cells, h
      <4> QED
        BY <1>3, <1>4, <2>2, <3>2, <4>4
    <3> QED
      BY <3>1, <3>2
  <2> QED
    BY <1>8, <2>1, <2>4
<1> QED
  BY <1>2, <1>7, <1>8

LEMMA InvNearestBin ==
    ASSUME DataInv
    PROVE  NearestBin
<1>1. SUFFICES ASSUME NEW p \in Parts, HasHistogram(p), NEW i \in DOMAIN Partial(p).histogram.bins
      PROVE  Partial(p).histogram.counts[i] =
               Cardinality({c \in Samples(PositionsOf(p)) : Nearest(data[c], Partial(p).histogram.bins, i)})
  BY DEF NearestBin, Nearest
<1> DEFINE cells == CellsOf(data, owner, {p})
           h == Partial(p).histogram
           bins == BinsOf(data, owner, mode, p)
<1>2. Samples(PositionsOf(p)) = cells
  BY DEF Samples, PositionsOf, CellsOf
<1>3. cells # {} /\ mode[p] # "none"
  BY <1>1, <1>2 DEF HasHistogram
<1>4. h = Counted(data, cells, Kind(mode[p]), bins) /\ IsBins(bins)
  BY <1>1, <1>3, PartialOf
<1>5. \A c \in cells : data[c] \in Int
  BY CellsFinite
<1> HIDE DEF cells, h, bins
<1>6. h.bins = bins /\ i \in DOMAIN bins /\ h.counts[i] = Cardinality(InBin(data, cells, bins, i))
  BY <1>1, <1>4 DEF Counted, h
<1>7. InBin(data, cells, bins, i) = {c \in cells : Nearest(data[c], bins, i)}
  BY <1>4, <1>5, <1>6, NearestIsBin DEF InBin
<1> QED
  BY <1>2, <1>6, <1>7 DEF h

\* What MergeStats returns is about the whole variable: count, sum, minimum and
\* maximum are those of all its samples, histograms were added only where they
\* have the same bins, and the merged one counts every binned sample once
\* (MergeStats, in any order of the partials).
THEOREM MergeIsWholeCorrect == Spec => []MergeIsWhole
<1>1. MergeInv => MergeIsWhole
  BY InvMergeIsWhole
<1> QED
  BY <1>1, MergeInvariant, PTL

\* Callers that agree on bin centers get the statistics of the whole variable,
\* and an error only if its count or its sum does not fit (stats.h:962).
THEOREM AgreedCentersCorrect == Spec => []AgreedCentersMerge
<1>1. MergeInv => AgreedCentersMerge
  BY InvAgreedCentersMerge
<1> QED
  BY <1>1, MergeInvariant, PTL

\* A sample is counted in the bin whose center is nearest to it, in the higher
\* one if two are: the edges between the centers and upper_bound agree with
\* what stats.h:957 says.
THEOREM NearestBinCorrect == Spec => []NearestBin
<1>1. MergeInv => NearestBin
  BY InvNearestBin DEF MergeInv
<1> QED
  BY <1>1, MergeInvariant, PTL
=============================================================================
