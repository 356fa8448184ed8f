---------------------- MODULE CoordinateSelectorProofs ----------------------
(***************************************************************************)
(* The selector, for coordinates of every number of dimensions and every   *)
(* shape, every dataset that has them and any sequence of calls: its runs  *)
(* have their types (TypeCorrect), stay in the order of its sorts          *)
(* (OrderCorrect), and give what the filter asks for, each sample once     *)
(* (ReadCorrect), from one inductive invariant (InvariantCorrect).         *)
(*                                                                         *)
(* The heart is RunIsBox: samples of a hyper-rectangle that follow each    *)
(* other in row-major order, as many as there are, fill the box from the   *)
(* first to the last of them. What isel makes of the descriptors of a run  *)
(* is that box (BoxIs), and what is read is the cells in it (RunCells).    *)
(***************************************************************************)
EXTENDS CoordinateSelector, FiniteSetTheorems, SequenceTheorems, WellFoundedInduction, TLAPS

USE DimsAssumption, SlicesAssumption, VariablesAssumption

-----------------------------------------------------------------------------
(* Numbers *)

LEMMA Least ==
    ASSUME NEW T, T \subseteq Nat, T # {}
    PROVE  \E x \in T : \A y \in T : x <= y
<1> DEFINE R == {ss \in Nat \X Nat : ss[1] < ss[2]}
<1>1. IsWellFoundedOn(R, Nat)
  BY NatLessThanWellFounded DEF OpToRel
<1>2. PICK x \in T : \A y \in T : ~(<<y, x>> \in R)
  <2> HIDE DEF R
  <2> QED
    BY <1>1, WFMin
<1>3. ASSUME NEW y \in T PROVE x <= y
  <2>1. x \in Nat /\ y \in Nat /\ ~(<<y, x>> \in R)
    BY <1>2
  <2> QED
    BY <2>1
<1> QED
  BY <1>3

\* A set that has 0, and with the predecessor each number up to n.
LEMMA Upwards ==
    ASSUME NEW n \in Nat, NEW T, 0 \in T, \A i \in 1..n : i - 1 \in T => i \in T
    PROVE  \A i \in 0..n : i \in T
<1> DEFINE Bad == (0..n) \ T
<1>1. SUFFICES ASSUME Bad # {} PROVE FALSE
  OBVIOUS
<1>2. PICK x \in Bad : \A y \in Bad : x <= y
  <2> HIDE DEF Bad
  <2>1. Bad \subseteq Nat
    BY DEF Bad
  <2> QED
    BY <1>1, <2>1, Least
<1>3. x \in 1..n /\ x - 1 \in 0..n
  BY <1>2
<1>4. x - 1 \in T
  BY <1>2, <1>3
<1> QED
  BY <1>2, <1>3, <1>4

\* A set that has n, and with a number above 0 the one below it.
LEMMA Downwards ==
    ASSUME NEW n \in Nat, NEW T, n \in T, \A i \in 1..n : i \in T => i - 1 \in T
    PROVE  \A i \in 0..n : i \in T
<1> DEFINE U == {i \in 0..n : n - i \in T}
<1>1. 0 \in U
  OBVIOUS
<1>2. ASSUME NEW i \in 1..n, i - 1 \in U PROVE i \in U
  <2>1. n - (i - 1) \in 1..n /\ (n - (i - 1)) - 1 = n - i /\ n - (i - 1) \in T
    BY <1>2
  <2> QED
    BY <2>1
<1>3. \A i \in 0..n : i \in U
  <2> HIDE DEF U
  <2> QED
    BY <1>1, <1>2, Upwards
<1>4. ASSUME NEW i \in 0..n PROVE i \in T
  <2>1. n - i \in U /\ n - (n - i) = i
    BY <1>3
  <2> QED
    BY <2>1
<1> QED
  BY <1>4

LEMMA Greatest ==
    ASSUME NEW n \in Int, NEW T, T \subseteq Int, T # {}, \A x \in T : x <= n
    PROVE  \E x \in T : \A y \in T : y <= x
<1> DEFINE U == {n - x : x \in T}
<1>1. U \subseteq Nat /\ U # {}
  <2>1. ASSUME NEW x \in T PROVE n - x \in Nat
    <3>1. x \in Int /\ x <= n
      BY <2>1
    <3> QED
      BY <3>1
  <2> QED
    BY <2>1
<1>2. PICK u \in U : \A y \in U : u <= y
  <2> HIDE DEF U
  <2> QED
    BY <1>1, Least
<1>3. PICK x \in T : u = n - x
  OBVIOUS
<1>4. ASSUME NEW y \in T PROVE y <= x
  <2>1. n - y \in U /\ x \in Int /\ y \in Int
    BY <1>4
  <2>2. n - x <= n - y
    <3> HIDE DEF U
    <3> QED
      BY <1>2, <1>3, <2>1
  <2> QED
    BY <2>1, <2>2
<1> QED
  BY <1>4

LEMMA ProductMonotonic ==
    ASSUME NEW a \in Int, NEW b \in Int, NEW c \in Int, a <= b, c > 0
    PROVE  a * c <= b * c
OBVIOUS

\* The quotient is what the two bounds say.
LEMMA Quotient ==
    ASSUME NEW m \in Int, NEW c \in Nat \ {0}
    PROVE  /\ m \div c \in Int
           /\ (m \div c) * c <= m /\ m < (m \div c) * c + c
           /\ \A q \in Int : q * c <= m /\ m < q * c + c => q = m \div c
<1> DEFINE p == m \div c
<1>1. p \in Int /\ p * c <= m /\ m < p * c + c
  OBVIOUS
<1> HIDE DEF p
<1>2. ASSUME NEW q \in Int, q * c <= m, m < q * c + c PROVE q = p
  <2>1. CASE q < p
    <3>1. (q + 1) * c <= p * c /\ (q + 1) * c = q * c + c
      BY <1>1, <2>1, ProductMonotonic
    <3>2. q * c \in Int /\ p * c \in Int
      BY <1>1
    <3> QED
      BY <1>1, <1>2, <3>1, <3>2
  <2>2. CASE p < q
    <3>1. (p + 1) * c <= q * c /\ (p + 1) * c = p * c + c
      BY <1>1, <2>2, ProductMonotonic
    <3>2. q * c \in Int /\ p * c \in Int
      BY <1>1
    <3> QED
      BY <1>1, <1>2, <3>1, <3>2
  <2> QED
    BY <1>1, <2>1, <2>2
<1> QED
  BY <1>1, <1>2 DEF p

\* Dividing twice is dividing by the product.
LEMMA QuotientTwice ==
    ASSUME NEW m \in Int, NEW b \in Nat \ {0}, NEW a \in Nat \ {0}
    PROVE  m \div (a * b) = (m \div b) \div a
<1> DEFINE p == m \div b
           q == p \div a
<1>1. p \in Int /\ p * b <= m /\ m < p * b + b
  BY Quotient
<1>2. q \in Int /\ q * a <= p /\ p < q * a + a
  BY <1>1, Quotient
<1> HIDE DEF p, q
<1>3. a * b \in Nat \ {0}
  <2>1. 1 * b <= a * b
    BY ProductMonotonic
  <2> QED
    BY <2>1
<1>4. (q * a) * b <= p * b /\ (q * a) * b = q * (a * b)
  <2>1. q * a \in Int
    BY <1>2
  <2>2. (q * a) * b <= p * b
    BY <1>1, <1>2, <2>1, ProductMonotonic
  <2>3. (q * a) * b = q * (a * b)
    BY <1>2
  <2> QED
    BY <2>2, <2>3
<1>5. (p + 1) * b <= (q * a + a) * b /\ (p + 1) * b = p * b + b
      /\ (q * a + a) * b = q * (a * b) + a * b
  <2>1. q * a + a \in Int /\ p + 1 \in Int /\ p + 1 <= q * a + a
    BY <1>1, <1>2
  <2>2. (p + 1) * b <= (q * a + a) * b
    BY <2>1, ProductMonotonic
  <2>3. (p + 1) * b = p * b + b
    BY <1>1
  <2>4. (q * a + a) * b = q * (a * b) + a * b
    BY <1>2
  <2> QED
    BY <2>2, <2>3, <2>4
<1>6. q * (a * b) <= m /\ m < q * (a * b) + a * b
  <2>1. q * (a * b) \in Int /\ p * b \in Int
    BY <1>1, <1>2
  <2> QED
    BY <1>1, <1>3, <1>4, <1>5, <2>1
<1>7. q = m \div (a * b)
  BY <1>2, <1>3, <1>6, Quotient
<1> QED
  BY <1>7 DEF p, q

LEMMA Division ==
    ASSUME NEW p \in Nat, NEW a \in Nat \ {0}
    PROVE  p = (p \div a) * a + (p % a) /\ p % a \in 0..(a - 1)
<1>1. p % a \in 0..(a - 1)
  OBVIOUS
<1>2. p % a = p - (p \div a) * a
  OBVIOUS
<1>3. (p \div a) * a \in Int
  OBVIOUS
<1>4. p = (p \div a) * a + (p % a)
  BY <1>2, <1>3
<1> QED
  BY <1>1, <1>4

-----------------------------------------------------------------------------
(* Sums and products over sets, by smallest counterexamples *)

LEMMA Smallest ==
    ASSUME NEW C, C # {}, \A s \in C : IsFiniteSet(s)
    PROVE  \E s \in C : \A t \in C : Cardinality(s) <= Cardinality(t)
<1> DEFINE T == {Cardinality(s) : s \in C}
<1>1. T \subseteq Nat /\ T # {}
  BY FS_CardinalityType
<1>2. PICK x \in T : \A y \in T : x <= y
  <2> HIDE DEF T
  <2> QED
    BY <1>1, Least
<1>3. PICK s \in C : x = Cardinality(s)
  OBVIOUS
<1>4. \A t \in C : Cardinality(t) \in T
  OBVIOUS
<1> QED
  BY <1>2, <1>3, <1>4

\* What holds of a set as soon as it holds of all that lack one of its elements
\* holds of all.
LEMMA Removing ==
    ASSUME NEW S, IsFiniteSet(S), NEW Good,
           \A s \in SUBSET S : (\A x \in s : s \ {x} \in Good) => s \in Good
    PROVE  \A s \in SUBSET S : s \in Good
<1> DEFINE Bad == {s \in SUBSET S : s \notin Good}
<1>1. SUFFICES ASSUME Bad # {} PROVE FALSE
  OBVIOUS
<1>2. \A s \in Bad : IsFiniteSet(s)
  BY FS_Subset
<1>3. PICK s \in Bad : \A t \in Bad : Cardinality(s) <= Cardinality(t)
  <2> HIDE DEF Bad
  <2> QED
    BY <1>1, <1>2, Smallest
<1>4. PICK x \in s : s \ {x} \notin Good
  BY <1>3
<1>5. s \ {x} \in Bad
  BY <1>4
<1>6. Cardinality(s \ {x}) = Cardinality(s) - 1 /\ Cardinality(s) \in Nat
  BY <1>2, <1>3, <1>4, FS_RemoveElement, FS_CardinalityType
<1> QED
  BY <1>3, <1>5, <1>6

Pick(s) == CHOOSE x \in s : TRUE

\* One fold for both, by the name of the operation.
Combined(op, a, b) == IF op = "times" THEN a * b ELSE a + b

Unit(op) == IF op = "times" THEN 1 ELSE 0

\* The function by which a fold is computed.
Iterates(g, op, f, S) ==
    g = [s \in SUBSET S |-> IF s = {} THEN Unit(op)
                            ELSE Combined(op, f[Pick(s)], g[s \ {Pick(s)}])]

Fold(op, f, S) == (CHOOSE g : Iterates(g, op, f, S))[S]

LEMMA PickIn ==
    ASSUME NEW s, s # {}
    PROVE  Pick(s) \in s
BY DEF Pick

\* Where two of them are defined they agree.
LEMMA IteratesAgree ==
    ASSUME NEW op, NEW f, NEW S, NEW g, Iterates(g, op, f, S),
           NEW T, NEW h, Iterates(h, op, f, T),
           NEW U, U \subseteq S, U \subseteq T, IsFiniteSet(U)
    PROVE  g[U] = h[U]
<1> DEFINE Good == {s \in SUBSET U : g[s] = h[s]}
<1>1. ASSUME NEW s \in SUBSET U, \A x \in s : s \ {x} \in Good PROVE s \in Good
  <2>1. s \in SUBSET S /\ s \in SUBSET T
    OBVIOUS
  <2>2. /\ g[s] = IF s = {} THEN Unit(op) ELSE Combined(op, f[Pick(s)], g[s \ {Pick(s)}])
        /\ h[s] = IF s = {} THEN Unit(op) ELSE Combined(op, f[Pick(s)], h[s \ {Pick(s)}])
    BY <2>1 DEF Iterates
  <2>3. s # {} => g[s \ {Pick(s)}] = h[s \ {Pick(s)}]
    BY <1>1, PickIn
  <2> QED
    BY <1>1, <2>2, <2>3
<1>2. \A s \in SUBSET U : s \in Good
  <2> HIDE DEF Good
  <2> QED
    BY <1>1, Removing
<1> QED
  BY <1>2

LEMMA IteratesExists ==
    ASSUME NEW op, NEW f, NEW S, IsFiniteSet(S)
    PROVE  \E g : Iterates(g, op, f, S)
<1> DEFINE Good == {s \in SUBSET S : \E g : Iterates(g, op, f, s)}
<1>1. ASSUME NEW U \in SUBSET S, \A x \in U : U \ {x} \in Good PROVE U \in Good
  <2> DEFINE g == [s \in SUBSET U |-> IF s = {} THEN Unit(op)
                       ELSE Combined(op, f[Pick(s)], Fold(op, f, s \ {Pick(s)}))]
  <2>0. ASSUME NEW V \in SUBSET U, V # U
        PROVE  IsFiniteSet(V) /\ Iterates(CHOOSE h : Iterates(h, op, f, V), op, f, V)
    <3>1. PICK x \in U : V \subseteq U \ {x}
      BY <2>0
    <3>2. PICK h : Iterates(h, op, f, U \ {x})
      BY <1>1
    <3> DEFINE k == [s \in SUBSET V |-> h[s]]
    <3>3. ASSUME NEW s \in SUBSET V
          PROVE  k[s] = IF s = {} THEN Unit(op)
                        ELSE Combined(op, f[Pick(s)], k[s \ {Pick(s)}])
      <4>1. s \in SUBSET (U \ {x}) /\ s \ {Pick(s)} \in SUBSET V
        BY <3>1
      <4>2. h[s] = IF s = {} THEN Unit(op)
                   ELSE Combined(op, f[Pick(s)], h[s \ {Pick(s)}])
        BY <3>2, <4>1 DEF Iterates
      <4> QED
        BY <4>1, <4>2
    <3>4. Iterates(k, op, f, V)
      BY <3>3 DEF Iterates
    <3>5. IsFiniteSet(V)
      BY FS_Subset
    <3> HIDE DEF k
    <3> QED
      BY <3>4, <3>5
  <2>1. ASSUME NEW s \in SUBSET U, s # {}
        PROVE  g[s \ {Pick(s)}] = Fold(op, f, s \ {Pick(s)})
    <3> DEFINE r == s \ {Pick(s)}
               h == CHOOSE k : Iterates(k, op, f, r)
               q == r \ {Pick(r)}
               j == CHOOSE k : Iterates(k, op, f, q)
    <3>1. r \in SUBSET U /\ r # U /\ q \in SUBSET U /\ q # U /\ q \subseteq r
      BY <2>1, PickIn
    <3>2. Iterates(h, op, f, r) /\ Iterates(j, op, f, q) /\ IsFiniteSet(q)
      BY <2>0, <3>1
    <3>3. Fold(op, f, r) = h[r] /\ Fold(op, f, q) = j[q]
      BY DEF Fold
    <3>4. g[r] = IF r = {} THEN Unit(op) ELSE Combined(op, f[Pick(r)], Fold(op, f, q))
      BY <3>1
    <3> HIDE DEF g, h, j
    <3>5. h[q] = j[q]
      BY <3>1, <3>2, IteratesAgree
    <3>6. h[r] = IF r = {} THEN Unit(op) ELSE Combined(op, f[Pick(r)], h[q])
      BY <3>2 DEF Iterates
    <3> QED
      BY <3>3, <3>4, <3>5, <3>6
  <2>2. Iterates(g, op, f, U)
    BY <2>1 DEF Iterates
  <2> HIDE DEF g
  <2> QED
    BY <2>2
<1>2. \A s \in SUBSET S : s \in Good
  <2> HIDE DEF Good
  <2> QED
    BY <1>1, Removing
<1>3. S \in Good
  BY <1>2
<1> QED
  BY <1>3

LEMMA FoldStep ==
    ASSUME NEW op, NEW f, NEW S, IsFiniteSet(S)
    PROVE  Fold(op, f, S) = IF S = {} THEN Unit(op)
                               ELSE Combined(op, f[Pick(S)], Fold(op, f, S \ {Pick(S)}))
<1> DEFINE g == CHOOSE k : Iterates(k, op, f, S)
           r == S \ {Pick(S)}
           h == CHOOSE k : Iterates(k, op, f, r)
<1>1. IsFiniteSet(r) /\ r \subseteq S
  BY FS_Subset
<1>2. Iterates(g, op, f, S) /\ Iterates(h, op, f, r)
  BY <1>1, IteratesExists
<1>3. Fold(op, f, S) = g[S] /\ Fold(op, f, r) = h[r]
  BY DEF Fold
<1> HIDE DEF g, h
<1>4. g[r] = h[r]
  BY <1>1, <1>2, IteratesAgree
<1>5. g[S] = IF S = {} THEN Unit(op) ELSE Combined(op, f[Pick(S)], g[r])
  BY <1>2 DEF Iterates
<1> QED
  BY <1>3, <1>4, <1>5

LEMMA FoldEmpty ==
    ASSUME NEW op, NEW f
    PROVE  Fold(op, f, {}) = Unit(op)
BY FoldStep, FS_EmptySet

LEMMA CombinedInt ==
    ASSUME NEW op, NEW a \in Int, NEW b \in Int, NEW c \in Int
    PROVE  /\ Combined(op, a, b) \in Int /\ Unit(op) \in Int
           /\ Combined(op, a, Combined(op, b, c)) = Combined(op, b, Combined(op, a, c))
<1>1. a * b \in Int /\ a + b \in Int
  OBVIOUS
<1>2. a * (b * c) = b * (a * c)
  OBVIOUS
<1>3. a + (b + c) = b + (a + c)
  OBVIOUS
<1> QED
  BY <1>1, <1>2, <1>3 DEF Combined, Unit

LEMMA FoldInt ==
    ASSUME NEW op, NEW f, NEW S, IsFiniteSet(S), \A x \in S : f[x] \in Int
    PROVE  Fold(op, f, S) \in Int
<1> DEFINE Good == {s \in SUBSET S : Fold(op, f, s) \in Int}
<1>1. ASSUME NEW s \in SUBSET S, \A x \in s : s \ {x} \in Good PROVE s \in Good
  <2>1. IsFiniteSet(s)
    BY FS_Subset
  <2>2. Fold(op, f, s) = IF s = {} THEN Unit(op)
                            ELSE Combined(op, f[Pick(s)], Fold(op, f, s \ {Pick(s)}))
    BY <2>1, FoldStep
  <2>3. s # {} => Pick(s) \in s
    BY PickIn
  <2>4. s # {} => f[Pick(s)] \in Int /\ Fold(op, f, s \ {Pick(s)}) \in Int
    BY <1>1, <2>3
  <2>5. Unit(op) \in Int
    BY DEF Unit
  <2>6. Fold(op, f, s) \in Int
    BY <2>2, <2>4, <2>5, CombinedInt
  <2> QED
    BY <2>6
<1>2. \A s \in SUBSET S : s \in Good
  <2> HIDE DEF Good
  <2> QED
    BY <1>1, Removing
<1> QED
  BY <1>2

\* Any element may be the first.
LEMMA FoldRemove ==
    ASSUME NEW op, NEW f, NEW S, IsFiniteSet(S), \A x \in S : f[x] \in Int,
           NEW y \in S
    PROVE  Fold(op, f, S) = Combined(op, f[y], Fold(op, f, S \ {y}))
<1> DEFINE Good == {s \in SUBSET S :
               \A z \in s : Fold(op, f, s) = Combined(op, f[z], Fold(op, f, s \ {z}))}
<1>1. ASSUME NEW s \in SUBSET S, \A x \in s : s \ {x} \in Good PROVE s \in Good
  <2>1. SUFFICES ASSUME NEW z \in s
                 PROVE  Fold(op, f, s) = Combined(op, f[z], Fold(op, f, s \ {z}))
    OBVIOUS
  <2> DEFINE x == Pick(s)
  <2>2. x \in s /\ Fold(op, f, s) = Combined(op, f[x], Fold(op, f, s \ {x}))
    <3>1. IsFiniteSet(s) /\ s # {}
      BY <2>1, FS_Subset
    <3> QED
      BY <3>1, FoldStep, PickIn
  <2> HIDE DEF x
  <2>3. CASE x = z
    BY <2>2, <2>3
  <2>4. CASE x # z
    <3> DEFINE rest == Fold(op, f, (s \ {x}) \ {z})
    <3>1. (s \ {x}) \ {z} = (s \ {z}) \ {x}
      OBVIOUS
    <3>2. Fold(op, f, s \ {x}) = Combined(op, f[z], rest)
      BY <1>1, <2>1, <2>2, <2>4
    <3>3. Fold(op, f, s \ {z}) = Combined(op, f[x], rest)
      BY <1>1, <2>1, <2>2, <2>4, <3>1
    <3>4. rest \in Int
      <4>1. IsFiniteSet((s \ {x}) \ {z})
        BY FS_Subset
      <4> QED
        BY <4>1, FoldInt
    <3>5. f[x] \in Int /\ f[z] \in Int
      BY <2>1, <2>2
    <3> HIDE DEF rest
    <3> QED
      BY <2>2, <3>2, <3>3, <3>4, <3>5, CombinedInt
  <2> QED
    BY <2>3, <2>4
<1>2. \A s \in SUBSET S : s \in Good
  <2> HIDE DEF Good
  <2> QED
    BY <1>1, Removing
<1> QED
  BY <1>2

-----------------------------------------------------------------------------
(* Row-major order *)

LEMMA Sizes ==
    /\ NumDims \in Nat \ {0} /\ Dims = 1..NumDims /\ Dims \subseteq Nat
    /\ \A d \in Dims : Shape[d] \in Nat \ {0}
    /\ Rank \in Dims /\ CoordDims = 1..Rank /\ CoordDims \subseteq Dims /\ CoordDims \in Variables
    /\ \A v \in Variables : v \in SUBSET Dims /\ v # {}
BY ShapeAssumption, CoordinatesAssumption DEF Dims, CoordDims

LEMMA DimsFinite ==
    ASSUME NEW v \in SUBSET Dims
    PROVE  IsFiniteSet(v)
<1>1. IsFiniteSet(1..NumDims)
  BY FS_Interval, Sizes
<1>2. v \in SUBSET (1..NumDims)
  BY Sizes
<1> QED
  BY <1>1, <1>2, FS_Subset

LEMMA StrideIs ==
    ASSUME NEW v \in SUBSET Dims, NEW d
    PROVE  Stride(v, d) = Fold("times", Shape, {e \in v : e > d})
<1> DEFINE S == {e \in v : e > d}
           Def(g) == g = [s \in SUBSET S |-> IF s = {} THEN 1
                             ELSE Shape[CHOOSE x \in s : TRUE] * g[s \ {CHOOSE x \in s : TRUE}]]
           c == CHOOSE g : Def(g)
           h == CHOOSE g : Iterates(g, "times", Shape, S)
<1>1. \A g : Iterates(g, "times", Shape, S) <=> Def(g)
  BY DEF Iterates, Pick, Combined, Unit
<1>2. Stride(v, d) = c[S]
  BY DEF Stride, FoldFunctionOnSet, MapThenFoldSet
<1>3. IsFiniteSet(S)
  BY DimsFinite
<1> HIDE DEF S, Def
<1>4. \E g : Iterates(g, "times", Shape, S)
  BY <1>3, IteratesExists
<1>5. Iterates(h, "times", Shape, S)
  BY <1>4
<1>6. Iterates(c, "times", Shape, S)
  <2>1. \E g : Def(g)
    BY <1>1, <1>4
  <2>2. Def(c)
    BY <2>1
  <2> QED
    BY <1>1, <2>2
<1> HIDE DEF c, h
<1>7. c[S] = h[S]
  BY <1>3, <1>5, <1>6, IteratesAgree
<1> QED
  BY <1>2, <1>7 DEF Fold, S, h

LEMMA StrideLast ==
    ASSUME NEW v \in SUBSET Dims
    PROVE  Stride(v, NumDims) = 1
<1>1. {e \in v : e > NumDims} = {}
  <2>1. \A e \in v : e \in 1..NumDims
    BY Sizes
  <2>2. NumDims \in Nat /\ \A e \in 1..NumDims : ~(e > NumDims)
    BY Sizes
  <2> QED
    BY <2>1, <2>2
<1> QED
  BY <1>1, StrideIs, FoldEmpty DEF Unit

LEMMA StrideStep ==
    ASSUME NEW v \in SUBSET Dims, NEW d \in Dims
    PROVE  Stride(v, d - 1) = IF d \in v THEN Shape[d] * Stride(v, d) ELSE Stride(v, d)
<1>1. d \in Nat /\ \A e \in v : e \in Nat
  BY Sizes
<1>2. CASE d \in v
  <2> DEFINE S == {e \in v : e > d - 1}
  <2>1. S \ {d} = {e \in v : e > d} /\ d \in S /\ S \in SUBSET Dims
    <3>1. \A e \in v : e > d <=> e > d - 1 /\ e # d
      BY <1>1
    <3>2. d > d - 1
      BY <1>1
    <3> QED
      BY <1>2, <3>1, <3>2
  <2>2. IsFiniteSet(S) /\ \A e \in S : Shape[e] \in Int
    BY <2>1, DimsFinite, Sizes
  <2> HIDE DEF S
  <2>3. Fold("times", Shape, S) = Combined("times", Shape[d], Fold("times", Shape, S \ {d}))
    BY <2>1, <2>2, FoldRemove
  <2>4. Fold("times", Shape, S) = Stride(v, d - 1) /\ Fold("times", Shape, S \ {d}) = Stride(v, d)
    BY <2>1, StrideIs DEF S
  <2> QED
    BY <1>2, <2>3, <2>4 DEF Combined
<1>3. CASE d \notin v
  <2>1. {e \in v : e > d - 1} = {e \in v : e > d}
    <3>1. \A e \in v : e > d <=> e > d - 1 /\ e # d
      BY <1>1
    <3> QED
      BY <1>3, <3>1
  <2> QED
    BY <1>3, <2>1, StrideIs
<1> QED
  BY <1>2, <1>3

LEMMA StrideType ==
    ASSUME NEW v \in SUBSET Dims
    PROVE  \A d \in 0..NumDims : Stride(v, d) \in Nat \ {0}
<1> DEFINE T == {d \in 0..NumDims : Stride(v, d) \in Nat \ {0}}
<1>1. NumDims \in T
  BY StrideLast, Sizes
<1>2. ASSUME NEW d \in 1..NumDims, d \in T PROVE d - 1 \in T
  <2>1. d \in Dims /\ d - 1 \in 0..NumDims /\ Shape[d] \in Nat \ {0} /\ Stride(v, d) \in Nat \ {0}
    BY <1>2, Sizes
  <2> DEFINE a == Shape[d]
             b == Stride(v, d)
  <2>2. a \in Nat \ {0} /\ b \in Nat \ {0}
    BY <2>1
  <2> HIDE DEF a, b
  <2>3. a * b \in Nat \ {0}
    <3>1. 1 * b <= a * b
      BY <2>2, ProductMonotonic
    <3> QED
      BY <2>2, <3>1
  <2>4. Stride(v, d - 1) = a * b \/ Stride(v, d - 1) = b
    BY <2>1, StrideStep DEF a, b
  <2> QED
    BY <2>1, <2>2, <2>3, <2>4
<1>3. \A d \in 0..NumDims : d \in T
  <2> HIDE DEF T
  <2> QED
    BY <1>1, <1>2, Downwards, Sizes
<1> QED
  BY <1>3

\* Whose digits are those of the first d dimensions.
Prefix(v, n, d) == (n - 1) \div Stride(v, d)

LEMMA PrefixBounds ==
    ASSUME NEW v \in SUBSET Dims, NEW n \in Nat \ {0}, NEW d \in 0..NumDims
    PROVE  /\ Prefix(v, n, d) \in Nat
           /\ Prefix(v, n, d) * Stride(v, d) <= n - 1
           /\ n - 1 < Prefix(v, n, d) * Stride(v, d) + Stride(v, d)
           /\ \A q \in Int : q * Stride(v, d) <= n - 1 /\ n - 1 < q * Stride(v, d) + Stride(v, d)
                                => q = Prefix(v, n, d)
<1> DEFINE c == Stride(v, d)
           p == (n - 1) \div c
<1>1. c \in Nat \ {0} /\ n - 1 \in Int
  BY StrideType
<1> HIDE DEF c
<1>2. /\ p \in Int /\ p * c <= n - 1 /\ n - 1 < p * c + c
      /\ \A q \in Int : q * c <= n - 1 /\ n - 1 < q * c + c => q = p
  BY <1>1, Quotient
<1> HIDE DEF p
<1>3. p >= 0
  <2>1. SUFFICES ASSUME p + 1 <= 0 PROVE FALSE
    BY <1>2
  <2>2. (p + 1) * c <= 0 * c /\ (p + 1) * c = p * c + c /\ 0 * c = 0
    BY <1>1, <1>2, <2>1, ProductMonotonic
  <2>3. p * c \in Int
    BY <1>1, <1>2
  <2> QED
    BY <1>1, <1>2, <2>2, <2>3
<1>4. Prefix(v, n, d) = p
  BY DEF Prefix, p, c
<1>5. /\ Prefix(v, n, d) * c <= n - 1
      /\ n - 1 < Prefix(v, n, d) * c + c
  BY <1>2, <1>4
<1>6. \A q \in Int : q * c <= n - 1 /\ n - 1 < q * c + c => q = Prefix(v, n, d)
  BY <1>2, <1>4
<1>7. Prefix(v, n, d) \in Nat
  BY <1>2, <1>3, <1>4
<1> QED
  BY <1>5, <1>6, <1>7 DEF c

LEMMA PrefixLast ==
    ASSUME NEW v \in SUBSET Dims, NEW n \in Nat \ {0}
    PROVE  Prefix(v, n, NumDims) = n - 1
BY StrideLast DEF Prefix

LEMMA PrefixFirst ==
    ASSUME NEW v \in SUBSET Dims, NEW n \in Nat \ {0}
    PROVE  Prefix(v, n, 0) = 0 <=> n \in 1..Stride(v, 0)
<1> DEFINE c == Stride(v, 0)
<1>1. c \in Nat \ {0} /\ 0 \in 0..NumDims
  BY StrideType, Sizes
<1>2. /\ Prefix(v, n, 0) * c <= n - 1
      /\ n - 1 < Prefix(v, n, 0) * c + c
      /\ \A q \in Int : q * c <= n - 1 /\ n - 1 < q * c + c => q = Prefix(v, n, 0)
  BY <1>1, PrefixBounds
<1> HIDE DEF c
<1>3. 0 * c = 0
  BY <1>1
<1>4. ASSUME n \in 1..c PROVE Prefix(v, n, 0) = 0
  BY <1>1, <1>2, <1>3, <1>4
<1>5. ASSUME Prefix(v, n, 0) = 0 PROVE n \in 1..c
  BY <1>1, <1>2, <1>3, <1>5
<1> QED
  BY <1>4, <1>5 DEF c

LEMMA PrefixStep ==
    ASSUME NEW v \in SUBSET Dims, NEW n \in Nat \ {0}, NEW d \in Dims
    PROVE  IF d \in v
           THEN /\ Prefix(v, n, d - 1) = Prefix(v, n, d) \div Shape[d]
                /\ Prefix(v, n, d) % Shape[d] \in 0..(Shape[d] - 1)
                /\ Prefix(v, n, d) =
                       Prefix(v, n, d - 1) * Shape[d] + (Prefix(v, n, d) % Shape[d])
           ELSE Prefix(v, n, d - 1) = Prefix(v, n, d)
<1>1. d \in 0..NumDims /\ d - 1 \in 0..NumDims /\ Shape[d] \in Nat \ {0}
  BY Sizes
<1>2. CASE d \in v
  <2> DEFINE a == Shape[d]
             b == Stride(v, d)
             m == n - 1
             p == m \div b
  <2>1. a \in Nat \ {0} /\ b \in Nat \ {0} /\ m \in Int /\ Stride(v, d - 1) = a * b
    BY <1>1, <1>2, StrideStep, StrideType
  <2>2. Prefix(v, n, d) = p /\ Prefix(v, n, d - 1) = m \div (a * b)
    BY <2>1 DEF Prefix
  <2>3. p \in Nat
    BY <1>1, <2>2, PrefixBounds
  <2> HIDE DEF a, b, m
  <2>4. m \div (a * b) = p \div a
    BY <2>1, QuotientTwice
  <2> HIDE DEF p
  <2>5. p = (p \div a) * a + (p % a) /\ p % a \in 0..(a - 1)
    BY <2>1, <2>3, Division
  <2> QED
    BY <1>2, <2>2, <2>4, <2>5 DEF a
<1>3. CASE d \notin v
  BY <1>3, StrideStep DEF Prefix
<1> QED
  BY <1>2, <1>3

LEMMA PrefixMonotonic ==
    ASSUME NEW v \in SUBSET Dims, NEW n \in Nat \ {0}, NEW m \in Nat \ {0}, n <= m,
           NEW d \in 0..NumDims
    PROVE  Prefix(v, n, d) <= Prefix(v, m, d)
<1> DEFINE c == Stride(v, d)
           p == Prefix(v, n, d)
           q == Prefix(v, m, d)
<1>1. c \in Nat \ {0} /\ p \in Nat /\ q \in Nat /\ p * c <= n - 1 /\ m - 1 < q * c + c
  BY StrideType, PrefixBounds
<1> HIDE DEF c, p, q
<1>2. SUFFICES ASSUME q + 1 <= p PROVE FALSE
  BY <1>1 DEF p, q
<1>3. (q + 1) * c <= p * c /\ (q + 1) * c = q * c + c
  BY <1>1, <1>2, ProductMonotonic
<1>4. p * c \in Int /\ q * c \in Int
  BY <1>1
<1> QED
  BY <1>1, <1>3, <1>4

\* Where two numbers have the same digits they have the same prefix, and back.
LEMMA PrefixesNest ==
    ASSUME NEW v \in SUBSET Dims, NEW n \in Nat \ {0}, NEW m \in Nat \ {0},
           NEW k \in 0..NumDims, Prefix(v, n, k) = Prefix(v, m, k)
    PROVE  /\ \A d \in 0..k : Prefix(v, n, d) = Prefix(v, m, d)
           /\ \A d \in v : d <= k => Prefix(v, n, d) % Shape[d] = Prefix(v, m, d) % Shape[d]
<1> DEFINE T == {d \in 0..k : Prefix(v, n, d) = Prefix(v, m, d)}
<1>1. k \in T
  OBVIOUS
<1>2. ASSUME NEW d \in 1..k, d \in T PROVE d - 1 \in T
  <2>1. d \in Dims /\ d - 1 \in 0..k
    BY Sizes
  <2>2. Prefix(v, n, d) = Prefix(v, m, d)
    BY <1>2
  <2>3. Prefix(v, n, d - 1) = Prefix(v, m, d - 1)
    <3>1. d \in v => /\ Prefix(v, n, d - 1) = Prefix(v, n, d) \div Shape[d]
                     /\ Prefix(v, m, d - 1) = Prefix(v, m, d) \div Shape[d]
      BY <2>1, PrefixStep
    <3>2. d \notin v => /\ Prefix(v, n, d - 1) = Prefix(v, n, d)
                        /\ Prefix(v, m, d - 1) = Prefix(v, m, d)
      BY <2>1, PrefixStep
    <3> QED
      BY <2>2, <3>1, <3>2
  <2> QED
    BY <2>1, <2>3
<1>3. \A d \in 0..k : d \in T
  <2> HIDE DEF T
  <2> QED
    BY <1>1, <1>2, Downwards
<1>4. ASSUME NEW d \in v, d <= k PROVE d \in 0..k
  BY <1>4, Sizes
<1> QED
  BY <1>3, <1>4

\* A cell, by its digits.
Digit(v, n, d) == Prefix(v, n, d) % Shape[d]

LEMMA CellIs ==
    ASSUME NEW v \in Variables
    PROVE  /\ v \in SUBSET Dims /\ Stride(v, 0) \in Nat \ {0}
           /\ DOMAIN AllCells = Variables /\ DOMAIN AllCells[v] = 1..Stride(v, 0)
           /\ \A n \in 1..Stride(v, 0) : AllCells[v][n] = [d \in v |-> Digit(v, n, d)]
<1>1. v \in SUBSET Dims /\ 0 \in 0..NumDims
  BY Sizes
<1> QED
  BY <1>1, StrideType DEF AllCells, Digit, Prefix

LEMMA DigitIs ==
    ASSUME NEW v \in SUBSET Dims, NEW n \in Nat \ {0}, NEW d \in v
    PROVE  /\ Digit(v, n, d) \in Nat /\ Digit(v, n, d) < Shape[d]
           /\ Prefix(v, n, d) = Prefix(v, n, d - 1) * Shape[d] + Digit(v, n, d)
<1>1. d \in Dims /\ Shape[d] \in Nat \ {0}
  BY Sizes
<1>2. Digit(v, n, d) \in 0..(Shape[d] - 1)
  BY <1>1, PrefixStep DEF Digit
<1>3. Prefix(v, n, d) = Prefix(v, n, d - 1) * Shape[d] + Digit(v, n, d)
  BY <1>1, PrefixStep DEF Digit
<1> QED
  BY <1>1, <1>2, <1>3

LEMMA CellType ==
    ASSUME NEW v \in Variables, NEW n \in 1..Stride(v, 0)
    PROVE  /\ AllCells[v][n] \in [v -> Nat]
           /\ \A d \in v : AllCells[v][n][d] = Digit(v, n, d) /\ AllCells[v][n][d] < Shape[d]
<1>1. v \in SUBSET Dims /\ n \in Nat \ {0} /\ AllCells[v][n] = [d \in v |-> Digit(v, n, d)]
  BY CellIs
<1>2. \A d \in v : Digit(v, n, d) \in Nat /\ Digit(v, n, d) < Shape[d]
  BY <1>1, DigitIs
<1> QED
  BY <1>1, <1>2

\* Row-major order is the order of the first dimension in which cells differ.
LEMMA FirstDifference ==
    ASSUME NEW v \in Variables, NEW n \in 1..Stride(v, 0), NEW m \in 1..Stride(v, 0), n < m
    PROVE  \E d \in v : /\ Digit(v, n, d) < Digit(v, m, d)
                        /\ \A e \in v : e < d => Digit(v, n, e) = Digit(v, m, e)
                        /\ Prefix(v, n, d) < Prefix(v, m, d)
<1>1. v \in SUBSET Dims /\ n \in Nat \ {0} /\ m \in Nat \ {0} /\ v \subseteq Nat
  BY CellIs, Sizes
<1> DEFINE T == {d \in 0..NumDims : Prefix(v, n, d) # Prefix(v, m, d)}
<1>2. NumDims \in T
  <2>1. Prefix(v, n, NumDims) = n - 1 /\ Prefix(v, m, NumDims) = m - 1
    BY <1>1, PrefixLast
  <2> QED
    BY <1>1, <2>1, Sizes
<1>3. PICK d \in T : \A e \in T : d <= e
  <2>1. T \subseteq Nat /\ T # {}
    BY <1>2
  <2> HIDE DEF T
  <2> QED
    BY <2>1, Least
<1>4. 0 \notin T
  BY <1>1, PrefixFirst
<1>5. d \in Dims /\ d - 1 \in 0..NumDims /\ d - 1 \notin T /\ d \in 0..NumDims
  BY <1>3, <1>4, Sizes
<1>6. d \in v
  <2>1. SUFFICES ASSUME d \notin v PROVE FALSE
    OBVIOUS
  <2>2. Prefix(v, n, d - 1) = Prefix(v, n, d) /\ Prefix(v, m, d - 1) = Prefix(v, m, d)
    BY <1>1, <1>5, <2>1, PrefixStep
  <2> QED
    BY <1>5, <2>2
<1>7. Prefix(v, n, d) < Prefix(v, m, d)
  <2>1. Prefix(v, n, d) <= Prefix(v, m, d) /\ Prefix(v, n, d) # Prefix(v, m, d)
    BY <1>1, <1>5, PrefixMonotonic
  <2>2. Prefix(v, n, d) \in Nat /\ Prefix(v, m, d) \in Nat
    BY <1>1, <1>5, PrefixBounds
  <2> QED
    BY <2>1, <2>2
<1>8. Prefix(v, n, d - 1) = Prefix(v, m, d - 1)
  BY <1>5
<1>9. Digit(v, n, d) < Digit(v, m, d)
  <2> DEFINE r == Prefix(v, n, d - 1) * Shape[d]
  <2>1. r \in Int
    <3>1. Prefix(v, n, d - 1) \in Nat /\ Shape[d] \in Nat
      BY <1>1, <1>5, PrefixBounds, Sizes
    <3> QED
      BY <3>1
  <2>2. Prefix(v, n, d) = r + Digit(v, n, d) /\ Prefix(v, m, d) = r + Digit(v, m, d)
    BY <1>1, <1>6, <1>8, DigitIs
  <2>3. Digit(v, n, d) \in Nat /\ Digit(v, m, d) \in Nat
    BY <1>1, <1>6, DigitIs
  <2> HIDE DEF r
  <2> QED
    BY <1>7, <2>1, <2>2, <2>3
<1>10. ASSUME NEW e \in v, e < d PROVE Digit(v, n, e) = Digit(v, m, e)
  <2>1. e \in Nat /\ d \in Nat /\ e <= d - 1
    BY <1>1, <1>6, <1>10
  <2> QED
    BY <1>1, <1>5, <1>8, <2>1, PrefixesNest DEF Digit
<1> QED
  BY <1>6, <1>7, <1>9, <1>10

LEMMA CellsDiffer ==
    ASSUME NEW v \in Variables, NEW n \in 1..Stride(v, 0), NEW m \in 1..Stride(v, 0),
           AllCells[v][n] = AllCells[v][m]
    PROVE  n = m
<1>1. \A d \in v : Digit(v, n, d) = Digit(v, m, d) /\ Digit(v, n, d) \in Nat
  BY CellType
<1>2. ~(n < m) /\ ~(m < n)
  BY <1>1, FirstDifference
<1> QED
  BY <1>2, CellIs

\* Every combination of positions is a cell.
LEMMA CellsOnto ==
    ASSUME NEW v \in Variables, NEW c \in [v -> Nat], \A d \in v : c[d] < Shape[d]
    PROVE  \E n \in 1..Stride(v, 0) : AllCells[v][n] = c
<1>1. v \in SUBSET Dims /\ Stride(v, 0) \in Nat \ {0} /\ v \subseteq Nat
  BY CellIs, Sizes
<1> DEFINE Has(n, k) == \A d \in v : d <= k => Digit(v, n, d) = c[d]
           T == {k \in 0..NumDims : \E n \in 1..Stride(v, 0) : Has(n, k)}
<1>2. 0 \in T
  <2>1. 1 \in 1..Stride(v, 0) /\ \A d \in v : ~(d <= 0)
    BY <1>1, Sizes
  <2> QED
    BY <2>1, Sizes
<1>3. ASSUME NEW k \in 1..NumDims, k - 1 \in T PROVE k \in T
  <2>1. PICK n \in 1..Stride(v, 0) : Has(n, k - 1)
    BY <1>3
  <2>2. k \in Dims /\ k \in 0..NumDims /\ k - 1 \in 0..NumDims /\ n \in Nat \ {0}
        /\ Shape[k] \in Nat \ {0} /\ Stride(v, k) \in Nat \ {0}
    BY <1>1, <1>3, StrideType, Sizes
  <2>3. CASE k \notin v
    <3>1. Has(n, k)
      <4>1. \A d \in v : d <= k => d <= k - 1
        BY <1>1, <2>2, <2>3
      <4> QED
        BY <2>1, <4>1
    <3> QED
      BY <2>1, <2>2, <3>1
  <2>4. CASE k \in v
    <3> DEFINE a == Shape[k]
               s == Stride(v, k)
               q == Prefix(v, n, k - 1)
               p == q * a + c[k]
               m == p * s + 1
    <3>1. /\ a \in Nat \ {0} /\ s \in Nat \ {0} /\ q \in Nat
          /\ c[k] \in Nat /\ c[k] < a
      BY <1>1, <2>2, <2>4, PrefixBounds
    <3> HIDE DEF a, s, q
    <3>2. p \in Nat /\ q * a <= p /\ p < q * a + a
      <4>1. q * a \in Nat
        BY <3>1
      <4> QED
        BY <3>1, <4>1
    <3>3. q = p \div a
      BY <3>1, <3>2, Quotient
    <3> HIDE DEF p
    <3>4. p * s \in Nat
      BY <3>1, <3>2
    <3>5. m \in Nat \ {0} /\ p * s <= m - 1 /\ m - 1 < p * s + s
      BY <3>1, <3>4
    <3> HIDE DEF m
    <3>6. p = Prefix(v, m, k)
      BY <1>1, <2>2, <3>2, <3>5, PrefixBounds DEF s
    <3>7. Prefix(v, m, k - 1) = q
      BY <1>1, <2>2, <2>4, <3>3, <3>5, <3>6, PrefixStep DEF a
    <3>8. Digit(v, m, k) = c[k]
      <4>1. p = q * a + Digit(v, m, k) /\ Digit(v, m, k) \in Nat
        BY <1>1, <2>4, <3>5, <3>6, <3>7, DigitIs DEF a
      <4>2. p = q * a + c[k] /\ q * a \in Nat
        BY <3>1 DEF p
      <4> QED
        BY <3>1, <4>1, <4>2
    <3>9. /\ Prefix(v, m, 0) = Prefix(v, n, 0)
          /\ \A d \in v : d <= k - 1 => Digit(v, m, d) = Digit(v, n, d)
      BY <1>1, <2>2, <3>5, <3>7, PrefixesNest DEF q, Digit
    <3>10. m \in 1..Stride(v, 0)
      BY <1>1, <2>1, <2>2, <3>5, <3>9, PrefixFirst
    <3>11. Has(m, k)
      <4>1. \A d \in v : d <= k => d <= k - 1 \/ d = k
        BY <1>1, <2>2
      <4> QED
        BY <2>1, <3>8, <3>9, <4>1
    <3> QED
      BY <2>2, <3>10, <3>11
  <2> QED
    BY <2>3, <2>4
<1>4. \A k \in 0..NumDims : k \in T
  <2> HIDE DEF T
  <2> QED
    BY <1>2, <1>3, Upwards, Sizes
<1>5. PICK n \in 1..Stride(v, 0) : Has(n, NumDims)
  <2>1. NumDims \in T
    <3> HIDE DEF T
    <3> QED
      BY <1>4, Sizes
  <2> QED
    BY <2>1
<1>6. \A d \in v : d <= NumDims
  BY <1>1, Sizes
<1>7. AllCells[v][n] = c
  BY <1>5, <1>6, CellIs
<1> QED
  BY <1>7

LEMMA StrideEnd ==
    ASSUME NEW v \in SUBSET Dims, NEW d, \A e \in v : ~(e > d)
    PROVE  Stride(v, d) = 1
<1>1. {e \in v : e > d} = {}
  OBVIOUS
<1> QED
  BY <1>1, StrideIs, FoldEmpty DEF Unit

\* The offset of a cell in the data of a coordinate is its number.
LEMMA ValueOf ==
    ASSUME NEW data, NEW n \in 1..Stride(CoordDims, 0)
    PROVE  ValueAt(data, AllCells[CoordDims][n]) = data[n]
<1> DEFINE v == CoordDims
           cell == AllCells[v][n]
           f == [d \in v |-> cell[d] * Stride(v, d)]
<1>1. /\ v \in Variables /\ v \in SUBSET Dims /\ n \in Nat \ {0}
      /\ \A d \in v : cell[d] = Digit(v, n, d) /\ cell[d] \in Nat
      /\ Rank \in Nat /\ v = 1..Rank
  BY CellIs, CellType, Sizes
<1>2. \A d \in 0..Rank : d \in 0..NumDims /\ Stride(v, d) \in Nat /\ Prefix(v, n, d) \in Nat
  <2>1. ASSUME NEW d \in 0..Rank PROVE d \in 0..NumDims
    BY Sizes
  <2> QED
    BY <1>1, <2>1, StrideType, PrefixBounds
<1>3. \A d \in v : f[d] \in Int
  BY <1>1, <1>2
<1> DEFINE T == {k \in 0..Rank : Fold("plus", f, 1..k) = Prefix(v, n, k) * Stride(v, k)}
<1>4. 0 \in T
  <2>1. Prefix(v, n, 0) = 0 /\ Stride(v, 0) \in Nat /\ 0 \in 0..Rank
    BY <1>1, <1>2, PrefixFirst
  <2>2. Fold("plus", f, 1..0) = 0
    <3>1. 1..0 = {}
      OBVIOUS
    <3> QED
      BY <3>1, FoldEmpty DEF Unit
  <2> QED
    BY <2>1, <2>2
<1>5. ASSUME NEW k \in 1..Rank, k - 1 \in T PROVE k \in T
  <2>1. /\ k \in v /\ k \in Dims /\ k \in 1..k /\ (1..k) \ {k} = 1..(k - 1)
        /\ 1..k \in SUBSET v /\ k - 1 \in 0..Rank /\ k \in 0..Rank
    BY <1>1, Sizes
  <2>2. IsFiniteSet(1..k)
    BY <1>1, <2>1, DimsFinite
  <2> HIDE DEF f
  <2>3. Fold("plus", f, 1..k) = f[k] + Fold("plus", f, 1..(k - 1))
    BY <1>3, <2>1, <2>2, FoldRemove DEF Combined
  <2>4. Fold("plus", f, 1..(k - 1)) = Prefix(v, n, k - 1) * Stride(v, k - 1)
    BY <1>5
  <2> DEFINE a == Shape[k]
             s == Stride(v, k)
             q == Prefix(v, n, k - 1)
             x == Digit(v, n, k)
  <2>5. a \in Nat /\ s \in Nat /\ q \in Nat /\ x \in Nat
    BY <1>1, <1>2, <2>1, DigitIs, Sizes
  <2>6. Stride(v, k - 1) = a * s /\ Prefix(v, n, k) = q * a + x /\ f[k] = x * s
    BY <1>1, <2>1, StrideStep, DigitIs DEF f
  <2>7. x * s + q * (a * s) = (q * a + x) * s
    <3> HIDE DEF a, s, q, x
    <3> QED
      BY <2>5
  <2> QED
    BY <2>1, <2>3, <2>4, <2>6, <2>7
<1>6. \A k \in 0..Rank : k \in T
  <2> HIDE DEF T
  <2> QED
    BY <1>1, <1>4, <1>5, Upwards
<1>7. Fold("plus", f, v) = Prefix(v, n, Rank) * Stride(v, Rank)
  BY <1>1, <1>6
<1>8. Stride(v, Rank) = 1 /\ Prefix(v, n, Rank) = n - 1
  <2>1. \A e \in v : ~(e > Rank)
    BY <1>1
  <2>2. Stride(v, Rank) = 1
    BY <1>1, <2>1, StrideEnd
  <2> QED
    BY <1>1, <2>2 DEF Prefix
<1>9. MapThenSumSet(LAMBDA d : cell[d] * Stride(CoordDims, d), CoordDims) = Fold("plus", f, v)
  <2> DEFINE Def(g) == g = [s \in SUBSET CoordDims |-> IF s = {} THEN 0
                 ELSE cell[CHOOSE x \in s : TRUE] * Stride(CoordDims, CHOOSE x \in s : TRUE)
                          + g[s \ {CHOOSE x \in s : TRUE}]]
             c == CHOOSE g : Def(g)
             h == CHOOSE g : Iterates(g, "plus", f, CoordDims)
  <2>1. MapThenSumSet(LAMBDA d : cell[d] * Stride(CoordDims, d), CoordDims) = c[CoordDims]
    BY DEF MapThenSumSet, MapThenFoldSet
  <2>2. \A g : Iterates(g, "plus", f, CoordDims) <=> Def(g)
    <3>1. \A s \in SUBSET CoordDims : s # {} =>
             f[Pick(s)] = cell[CHOOSE x \in s : TRUE] * Stride(CoordDims, CHOOSE x \in s : TRUE)
      <4>1. \A s \in SUBSET CoordDims : s # {} => Pick(s) \in CoordDims
        BY PickIn
      <4> QED
        BY <4>1 DEF Pick
    <3> HIDE DEF f
    <3> QED
      BY <3>1 DEF Iterates, Pick, Combined, Unit
  <2>3. IsFiniteSet(CoordDims)
    BY <1>1, DimsFinite
  <2> HIDE DEF Def, f, cell
  <2>4. \E g : Iterates(g, "plus", f, CoordDims)
    BY <2>3, IteratesExists
  <2>5. Iterates(h, "plus", f, CoordDims)
    BY <2>4
  <2>6. Iterates(c, "plus", f, CoordDims)
    <3>1. Def(c)
      BY <2>2, <2>4
    <3> QED
      BY <2>2, <3>1
  <2> HIDE DEF c, h
  <2>7. c[CoordDims] = h[CoordDims]
    BY <2>3, <2>5, <2>6, IteratesAgree
  <2> QED
    BY <2>1, <2>7 DEF Fold, h
<1>10. MapThenSumSet(LAMBDA d : cell[d] * Stride(CoordDims, d), CoordDims) = n - 1
  <2>1. Fold("plus", f, v) = (n - 1) * 1
    BY <1>7, <1>8
  <2>2. (n - 1) * 1 = n - 1
    BY <1>1
  <2> QED
    BY <1>9, <2>1, <2>2, Zenon
<1>11. ValueAt(data, cell) = data[1 + (n - 1)]
  BY <1>10 DEF ValueAt
<1> QED
  BY <1>1, <1>11

-----------------------------------------------------------------------------
(* Orders *)

\* b[x] is what comes before x, in an order of S in which any two compare.
Orders(b, S) ==
    /\ b \in [S -> SUBSET S]
    /\ \A x \in S : x \notin b[x]
    /\ \A x, y \in S : x # y => x \in b[y] \/ y \in b[x]
    /\ \A x, y, z \in S : x \in b[y] /\ y \in b[z] => x \in b[z]

LEMMA BeforeGrows ==
    ASSUME NEW S, IsFiniteSet(S), NEW b, Orders(b, S), NEW x \in S, NEW y \in S, x \in b[y]
    PROVE  Cardinality(b[x]) < Cardinality(b[y])
<1>1. b[x] \in SUBSET b[y] /\ b[x] # b[y] /\ b[x] \in SUBSET S /\ b[y] \in SUBSET S
  BY DEF Orders
<1>2. IsFiniteSet(b[y]) /\ IsFiniteSet(b[x])
  BY <1>1, FS_Subset
<1>3. Cardinality(b[x]) \in Nat /\ Cardinality(b[y]) \in Nat
  BY <1>2, FS_CardinalityType
<1>4. Cardinality(b[x]) <= Cardinality(b[y]) /\ Cardinality(b[x]) # Cardinality(b[y])
  BY <1>1, <1>2, FS_Subset
<1> QED
  BY <1>3, <1>4

\* Each rank is taken.
LEMMA Ranks ==
    ASSUME NEW S, IsFiniteSet(S), NEW b, Orders(b, S)
    PROVE  /\ Cardinality(S) \in Nat
           /\ \A x \in S : Cardinality(b[x]) \in 0..(Cardinality(S) - 1)
           /\ \A k \in 1..Cardinality(S) : \E x \in S : Cardinality(b[x]) = k - 1
<1> DEFINE n == Cardinality(S)
           rank == [x \in S |-> Cardinality(b[x]) + 1]
<1>1. n \in Nat
  BY FS_CardinalityType
<1>2. ASSUME NEW x \in S PROVE Cardinality(b[x]) \in 0..(n - 1)
  <2>1. b[x] \in SUBSET S /\ b[x] # S
    BY DEF Orders
  <2>2. IsFiniteSet(b[x]) /\ Cardinality(b[x]) <= n /\ Cardinality(b[x]) # n
    BY <2>1, FS_Subset
  <2>3. Cardinality(b[x]) \in Nat
    BY <2>2, FS_CardinalityType
  <2> QED
    BY <1>1, <2>2, <2>3
<1>3. ASSUME NEW x \in S, NEW y \in S, rank[x] = rank[y] PROVE x = y
  <2>1. Cardinality(b[x]) = Cardinality(b[y])
    <3>1. Cardinality(b[x]) \in Int /\ Cardinality(b[y]) \in Int
      BY <1>2
    <3> QED
      BY <1>3, <3>1
  <2>2. ~(x \in b[y]) /\ ~(y \in b[x])
    <3>1. Cardinality(b[x]) \in Int
      BY <1>2
    <3>2. ~(Cardinality(b[x]) < Cardinality(b[y])) /\ ~(Cardinality(b[y]) < Cardinality(b[x]))
      BY <2>1, <3>1
    <3> QED
      BY <3>2, BeforeGrows
  <2> QED
    BY <2>2 DEF Orders
<1>4. rank \in [S -> 1..n]
  BY <1>1, <1>2
<1>5. rank \in Injection(S, 1..n)
  BY <1>3, <1>4 DEF Injection, IsInjective
<1>6. IsFiniteSet(1..n) /\ Cardinality(1..n) = n
  BY <1>1, FS_Interval
<1>7. rank \in Surjection(S, 1..n)
  <2> HIDE DEF rank
  <2> QED
    BY <1>5, <1>6, FS_Injection
<1>8. \A k \in 1..n : \E x \in S : rank[x] = k
  <2> HIDE DEF rank
  <2> QED
    BY <1>7 DEF Surjection
<1>9. ASSUME NEW k \in 1..n PROVE \E x \in S : Cardinality(b[x]) = k - 1
  <2>1. PICK x \in S : rank[x] = k
    BY <1>8
  <2>2. Cardinality(b[x]) \in Int /\ Cardinality(b[x]) + 1 = k
    BY <1>2, <2>1
  <2> QED
    BY <2>2
<1> QED
  BY <1>1, <1>2, <1>9

\* r lists S in the order b.
Lists(r, b, S) ==
    /\ r \in [1..Cardinality(S) -> S]
    /\ \A i, j \in 1..Cardinality(S) : i < j => r[i] \in b[r[j]]
    /\ \A i, j \in 1..Cardinality(S) : r[i] = r[j] => i = j
    /\ \A x \in S : \E k \in 1..Cardinality(S) : r[k] = x

\* What is listed by rank is listed in order, and all of it.
LEMMA ByRank ==
    ASSUME NEW S, IsFiniteSet(S), NEW b, Orders(b, S), NEW r, r \in [1..Cardinality(S) -> S],
           \A k \in 1..Cardinality(S) : Cardinality(b[r[k]]) = k - 1
    PROVE  Lists(r, b, S)
<1> DEFINE n == Cardinality(S)
<1>1. n \in Nat
  BY FS_CardinalityType
<1>2. ASSUME NEW i \in 1..n, NEW j \in 1..n, r[i] = r[j] PROVE i = j
  BY <1>1, <1>2
<1>3. ASSUME NEW i \in 1..n, NEW j \in 1..n, i < j PROVE r[i] \in b[r[j]]
  <2>1. r[i] \in S /\ r[j] \in S /\ r[i] # r[j]
    BY <1>2, <1>3
  <2>2. ~(r[j] \in b[r[i]])
    <3>1. ~(Cardinality(b[r[j]]) < Cardinality(b[r[i]]))
      BY <1>3
    <3> QED
      BY <2>1, <3>1, BeforeGrows
  <2> QED
    BY <2>1, <2>2 DEF Orders
<1>4. ASSUME NEW x \in S PROVE \E k \in 1..n : r[k] = x
  <2> DEFINE k == Cardinality(b[x]) + 1
  <2>1. Cardinality(b[x]) \in 0..(n - 1)
    BY Ranks
  <2>2. k \in 1..n /\ k - 1 = Cardinality(b[x])
    BY <1>1, <2>1
  <2> HIDE DEF k
  <2>3. r[k] \in S /\ Cardinality(b[r[k]]) = Cardinality(b[x])
    BY <2>2
  <2>4. ~(r[k] \in b[x]) /\ ~(x \in b[r[k]])
    <3>1. ~(Cardinality(b[x]) < Cardinality(b[r[k]])) /\ ~(Cardinality(b[r[k]]) < Cardinality(b[x]))
      BY <2>1, <2>3
    <3> QED
      BY <2>3, <3>1, BeforeGrows
  <2>5. r[k] = x
    BY <2>3, <2>4 DEF Orders
  <2> QED
    BY <2>2, <2>5
<1> QED
  BY <1>2, <1>3, <1>4 DEF Lists

LEMMA SortedIs ==
    ASSUME NEW S \in SUBSET Int, IsFiniteSet(S)
    PROVE  /\ Cardinality(S) \in Nat /\ Sorted(S) \in [1..Cardinality(S) -> S]
           /\ \A i, j \in 1..Cardinality(S) : i < j => Sorted(S)[i] < Sorted(S)[j]
           /\ \A i, j \in 1..Cardinality(S) : Sorted(S)[i] = Sorted(S)[j] => i = j
           /\ \A x \in S : \E k \in 1..Cardinality(S) : Sorted(S)[k] = x
<1> DEFINE n == Cardinality(S)
           Below(x) == {y \in S : y < x}
           b == [x \in S |-> Below(x)]
<1>1. Orders(b, S)
  <2>1. ASSUME NEW x \in S, NEW y \in S, x # y PROVE x < y \/ y < x
    BY <2>1
  <2>2. ASSUME NEW x \in S, NEW y \in S, NEW z \in S, x < y, y < z PROVE x < z
    BY <2>2
  <2>3. \A x \in S : ~(x < x)
    OBVIOUS
  <2> QED
    BY <2>1, <2>2, <2>3 DEF Orders
<1>2. n \in Nat /\ \A k \in 1..n : \E x \in S : Cardinality(Below(x)) = k - 1
  <2> HIDE DEF Below
  <2>1. \A x \in S : b[x] = Below(x)
    OBVIOUS
  <2> HIDE DEF b
  <2> QED
    BY <1>1, <2>1, Ranks
<1>3. Sorted(S) = [k \in 1..n |-> CHOOSE x \in S : Cardinality(Below(x)) = k - 1]
  BY DEF Sorted, InOrder
<1> HIDE DEF Below
<1>4. /\ Sorted(S) \in [1..n -> S]
      /\ \A k \in 1..n : Cardinality(Below(Sorted(S)[k])) = k - 1
  <2>1. \A k \in 1..n : /\ Sorted(S)[k] = CHOOSE x \in S : Cardinality(Below(x)) = k - 1
                        /\ Sorted(S)[k] \in S /\ Cardinality(Below(Sorted(S)[k])) = k - 1
    BY <1>2, <1>3
  <2> QED
    BY <1>3, <2>1
<1>5. \A k \in 1..n : Cardinality(b[Sorted(S)[k]]) = k - 1
  BY <1>4
<1> DEFINE r == Sorted(S)
<1> HIDE DEF b, r
<1>6. /\ \A i, j \in 1..n : i < j => r[i] \in b[r[j]]
      /\ \A i, j \in 1..n : r[i] = r[j] => i = j
      /\ \A x \in S : \E k \in 1..n : r[k] = x
  <2>1. r \in [1..Cardinality(S) -> S]
    BY <1>4 DEF r
  <2>2. \A k \in 1..Cardinality(S) : Cardinality(b[r[k]]) = k - 1
    BY <1>5 DEF r
  <2>3. Lists(r, b, S)
    BY <1>1, <2>1, <2>2, ByRank
  <2> QED
    BY <2>3 DEF Lists
<1>7. \A i, j \in 1..n : i < j => r[i] < r[j]
  BY <1>4, <1>6 DEF b, Below, r
<1> QED
  BY <1>2, <1>4, <1>6, <1>7 DEF r

\* How the runs are sorted: key by key, runs of equal keys as they were.
LEMMA StableSortIs ==
    ASSUME NEW m \in Nat, NEW key \in [1..m -> Int]
    PROVE  /\ StableSort(key) \in [1..m -> 1..m]
           /\ \A i, j \in 1..m : i < j =>
                LET x == StableSort(key)[i]
                    y == StableSort(key)[j]
                IN  key[x] < key[y] \/ (key[x] = key[y] /\ x < y)
           /\ \A x \in 1..m : \E k \in 1..m : StableSort(key)[k] = x
           /\ \A i, j \in 1..m : StableSort(key)[i] = StableSort(key)[j] => i = j
<1> DEFINE S == 1..m
           L(i, j) == key[i] < key[j] \/ (key[i] = key[j] /\ i < j)
           Below(x) == {y \in S : L(y, x)}
           b == [x \in S |-> Below(x)]
<1>0. IsFiniteSet(S)
  BY FS_Interval
<1>1. Cardinality(S) = m /\ DOMAIN key = S
  BY FS_Interval
<1>2. \A x \in S : key[x] \in Int /\ x \in Int
  OBVIOUS
<1>3. Orders(b, S)
  <2> HIDE DEF S
  <2>1. ASSUME NEW x \in S, NEW y \in S, x # y PROVE L(x, y) \/ L(y, x)
    BY <1>2, <2>1
  <2>2. ASSUME NEW x \in S, NEW y \in S, NEW z \in S, L(x, y), L(y, z) PROVE L(x, z)
    BY <1>2, <2>2
  <2>3. \A x \in S : ~L(x, x)
    BY <1>2
  <2> HIDE DEF L
  <2> QED
    BY <2>1, <2>2, <2>3 DEF Orders
<1>4. \A k \in 1..m : \E x \in S : Cardinality(Below(x)) = k - 1
  <2> HIDE DEF Below
  <2>1. \A x \in S : b[x] = Below(x)
    OBVIOUS
  <2> HIDE DEF b, S
  <2>2. \A k \in 1..Cardinality(S) : \E x \in S : Cardinality(b[x]) = k - 1
    BY <1>0, <1>3, Ranks
  <2> QED
    BY <1>1, <2>1, <2>2
<1>5. StableSort(key) = [k \in 1..m |-> CHOOSE x \in S : Cardinality(Below(x)) = k - 1]
  BY <1>1 DEF StableSort, InOrder
<1> HIDE DEF S, Below
<1> DEFINE r == StableSort(key)
<1>6. r \in [1..m -> S] /\ \A k \in 1..m : Cardinality(Below(r[k])) = k - 1
  <2>1. \A k \in 1..m : /\ r[k] = CHOOSE x \in S : Cardinality(Below(x)) = k - 1
                        /\ r[k] \in S /\ Cardinality(Below(r[k])) = k - 1
    BY <1>4, <1>5
  <2> QED
    BY <1>5, <2>1
<1>7. \A k \in 1..m : Cardinality(b[r[k]]) = k - 1
  BY <1>6
<1> HIDE DEF b, r
<1>8. /\ \A i, j \in 1..m : i < j => r[i] \in b[r[j]]
      /\ \A i, j \in 1..m : r[i] = r[j] => i = j
      /\ \A x \in S : \E k \in 1..m : r[k] = x
  <2>1. r \in [1..Cardinality(S) -> S]
    BY <1>1, <1>6
  <2>2. \A k \in 1..Cardinality(S) : Cardinality(b[r[k]]) = k - 1
    BY <1>1, <1>7
  <2>3. Lists(r, b, S)
    BY <1>0, <1>3, <2>1, <2>2, ByRank
  <2> QED
    BY <1>1, <2>3 DEF Lists
<1>9. \A i, j \in 1..m : i < j => L(r[i], r[j])
  BY <1>6, <1>8 DEF b, Below
<1> QED
  BY <1>6, <1>8, <1>9 DEF S, r

-----------------------------------------------------------------------------
(* Runs of samples that match *)

\* From r[1] to r[2] all match, and neither neighbour does.
Maximal(r, M) ==
    /\ r[1] \in M /\ r[2] \in M /\ r[1] <= r[2]
    /\ \A n \in r[1]..r[2] : n \in M
    /\ r[1] - 1 \notin M /\ r[2] + 1 \notin M

\* The maximal runs of M, one after the other.
Runs(R, M) ==
    /\ R \in Seq(M \X M)
    /\ \A k \in 1..Len(R) : Maximal(R[k], M)
    /\ \A k, l \in 1..Len(R) : k < l => R[k][2] < R[l][1]
    /\ \A n \in M : \E k \in 1..Len(R) : R[k][1] <= n /\ n <= R[k][2]

LEMMA MaxIs ==
    ASSUME NEW T, NEW n \in Int, T \subseteq Int, T # {}, \A x \in T : x <= n
    PROVE  Max(T) \in T /\ \A x \in T : x <= Max(T)
<1>1. \E x \in T : \A y \in T : y <= x
  BY Greatest
<1>2. \E x \in T : \A y \in T : x >= y
  <2>1. PICK x \in T : \A y \in T : y <= x
    BY <1>1
  <2>2. ASSUME NEW y \in T PROVE x >= y
    <3>1. y <= x /\ x \in Int /\ y \in Int
      BY <2>1
    <3> QED
      BY <3>1
  <2> QED
    BY <2>2
<1>3. Max(T) \in T /\ \A y \in T : Max(T) >= y
  BY <1>2 DEF Max
<1>4. ASSUME NEW y \in T PROVE y <= Max(T)
  <2>1. Max(T) >= y /\ Max(T) \in Int /\ y \in Int
    BY <1>3
  <2> QED
    BY <2>1
<1> QED
  BY <1>3, <1>4

LEMMA RunEnd ==
    ASSUME NEW N \in Nat, NEW M \in SUBSET (1..N), NEW i \in M, i - 1 \notin M
    PROVE  /\ Maximal(<<i, Max({j \in M : i..j \subseteq M})>>, M)
           /\ \A n \in M : i..n \subseteq M => n <= Max({j \in M : i..j \subseteq M})
<1> DEFINE T == {j \in M : i..j \subseteq M}
           e == Max(T)
<1>1. T \subseteq Int /\ N \in Int /\ \A x \in T : x <= N
  <2>1. T \subseteq 1..N
    OBVIOUS
  <2> HIDE DEF T
  <2> QED
    BY <2>1
<1>2. i \in T
  <2>1. i..i = {i}
    OBVIOUS
  <2> QED
    BY <2>1
<1>3. e \in T /\ \A x \in T : x <= e
  <2> HIDE DEF T
  <2>1. T # {}
    BY <1>2
  <2>2. Max(T) \in T /\ \A x \in T : x <= Max(T)
    BY <1>1, <2>1, MaxIs
  <2> QED
    BY <2>2
<1> HIDE DEF e
<1>4. e \in M /\ i <= e /\ (\A n \in i..e : n \in M) /\ e \in Int /\ i \in Int
  BY <1>2, <1>3
<1>5. e + 1 \notin M
  <2>1. SUFFICES ASSUME e + 1 \in M PROVE FALSE
    OBVIOUS
  <2>2. \A n \in i..(e + 1) : n \in i..e \/ n = e + 1
    BY <1>4
  <2>3. e + 1 \in T
    BY <1>4, <2>1, <2>2
  <2>4. e + 1 <= e
    BY <1>3, <2>3
  <2> QED
    BY <1>4, <2>4
<1>6. Maximal(<<i, e>>, M)
  BY <1>4, <1>5 DEF Maximal
<1> QED
  BY <1>3, <1>6 DEF e

LEMMA RunStart ==
    ASSUME NEW N \in Nat, NEW M \in SUBSET (1..N), NEW n \in M
    PROVE  \E i \in M : i - 1 \notin M /\ i <= n /\ i..n \subseteq M
<1> DEFINE T == {i \in M : i <= n /\ i..n \subseteq M}
<1>1. T \subseteq Nat /\ n \in T
  <2>1. n \in Int /\ n..n = {n} /\ n <= n
    OBVIOUS
  <2>2. n..n \subseteq M
    BY <2>1
  <2>3. n \in T
    BY <2>1, <2>2
  <2>4. M \subseteq Nat
    OBVIOUS
  <2> QED
    BY <2>3, <2>4
<1>2. PICK i \in T : \A y \in T : i <= y
  <2> HIDE DEF T
  <2> QED
    BY <1>1, Least
<1>3. i \in M /\ i <= n /\ (\A m \in i..n : m \in M) /\ i \in Int /\ n \in Int
  BY <1>2
<1>4. i - 1 \notin M
  <2>1. SUFFICES ASSUME i - 1 \in M PROVE FALSE
    OBVIOUS
  <2>2. \A m \in (i - 1)..n : m \in i..n \/ m = i - 1
    BY <1>3
  <2>3. i - 1 \in T
    BY <1>3, <2>1, <2>2
  <2>4. i <= i - 1
    BY <1>2, <2>3
  <2> QED
    BY <1>3, <2>4
<1> QED
  BY <1>3, <1>4

LEMMA MatchRunsAre ==
    ASSUME NEW N \in Nat, NEW M \in SUBSET (1..N)
    PROVE  Runs(MatchRuns(M), M)
<1> DEFINE Starts == {i \in M : i - 1 \notin M}
           End(i) == Max({j \in M : i..j \subseteq M})
           S == {<<i, End(i)>> : i \in Starts}
           Below(x) == {y \in S : y[1] < x[1]}
           b == [x \in S |-> Below(x)]
           R == MatchRuns(M)
<1>1. R = [k \in 1..Cardinality(S) |-> CHOOSE x \in S : Cardinality(Below(x)) = k - 1]
  BY DEF MatchRuns, InOrder
<1>2. \A i \in Starts : Maximal(<<i, End(i)>>, M)
  BY RunEnd
<1>3. ASSUME NEW x \in S
      PROVE  /\ x \in M \X M /\ x[1] \in Starts /\ x = <<x[1], End(x[1])>>
             /\ Maximal(x, M) /\ x[1] \in Int /\ x[2] \in Int
  <2>1. PICK i \in Starts : x = <<i, End(i)>>
    BY <1>3
  <2> HIDE DEF End, S
  <2>2. x[1] = i /\ x[2] = End(i) /\ Maximal(x, M)
    BY <1>2, <2>1
  <2>3. x[1] \in M /\ x[2] \in M
    BY <2>2 DEF Maximal
  <2>4. x[1] \in Int /\ x[2] \in Int
    <3>1. \A n \in M : n \in Int
      OBVIOUS
    <3> QED
      BY <2>3, <3>1
  <2>5. x = <<x[1], End(x[1])>> /\ x[1] \in Starts
    BY <2>1, <2>2
  <2>6. x = <<x[1], x[2]>>
    BY <2>1, <2>2
  <2>7. x \in M \X M
    BY <2>3, <2>6
  <2> QED
    BY <2>2, <2>4, <2>5, <2>7
<1>4. IsFiniteSet(S)
  <2>1. IsFiniteSet(1..N)
    BY FS_Interval
  <2>2. Starts \in SUBSET (1..N)
    OBVIOUS
  <2>3. IsFiniteSet(Starts)
    BY <2>1, <2>2, FS_Subset
  <2> HIDE DEF End, Starts
  <2> DEFINE f == [i \in Starts |-> <<i, End(i)>>]
  <2>4. f \in Surjection(Starts, S)
    BY DEF Surjection
  <2> HIDE DEF S
  <2> QED
    BY <2>3, <2>4, FS_Surjection
<1>5. Orders(b, S)
  <2>0. \A x \in S : x[1] \in Int /\ x = <<x[1], End(x[1])>>
    BY <1>3
  <2> HIDE DEF S, End
  <2>1. ASSUME NEW x \in S, NEW y \in S, x # y PROVE x[1] < y[1] \/ y[1] < x[1]
    <3>1. x[1] # y[1]
      BY <2>0, <2>1
    <3> QED
      BY <2>0, <3>1
  <2>2. ASSUME NEW x \in S, NEW y \in S, NEW z \in S, x[1] < y[1], y[1] < z[1] PROVE x[1] < z[1]
    BY <2>0, <2>2
  <2>3. \A x \in S : ~(x[1] < x[1])
    BY <2>0
  <2> QED
    BY <2>1, <2>2, <2>3 DEF Orders
<1> HIDE DEF S, R
<1> DEFINE K == Cardinality(S)
<1>6. \A k \in 1..K : \E x \in S : Cardinality(Below(x)) = k - 1
  <2>1. \A x \in S : b[x] = Below(x)
    OBVIOUS
  <2> HIDE DEF Below, b
  <2>2. \A k \in 1..Cardinality(S) : \E x \in S : Cardinality(b[x]) = k - 1
    BY <1>4, <1>5, Ranks
  <2> QED
    BY <2>1, <2>2
<1>7. R \in [1..K -> S] /\ \A k \in 1..K : Cardinality(Below(R[k])) = k - 1
  <2> HIDE DEF Below
  <2>1. \A k \in 1..K : /\ R[k] = CHOOSE x \in S : Cardinality(Below(x)) = k - 1
                        /\ R[k] \in S /\ Cardinality(Below(R[k])) = k - 1
    BY <1>1, <1>6
  <2> QED
    BY <1>1, <2>1
<1>8. Lists(R, b, S)
  <2>1. \A k \in 1..Cardinality(S) : Cardinality(b[R[k]]) = k - 1
    BY <1>7
  <2> HIDE DEF b
  <2> QED
    BY <1>4, <1>5, <1>7, <2>1, ByRank
<1>9. K \in Nat /\ R \in Seq(S) /\ Len(R) = K
  <2>1. K \in Nat
    BY <1>4, FS_CardinalityType
  <2> QED
    BY <1>7, <2>1
<1>10. R \in Seq(M \X M)
  <2>1. \A k \in 1..K : R[k] \in M \X M
    BY <1>3, <1>7
  <2> QED
    BY <1>7, <1>9, <2>1
<1>11. \A k \in 1..K : Maximal(R[k], M)
  BY <1>3, <1>7
<1>12. ASSUME NEW k \in 1..K, NEW l \in 1..K, k < l PROVE R[k][2] < R[l][1]
  <2> DEFINE x == R[k]
             y == R[l]
  <2>1. x \in S /\ y \in S
    BY <1>7
  <2>2. x[1] < y[1]
    <3>1. x \in b[y]
      BY <1>8, <1>12 DEF Lists
    <3> QED
      BY <2>1, <3>1
  <2> HIDE DEF x, y
  <2>3. /\ x[1] \in Int /\ x[2] \in Int /\ y[1] \in Int
        /\ (\A n \in x[1]..x[2] : n \in M) /\ y[1] - 1 \notin M
    <3>1. Maximal(x, M) /\ Maximal(y, M)
      BY <1>3, <2>1
    <3> QED
      BY <1>3, <2>1, <3>1 DEF Maximal
  <2>4. x[2] < y[1]
    <3>1. y[1] - 1 \notin x[1]..x[2]
      BY <2>3
    <3> QED
      BY <2>2, <2>3, <3>1
  <2> QED
    BY <2>4 DEF x, y
<1>13. ASSUME NEW n \in M PROVE \E k \in 1..K : R[k][1] <= n /\ n <= R[k][2]
  <2>1. PICK i \in M : i - 1 \notin M /\ i <= n /\ i..n \subseteq M
    BY RunStart
  <2>2. n <= End(i)
    BY <2>1, RunEnd
  <2>3. <<i, End(i)>> \in S
    BY <2>1 DEF S
  <2>4. PICK k \in 1..K : R[k] = <<i, End(i)>>
    BY <1>8, <2>3 DEF Lists
  <2> HIDE DEF End
  <2>5. R[k][1] = i /\ R[k][2] = End(i)
    BY <2>4
  <2> QED
    BY <2>1, <2>2, <2>5
<1> QED
  BY <1>9, <1>10, <1>11, <1>12, <1>13 DEF Runs, R

-----------------------------------------------------------------------------
(* Hyper-rectangles *)

\* At the start of a block of dimension p the later dimensions are at their first
\* position, just before it at their last.
LEMMA BlockStart ==
    ASSUME NEW v \in SUBSET Dims, NEW p \in 0..NumDims, NEW n \in Nat \ {0}, NEW q \in Nat,
           n - 1 = q * Stride(v, p), NEW e \in v, e > p
    PROVE  Digit(v, n, e) = 0
<1>1. v \subseteq Nat /\ \A k \in v : k \in 1..NumDims
  BY Sizes
<1> DEFINE Exact(k) == Prefix(v, n, k) * Stride(v, k) = n - 1
           T == {k \in 0..NumDims : k >= p => Exact(k)}
<1>2. Exact(p)
  <2> DEFINE s == Stride(v, p)
  <2>1. s \in Nat \ {0}
    BY StrideType
  <2> HIDE DEF s
  <2>2. q * s = n - 1 /\ q * s \in Int
    BY <2>1 DEF s
  <2>3. q * s <= n - 1 /\ n - 1 < q * s + s
    BY <2>1, <2>2
  <2>4. q = Prefix(v, n, p)
    BY <2>3, PrefixBounds DEF s
  <2> QED
    BY <2>2, <2>4 DEF s
<1>3. ASSUME NEW k \in 1..NumDims, k > p, Exact(k - 1)
      PROVE  Exact(k) /\ (k \in v => Digit(v, n, k) = 0)
  <2>1. k \in Dims /\ k \in 0..NumDims /\ k - 1 \in 0..NumDims
    BY Sizes
  <2>2. CASE k \notin v
    BY <1>3, <2>1, <2>2, PrefixStep, StrideStep
  <2>3. CASE k \in v
    <3> DEFINE a == Shape[k]
               s == Stride(v, k)
               r == Prefix(v, n, k - 1)
    <3>1. a \in Nat \ {0} /\ s \in Nat \ {0} /\ r \in Nat
      BY <2>1, StrideType, PrefixBounds, Sizes
    <3>2. r * (a * s) = n - 1
      BY <1>3, <2>1, <2>3, StrideStep
    <3> HIDE DEF a, s, r
    <3>3. (r * a) * s = n - 1 /\ r * a \in Nat
      BY <3>1, <3>2
    <3> DEFINE t == r * a
    <3>4. t \in Nat /\ t * s = n - 1 /\ t * s \in Int
      BY <3>1, <3>3
    <3> HIDE DEF t
    <3>5. t * s <= n - 1 /\ n - 1 < t * s + s
      BY <3>1, <3>4
    <3>6. t = Prefix(v, n, k)
      BY <2>1, <3>4, <3>5, PrefixBounds DEF s
    <3>7. t = r * a + Digit(v, n, k) /\ Digit(v, n, k) \in Nat
      BY <2>3, <3>6, DigitIs DEF r, a
    <3>8. Digit(v, n, k) = 0
      <4>1. t = t + Digit(v, n, k)
        BY <3>7 DEF t
      <4> QED
        BY <3>4, <3>7, <4>1
    <3> QED
      BY <3>4, <3>6, <3>8 DEF s
  <2> QED
    BY <2>2, <2>3
<1>4. \A k \in 0..NumDims : k \in T
  <2> HIDE DEF Exact
  <2>1. 0 \in T
    BY <1>2, Sizes
  <2>2. ASSUME NEW k \in 1..NumDims, k - 1 \in T PROVE k \in T
    <3>1. k > p => Exact(k)
      BY <1>3, <2>2
    <3> QED
      BY <1>2, <3>1
  <2> HIDE DEF T
  <2> QED
    BY <2>1, <2>2, Upwards, Sizes
<1>5. e \in 1..NumDims /\ e - 1 \in 0..NumDims /\ e - 1 >= p
  BY <1>1
<1>6. Exact(e - 1)
  <2> HIDE DEF Exact
  <2> QED
    BY <1>4, <1>5
<1> QED
  BY <1>3, <1>5, <1>6

LEMMA BlockEnd ==
    ASSUME NEW v \in SUBSET Dims, NEW p \in 0..NumDims, NEW n \in Nat \ {0}, NEW q \in Nat,
           n = q * Stride(v, p) + Stride(v, p), NEW e \in v, e > p
    PROVE  Digit(v, n, e) = Shape[e] - 1
<1>1. v \subseteq Nat /\ \A k \in v : k \in 1..NumDims
  BY Sizes
<1> DEFINE Exact(k) == Prefix(v, n, k) * Stride(v, k) + Stride(v, k) = n
           T == {k \in 0..NumDims : k >= p => Exact(k)}
<1>2. Exact(p)
  <2> DEFINE s == Stride(v, p)
  <2>1. s \in Nat \ {0}
    BY StrideType
  <2> HIDE DEF s
  <2>2. q * s + s = n /\ q * s \in Int
    BY <2>1 DEF s
  <2>3. q * s <= n - 1 /\ n - 1 < q * s + s
    BY <2>1, <2>2
  <2>4. q = Prefix(v, n, p)
    BY <2>3, PrefixBounds DEF s
  <2> QED
    BY <2>2, <2>4 DEF s
<1>3. ASSUME NEW k \in 1..NumDims, k > p, Exact(k - 1)
      PROVE  Exact(k) /\ (k \in v => Digit(v, n, k) = Shape[k] - 1)
  <2>1. k \in Dims /\ k \in 0..NumDims /\ k - 1 \in 0..NumDims
    BY Sizes
  <2>2. CASE k \notin v
    BY <1>3, <2>1, <2>2, PrefixStep, StrideStep
  <2>3. CASE k \in v
    <3> DEFINE a == Shape[k]
               s == Stride(v, k)
               r == Prefix(v, n, k - 1)
    <3>1. a \in Nat \ {0} /\ s \in Nat \ {0} /\ r \in Nat
      BY <2>1, StrideType, PrefixBounds, Sizes
    <3>2. r * (a * s) + a * s = n
      BY <1>3, <2>1, <2>3, StrideStep
    <3> HIDE DEF a, s, r
    <3> DEFINE t == r * a + (a - 1)
    <3>3. r * a \in Nat /\ t \in Nat
      BY <3>1
    <3>4. t * s + s = n /\ t * s \in Int
      <4>1. t * s = r * (a * s) + a * s - s
        BY <3>1
      <4>2. r * (a * s) \in Int /\ a * s \in Int
        BY <3>1
      <4> HIDE DEF t
      <4> QED
        BY <3>1, <3>2, <4>1, <4>2
    <3>5. t * s <= n - 1 /\ n - 1 < t * s + s
      <4> HIDE DEF t
      <4> QED
        BY <3>1, <3>4
    <3>6. t = Prefix(v, n, k)
      <4> HIDE DEF t
      <4> QED
        BY <2>1, <3>3, <3>5, PrefixBounds DEF s
    <3>7. t = r * a + Digit(v, n, k) /\ Digit(v, n, k) \in Nat
      BY <2>3, <3>6, DigitIs DEF r, a
    <3>8. Digit(v, n, k) = a - 1
      BY <3>1, <3>3, <3>7
    <3> QED
      BY <3>4, <3>6, <3>8 DEF s, a
  <2> QED
    BY <2>2, <2>3
<1>4. \A k \in 0..NumDims : k \in T
  <2> HIDE DEF Exact
  <2>1. 0 \in T
    BY <1>2, Sizes
  <2>2. ASSUME NEW k \in 1..NumDims, k - 1 \in T PROVE k \in T
    <3>1. k > p => Exact(k)
      BY <1>3, <2>2
    <3> QED
      BY <1>2, <3>1
  <2> HIDE DEF T
  <2> QED
    BY <2>1, <2>2, Upwards, Sizes
<1>5. e \in 1..NumDims /\ e - 1 \in 0..NumDims /\ e - 1 >= p
  BY <1>1
<1>6. Exact(e - 1)
  <2> HIDE DEF Exact
  <2> QED
    BY <1>4, <1>5
<1> QED
  BY <1>3, <1>5, <1>6

Cells == Stride(CoordDims, 0)

D(n, d) == Digit(CoordDims, n, d)

\* M is the set of the cells of a product of intervals.
Boxed(M, side) ==
    /\ M \subseteq 1..Cells
    /\ \A d \in CoordDims : side[d] \subseteq Nat
    /\ \A d \in CoordDims : \A a, b \in side[d] : \A c \in Nat : a <= c /\ c <= b => c \in side[d]
    /\ \A n \in 1..Cells : n \in M <=> \A d \in CoordDims : D(n, d) \in side[d]

LEMMA CoordFacts ==
    /\ CoordDims \in Variables /\ CoordDims \in SUBSET Dims /\ CoordDims \subseteq Nat
    /\ Cells \in Nat \ {0} /\ \A d \in CoordDims : d \in 0..NumDims /\ Shape[d] \in Nat \ {0}
    /\ \A n \in 1..Cells : n \in Nat \ {0}
    /\ \A n \in Nat \ {0}, d \in CoordDims : D(n, d) \in Nat /\ D(n, d) < Shape[d]
<1>1. CoordDims \in Variables /\ CoordDims \in SUBSET Dims
  BY Sizes
<1>2. \A d \in CoordDims : d \in 0..NumDims /\ Shape[d] \in Nat \ {0} /\ d \in Nat
  BY <1>1, Sizes
<1>3. Cells \in Nat \ {0}
  BY <1>1, CellIs DEF Cells
<1>4. \A n \in Nat \ {0}, d \in CoordDims : D(n, d) \in Nat /\ D(n, d) < Shape[d]
  BY <1>1, DigitIs DEF D
<1> QED
  BY <1>1, <1>2, <1>3, <1>4

\* Samples that follow each other into another block of dimension p: the later
\* dimensions are whole.
LEMMA SidesFull ==
    ASSUME NEW M, NEW side, Boxed(M, side), NEW n \in M, NEW m \in M, n < m,
           \A k \in n..m : k \in M, NEW p \in CoordDims,
           Prefix(CoordDims, n, p) < Prefix(CoordDims, m, p), NEW e \in CoordDims, e > p
    PROVE  \A x \in Nat : x < Shape[e] => x \in side[e]
<1> DEFINE s == Stride(CoordDims, p)
           a == Prefix(CoordDims, n, p)
           b == Prefix(CoordDims, m, p)
           x == b * s
<1>1. n \in 1..Cells /\ m \in 1..Cells /\ n \in Nat \ {0} /\ m \in Nat \ {0}
  BY CoordFacts DEF Boxed
<1>2. s \in Nat \ {0} /\ a \in Nat /\ b \in Nat /\ n - 1 < a * s + s /\ b * s <= m - 1
  BY <1>1, CoordFacts, StrideType, PrefixBounds
<1>3. a < b
  OBVIOUS
<1> HIDE DEF s, a, b
<1>4. n <= x /\ x + 1 <= m /\ x \in Nat
  <2>1. (a + 1) * s <= b * s /\ (a + 1) * s = a * s + s
    BY <1>2, <1>3, ProductMonotonic
  <2>2. a * s \in Int /\ b * s \in Nat
    BY <1>2
  <2> QED
    BY <1>1, <1>2, <2>1, <2>2
<1> HIDE DEF x
<1>5. x \in M /\ x + 1 \in M
  BY <1>1, <1>4
<1>6. x \in 1..Cells /\ x + 1 \in 1..Cells /\ x \in Nat \ {0} /\ x + 1 \in Nat \ {0}
  BY <1>5, CoordFacts DEF Boxed
<1>7. D(x + 1, e) = 0
  <2>1. (x + 1) - 1 = b * Stride(CoordDims, p)
    BY <1>4 DEF x, s
  <2> QED
    BY <1>2, <1>6, <2>1, CoordFacts, BlockStart DEF D
<1>8. D(x, e) = Shape[e] - 1
  <2>1. b - 1 \in Nat
    BY <1>2, <1>3
  <2>2. x = (b - 1) * s + s
    BY <1>2, <1>3 DEF x
  <2> QED
    BY <1>6, <2>1, <2>2, CoordFacts, BlockEnd DEF D, s
<1>9. 0 \in side[e] /\ Shape[e] - 1 \in side[e]
  BY <1>5, <1>6, <1>7, <1>8 DEF Boxed
<1>10. ASSUME NEW y \in Nat, y < Shape[e] PROVE y \in side[e]
  <2>1. 0 <= y /\ y <= Shape[e] - 1
    BY <1>10, CoordFacts
  <2> QED
    BY <1>9, <2>1 DEF Boxed
<1> QED
  BY <1>10

\* Another number in the block of dimension p has the same earlier positions; if
\* the later dimensions are whole, it matches too.
LEMMA SameBlock ==
    ASSUME NEW M, NEW side, Boxed(M, side), NEW n \in M, NEW m \in Nat \ {0}, NEW p \in CoordDims,
           Prefix(CoordDims, n, p) = Prefix(CoordDims, m, p),
           \A e \in CoordDims : e > p => \A x \in Nat : x < Shape[e] => x \in side[e]
    PROVE  m \in M
<1>1. n \in 1..Cells /\ n \in Nat \ {0} /\ p \in 0..NumDims /\ 0 \in 0..p
  BY CoordFacts DEF Boxed
<1>2. /\ Prefix(CoordDims, n, 0) = Prefix(CoordDims, m, 0)
      /\ \A d \in CoordDims : d <= p => D(n, d) = D(m, d)
  BY <1>1, CoordFacts, PrefixesNest DEF D, Digit
<1>3. m \in 1..Cells
  BY <1>1, <1>2, CoordFacts, PrefixFirst DEF Cells
<1>4. ASSUME NEW d \in CoordDims PROVE D(m, d) \in side[d]
  <2>1. CASE d <= p
    BY <1>1, <1>2, <2>1 DEF Boxed
  <2>2. CASE d > p
    BY <2>2, CoordFacts
  <2> QED
    BY <2>1, <2>2, CoordFacts
<1> QED
  BY <1>3, <1>4 DEF Boxed

LEMMA RunStartsBlock ==
    ASSUME NEW M, NEW side, Boxed(M, side), NEW r, Maximal(r, M), NEW n \in r[1]..r[2],
           NEW p \in CoordDims, Prefix(CoordDims, r[1], p) < Prefix(CoordDims, n, p),
           NEW e \in CoordDims, e > p
    PROVE  D(r[1], e) = 0
<1> DEFINE i == r[1]
           s == Stride(CoordDims, p)
           q == Prefix(CoordDims, i, p)
<1>1. /\ i \in M /\ i \in 1..Cells /\ i \in Nat \ {0} /\ r[2] \in Nat /\ i - 1 \notin M
      /\ \A k \in i..r[2] : k \in M
  BY CoordFacts DEF Maximal, Boxed
<1>2. n \in M /\ n \in Nat /\ (\A k \in i..n : k \in M) /\ i < n
  <2>1. n \in M /\ n \in Nat /\ i <= n /\ \A k \in i..n : k \in i..r[2]
    BY <1>1
  <2>2. i # n
    <3>1. Prefix(CoordDims, i, p) \in Nat
      BY <1>1, CoordFacts, PrefixBounds
    <3> HIDE DEF i
    <3>2. Prefix(CoordDims, i, p) < Prefix(CoordDims, n, p)
      BY DEF i
    <3> QED
      BY <3>1, <3>2
  <2> QED
    BY <1>1, <2>1, <2>2
<1>3. \A f \in CoordDims : f > p => \A x \in Nat : x < Shape[f] => x \in side[f]
  BY <1>1, <1>2, SidesFull
<1>4. /\ s \in Nat \ {0} /\ q \in Nat /\ q * s <= i - 1 /\ i - 1 < q * s + s
      /\ q * s \in Int
  <2>1. s \in Nat \ {0} /\ q \in Nat /\ q * s <= i - 1 /\ i - 1 < q * s + s
    BY <1>1, CoordFacts, StrideType, PrefixBounds
  <2> HIDE DEF s, q
  <2> QED
    BY <2>1
<1> HIDE DEF i, s, q
<1>5. i - 1 = q * s
  <2>1. SUFFICES ASSUME q * s <= i - 2 PROVE FALSE
    BY <1>1, <1>4
  <2> DEFINE j == i - 1
  <2>2. j \in Nat \ {0} /\ q * s <= j - 1 /\ j - 1 < q * s + s
    <3>1. q * s >= 0
      BY <1>4
    <3> QED
      BY <1>1, <1>4, <2>1, <3>1
  <2> HIDE DEF j
  <2>3. q = Prefix(CoordDims, j, p)
    BY <1>4, <2>2, CoordFacts, PrefixBounds DEF s
  <2>4. j \in M
    BY <1>1, <1>3, <2>2, <2>3, SameBlock DEF q
  <2> QED
    BY <1>1, <2>4 DEF j
<1> QED
  BY <1>1, <1>4, <1>5, CoordFacts, BlockStart DEF D, s, i

LEMMA RunEndsBlock ==
    ASSUME NEW M, NEW side, Boxed(M, side), NEW r, Maximal(r, M), NEW n \in r[1]..r[2],
           NEW p \in CoordDims, Prefix(CoordDims, n, p) < Prefix(CoordDims, r[2], p),
           NEW e \in CoordDims, e > p
    PROVE  D(r[2], e) = Shape[e] - 1
<1> DEFINE i == r[2]
           s == Stride(CoordDims, p)
           q == Prefix(CoordDims, i, p)
<1>1. /\ i \in M /\ i \in 1..Cells /\ i \in Nat \ {0} /\ r[1] \in Nat /\ i + 1 \notin M
      /\ \A k \in r[1]..i : k \in M
  BY CoordFacts DEF Maximal, Boxed
<1>2. n \in M /\ n \in Nat /\ (\A k \in n..i : k \in M) /\ n < i
  <2>1. n \in M /\ n \in Nat /\ n <= i /\ \A k \in n..i : k \in r[1]..i
    BY <1>1
  <2>2. i # n
    <3>1. Prefix(CoordDims, i, p) \in Nat
      BY <1>1, CoordFacts, PrefixBounds
    <3> HIDE DEF i
    <3>2. Prefix(CoordDims, n, p) < Prefix(CoordDims, i, p)
      BY DEF i
    <3> QED
      BY <3>1, <3>2
  <2> QED
    BY <1>1, <2>1, <2>2
<1>3. \A f \in CoordDims : f > p => \A x \in Nat : x < Shape[f] => x \in side[f]
  BY <1>1, <1>2, SidesFull
<1>4. /\ s \in Nat \ {0} /\ q \in Nat /\ q * s <= i - 1 /\ i - 1 < q * s + s
      /\ q * s \in Int
  <2>1. s \in Nat \ {0} /\ q \in Nat /\ q * s <= i - 1 /\ i - 1 < q * s + s
    BY <1>1, CoordFacts, StrideType, PrefixBounds
  <2> HIDE DEF s, q
  <2> QED
    BY <2>1
<1> HIDE DEF i, s, q
<1>5. i = q * s + s
  <2>1. SUFFICES ASSUME i < q * s + s PROVE FALSE
    BY <1>1, <1>4
  <2> DEFINE j == i + 1
  <2>2. j \in Nat \ {0} /\ q * s <= j - 1 /\ j - 1 < q * s + s
    BY <1>1, <1>4, <2>1
  <2> HIDE DEF j
  <2>3. q = Prefix(CoordDims, j, p)
    BY <1>4, <2>2, CoordFacts, PrefixBounds DEF s
  <2>4. j \in M
    BY <1>1, <1>3, <2>2, <2>3, SameBlock DEF q
  <2> QED
    BY <1>1, <2>4 DEF j
<1> QED
  BY <1>1, <1>4, <1>5, CoordFacts, BlockEnd DEF D, s, i

\* A maximal run of the matches is the box from its first to its last cell:
\* the ends _init_runs keeps of a run, dimension by dimension, take in its
\* samples and no other one.
THEOREM RunIsBox ==
    ASSUME NEW M, NEW side, Boxed(M, side), NEW r, Maximal(r, M), NEW n \in 1..Cells
    PROVE  r[1] <= n /\ n <= r[2] <=>
              \A d \in CoordDims : D(r[1], d) <= D(n, d) /\ D(n, d) <= D(r[2], d)
<1>1. /\ r[1] \in 1..Cells /\ r[2] \in 1..Cells /\ r[1] <= r[2]
      /\ r[1] \in Nat \ {0} /\ r[2] \in Nat \ {0} /\ n \in Nat \ {0}
  BY CoordFacts DEF Maximal, Boxed
<1>2. \A d \in CoordDims : D(r[1], d) \in Nat /\ D(n, d) \in Nat /\ D(r[2], d) \in Nat
                           /\ D(n, d) < Shape[d] /\ Shape[d] \in Nat /\ d \in Nat
  BY <1>1, CoordFacts
<1>3. ASSUME r[1] <= n, n <= r[2], NEW d \in CoordDims PROVE D(r[1], d) <= D(n, d)
  <2>1. CASE n = r[1]
    BY <1>2, <2>1
  <2>2. CASE r[1] < n
    <3>1. PICK p \in CoordDims :
             /\ D(r[1], p) < D(n, p)
             /\ \A e \in CoordDims : e < p => D(r[1], e) = D(n, e)
             /\ Prefix(CoordDims, r[1], p) < Prefix(CoordDims, n, p)
      BY <1>1, <2>2, CoordFacts, FirstDifference DEF D, Cells
    <3>2. n \in r[1]..r[2]
      BY <1>1, <1>3
    <3>3. d > p => D(r[1], d) = 0
      BY <3>1, <3>2, RunStartsBlock
    <3>4. d < p \/ d = p \/ d > p
      BY <1>2
    <3> QED
      BY <1>2, <3>1, <3>3, <3>4
  <2> QED
    BY <1>1, <1>3, <2>1, <2>2
<1>4. ASSUME r[1] <= n, n <= r[2], NEW d \in CoordDims PROVE D(n, d) <= D(r[2], d)
  <2>1. CASE n = r[2]
    BY <1>2, <2>1
  <2>2. CASE n < r[2]
    <3>1. PICK p \in CoordDims :
             /\ D(n, p) < D(r[2], p)
             /\ \A e \in CoordDims : e < p => D(n, e) = D(r[2], e)
             /\ Prefix(CoordDims, n, p) < Prefix(CoordDims, r[2], p)
      BY <1>1, <2>2, CoordFacts, FirstDifference DEF D, Cells
    <3>2. n \in r[1]..r[2]
      BY <1>1, <1>4
    <3>3. d > p => D(r[2], d) = Shape[d] - 1
      BY <3>1, <3>2, RunEndsBlock
    <3>4. d < p \/ d = p \/ d > p
      BY <1>2
    <3> QED
      BY <1>2, <3>1, <3>3, <3>4
  <2> QED
    BY <1>1, <1>4, <2>1, <2>2
<1>5. ASSUME \A d \in CoordDims : D(r[1], d) <= D(n, d) /\ D(n, d) <= D(r[2], d)
      PROVE  r[1] <= n /\ n <= r[2]
  <2>1. ASSUME n < r[1] PROVE FALSE
    <3>1. PICK p \in CoordDims : D(n, p) < D(r[1], p)
      BY <1>1, <2>1, CoordFacts, FirstDifference DEF D, Cells
    <3> QED
      BY <1>2, <1>5, <3>1
  <2>2. ASSUME r[2] < n PROVE FALSE
    <3>1. PICK p \in CoordDims : D(r[2], p) < D(n, p)
      BY <1>1, <2>2, CoordFacts, FirstDifference DEF D, Cells
    <3> QED
      BY <1>2, <1>5, <3>1
  <2> QED
    BY <1>1, <2>1, <2>2
<1> QED
  BY <1>3, <1>4, <1>5

-----------------------------------------------------------------------------
(* Flattening *)

\* p[n] is the concatenation of the first n of seqs.
Parts(p, seqs) ==
    /\ p[0] = <<>>
    /\ \A n \in 1..Len(seqs) : p[n] = p[n - 1] \o seqs[n]

LEMMA FlattensExists ==
    ASSUME NEW seqs, NEW N \in Nat
    PROVE  \E g : g = [i \in 1..N |-> IF i = 1 THEN seqs[i] ELSE g[i - 1] \o seqs[i]]
<1> DEFINE next(g, i) == IF i = 1 THEN seqs[i] ELSE g[i - 1] \o seqs[i]
           Is(g, n) == g = [i \in 1..n |-> next(g, i)]
           T == {n \in 0..N : \E g : Is(g, n)}
<1>1. 0 \in T
  <2> DEFINE g == [i \in 1..0 |-> i]
  <2>1. Is(g, 0)
    OBVIOUS
  <2>2. 0 \in 0..N
    OBVIOUS
  <2> HIDE DEF g, Is
  <2> QED
    BY <2>1, <2>2
<1>2. ASSUME NEW n \in 1..N, n - 1 \in T PROVE n \in T
  <2>1. PICK g : Is(g, n - 1)
    BY <1>2
  <2> DEFINE h == [i \in 1..n |-> IF i = n THEN next(g, i) ELSE g[i]]
  <2>2. \A i \in 1..n : i = n \/ i \in 1..(n - 1)
    OBVIOUS
  <2>3. \A i \in 1..n : i # 1 => i - 1 \in 1..(n - 1) /\ h[i - 1] = g[i - 1]
    OBVIOUS
  <2>4. \A i \in 1..n : next(h, i) = next(g, i)
    BY <2>3
  <2>5. \A i \in 1..(n - 1) : g[i] = next(g, i)
    BY <2>1
  <2>6. \A i \in 1..n : h[i] = IF i = n THEN next(g, i) ELSE g[i]
    OBVIOUS
  <2>7. h = [i \in 1..n |-> h[i]]
    OBVIOUS
  <2> HIDE DEF h, next
  <2>8. \A i \in 1..n : h[i] = next(h, i)
    BY <2>2, <2>4, <2>5, <2>6
  <2>9. Is(h, n)
    BY <2>7, <2>8
  <2> QED
    BY <2>9
<1>3. N \in T
  <2> HIDE DEF T
  <2> QED
    BY <1>1, <1>2, Upwards
<1> QED
  BY <1>3

\* What FlattenSeq returns, and how it gets there.
LEMMA FlattenParts ==
    ASSUME NEW S, NEW seqs \in Seq(Seq(S))
    PROVE  \E p \in [0..Len(seqs) -> Seq(S)] : Parts(p, seqs) /\ FlattenSeq(seqs) = p[Len(seqs)]
<1> DEFINE N == Len(seqs)
           Is(g) == g = [i \in 1..N |-> IF i = 1 THEN seqs[i] ELSE g[i - 1] \o seqs[i]]
           g == CHOOSE f : Is(f)
           p == [n \in 0..N |-> IF n = 0 THEN <<>> ELSE g[n]]
           T == {n \in 0..N : p[n] \in Seq(S)}
<1>1. N \in Nat /\ \A n \in 1..N : seqs[n] \in Seq(S)
  OBVIOUS
<1>2. Is(g)
  <2>1. \E f : Is(f)
    BY <1>1, FlattensExists
  <2> QED
    BY <2>1
<1>3. FlattenSeq(seqs) = p[N]
  <2>1. CASE N = 0
    BY <2>1 DEF FlattenSeq
  <2>2. CASE N # 0
    <3>1. FlattenSeq(seqs) = g[N]
      BY <2>2 DEF FlattenSeq
    <3> HIDE DEF g
    <3> QED
      BY <1>1, <2>2, <3>1
  <2> QED
    BY <2>1, <2>2
<1>4. \A n \in 1..N : g[n] = IF n = 1 THEN seqs[n] ELSE g[n - 1] \o seqs[n]
  BY <1>2
<1> HIDE DEF g
<1>5. p[0] = <<>> /\ (\A n \in 1..N : p[n] = g[n]) /\ <<>> \in Seq(S)
  BY <1>1
<1>6. ASSUME NEW n \in 1..N, p[n - 1] \in Seq(S) PROVE p[n] = p[n - 1] \o seqs[n]
  <2>1. seqs[n] \in Seq(S) /\ p[n] = g[n] /\ n - 1 \in 0..N
    BY <1>1, <1>5
  <2>2. CASE n = 1
    <3>1. p[n - 1] = <<>> /\ p[n] = seqs[n]
      BY <1>4, <1>5, <2>1, <2>2
    <3>2. <<>> \o seqs[n] = seqs[n]
      BY <2>1, ConcatEmptySeq
    <3> QED
      BY <3>1, <3>2
  <2>3. CASE n # 1
    <3>1. n - 1 \in 1..N
      BY <1>1, <2>3
    <3>2. p[n - 1] = g[n - 1]
      BY <1>5, <3>1
    <3> QED
      BY <1>4, <2>1, <2>3, <3>2
  <2> QED
    BY <2>2, <2>3
<1>7. \A n \in 0..N : n \in T
  <2>1. 0 \in T
    BY <1>1, <1>5
  <2>2. ASSUME NEW n \in 1..N, n - 1 \in T PROVE n \in T
    <3>1. p[n - 1] \in Seq(S)
      BY <2>2
    <3>2. seqs[n] \in Seq(S) /\ n \in 0..N
      BY <1>1
    <3> HIDE DEF p
    <3>3. p[n] = p[n - 1] \o seqs[n]
      BY <1>6, <3>1
    <3>4. p[n] \in Seq(S)
      BY <3>1, <3>2, <3>3
    <3> QED
      BY <3>2, <3>4
  <2> HIDE DEF T
  <2> QED
    BY <1>1, <2>1, <2>2, Upwards
<1>8. \A n \in 0..N : p[n] \in Seq(S)
  BY <1>7
<1>9. p \in [0..N -> Seq(S)]
  BY <1>8
<1>10. \A n \in 1..N : n - 1 \in 0..N
  BY <1>1
<1> HIDE DEF p, T
<1>11. Parts(p, seqs)
  BY <1>5, <1>6, <1>8, <1>10 DEF Parts
<1> QED
  BY <1>3, <1>9, <1>11

LEMMA FlattenOne ==
    ASSUME NEW S, NEW s \in Seq(S)
    PROVE  FlattenSeq(<<s>>) = s
<1> DEFINE seqs == <<s>>
<1>1. seqs \in Seq(Seq(S)) /\ Len(seqs) = 1 /\ seqs[1] = s
  OBVIOUS
<1> HIDE DEF seqs
<1>2. PICK p \in [0..Len(seqs) -> Seq(S)] : Parts(p, seqs) /\ FlattenSeq(seqs) = p[Len(seqs)]
  BY <1>1, FlattenParts
<1>3. p[1] = p[1 - 1] \o seqs[1] /\ p[0] = <<>>
  BY <1>1, <1>2 DEF Parts
<1>4. p[1] = <<>> \o s
  BY <1>1, <1>3
<1>5. FlattenSeq(seqs) = s
  BY <1>1, <1>2, <1>4, ConcatEmptySeq
<1> QED
  BY <1>5 DEF seqs

\* s enumerates the set W, each member once.
Enumerates(s, W) ==
    /\ IsFiniteSet(W) /\ s \in Seq(W) /\ Len(s) = Cardinality(W)
    /\ \A x \in W : \E i \in 1..Len(s) : s[i] = x

LEMMA EnumeratedNone == Enumerates(<<>>, {})
BY FS_EmptySet DEF Enumerates

\* Sequences without a common member.
LEMMA EnumeratedBoth ==
    ASSUME NEW V, NEW W, V \cap W = {}, NEW s, Enumerates(s, V), NEW t, Enumerates(t, W)
    PROVE  Enumerates(s \o t, V \cup W)
<1> DEFINE X == V \cup W
           u == s \o t
<1>1. s \in Seq(X) /\ t \in Seq(X) /\ Len(s) \in Nat /\ Len(t) \in Nat
  <2>1. s \in Seq(V) /\ t \in Seq(W)
    BY DEF Enumerates
  <2>2. \A i \in 1..Len(s) : s[i] \in V
    BY <2>1
  <2>3. \A i \in 1..Len(t) : t[i] \in W
    BY <2>1
  <2> QED
    BY <2>1, <2>2, <2>3
<1>2. u \in Seq(X) /\ Len(u) = Len(s) + Len(t)
      /\ \A i \in 1..(Len(s) + Len(t)) : u[i] = IF i <= Len(s) THEN s[i] ELSE t[i - Len(s)]
  <2> HIDE DEF X
  <2> QED
    BY <1>1, ConcatProperties
<1>3. IsFiniteSet(X) /\ Len(u) = Cardinality(X)
  <2>1. IsFiniteSet(V) /\ IsFiniteSet(W) /\ Len(s) = Cardinality(V) /\ Len(t) = Cardinality(W)
    BY DEF Enumerates
  <2>2. Cardinality(X) = Cardinality(V) + Cardinality(W) - Cardinality(V \cap W) /\ IsFiniteSet(X)
    BY <2>1, FS_Union
  <2>3. Cardinality(V \cap W) = 0
    BY FS_EmptySet
  <2> HIDE DEF X, u
  <2> QED
    BY <1>1, <1>2, <2>1, <2>2, <2>3
<1> HIDE DEF u
<1>4. ASSUME NEW x \in V PROVE \E i \in 1..Len(u) : u[i] = x
  <2>1. PICK i \in 1..Len(s) : s[i] = x
    BY DEF Enumerates
  <2>2. i \in 1..(Len(s) + Len(t)) /\ i <= Len(s)
    BY <1>1
  <2> QED
    BY <1>2, <2>1, <2>2
<1>5. ASSUME NEW x \in W PROVE \E i \in 1..Len(u) : u[i] = x
  <2>1. PICK i \in 1..Len(t) : t[i] = x
    BY DEF Enumerates
  <2> DEFINE j == Len(s) + i
  <2>2. j \in 1..(Len(s) + Len(t)) /\ ~(j <= Len(s)) /\ j - Len(s) = i
    BY <1>1
  <2> HIDE DEF j
  <2> QED
    BY <1>2, <2>1, <2>2
<1> QED
  BY <1>2, <1>3, <1>4, <1>5 DEF Enumerates, u

LEMMA FlattenEnumerates ==
    ASSUME NEW S, NEW seqs \in Seq(Seq(S)), NEW W \in [1..Len(seqs) -> SUBSET S],
           \A n \in 1..Len(seqs) : Enumerates(seqs[n], W[n]),
           \A n, m \in 1..Len(seqs) : n < m => W[n] \cap W[m] = {},
           NEW X, \A n \in 1..Len(seqs) : \A c \in W[n] : c \in X,
           \A c \in X : \E n \in 1..Len(seqs) : c \in W[n]
    PROVE  Enumerates(FlattenSeq(seqs), X)
<1> DEFINE N == Len(seqs)
           U(n) == UNION {W[m] : m \in 1..n}
<1>1. N \in Nat
  OBVIOUS
<1>2. PICK p \in [0..N -> Seq(S)] : Parts(p, seqs) /\ FlattenSeq(seqs) = p[N]
  BY FlattenParts
<1> DEFINE T == {n \in 0..N : Enumerates(p[n], U(n))}
<1>3. 0 \in T
  <2>1. U(0) = {}
    OBVIOUS
  <2>2. p[0] = <<>>
    BY <1>2 DEF Parts
  <2>3. Enumerates(p[0], U(0))
    BY <2>1, <2>2, EnumeratedNone
  <2> HIDE DEF U
  <2> QED
    BY <1>1, <2>3
<1>4. ASSUME NEW n \in 1..N, n - 1 \in T PROVE n \in T
  <2>1. Enumerates(p[n - 1], U(n - 1)) /\ Enumerates(seqs[n], W[n])
    BY <1>4
  <2>2. U(n) = U(n - 1) \cup W[n]
    <3>1. \A m \in 1..n : m \in 1..(n - 1) \/ m = n
      BY <1>1
    <3>2. \A m \in 1..(n - 1) : m \in 1..n
      BY <1>1
    <3>3. n \in 1..n
      BY <1>1
    <3> QED
      BY <3>1, <3>2, <3>3
  <2>3. U(n - 1) \cap W[n] = {}
    <3>1. \A m \in 1..(n - 1) : m \in 1..N /\ m < n
      BY <1>1
    <3>2. \A m \in 1..(n - 1) : W[m] \cap W[n] = {}
      BY <3>1
    <3> QED
      BY <3>2
  <2>4. p[n] = p[n - 1] \o seqs[n]
    BY <1>2 DEF Parts
  <2> HIDE DEF U
  <2> DEFINE A == U(n - 1)
             B == W[n]
             s == p[n - 1]
             t == seqs[n]
  <2>5. Enumerates(s, A) /\ Enumerates(t, B) /\ A \cap B = {}
    BY <2>1, <2>3
  <2>6. p[n] = s \o t /\ U(n) = A \cup B
    BY <2>2, <2>4
  <2> HIDE DEF A, B, s, t
  <2>7. Enumerates(s \o t, A \cup B)
    BY <2>5, EnumeratedBoth
  <2>8. Enumerates(p[n], U(n))
    BY <2>6, <2>7
  <2> QED
    BY <1>1, <2>8
<1>5. N \in T
  <2> HIDE DEF T, N
  <2>1. \A n \in 0..N : n \in T
    BY <1>1, <1>3, <1>4, Upwards
  <2> QED
    BY <1>1, <2>1
<1>6. U(N) = X
  OBVIOUS
<1> HIDE DEF U
<1> QED
  BY <1>2, <1>5, <1>6

\* Singletons and then nothing.
LEMMA FlattenFirst ==
    ASSUME NEW S, NEW seqs \in Seq(Seq(S)), NEW r \in 0..Len(seqs), NEW x \in [1..r -> S],
           \A n \in 1..Len(seqs) : seqs[n] = IF n <= r THEN <<x[n]>> ELSE <<>>
    PROVE  FlattenSeq(seqs) = x
<1> DEFINE N == Len(seqs)
           least(n) == IF n <= r THEN n ELSE r
<1>0. \A n \in 1..N : seqs[n] \in Seq(S)
  OBVIOUS
<1>1. N \in Nat /\ r \in Nat /\ r <= N
  OBVIOUS
<1>2. PICK p \in [0..N -> Seq(S)] : Parts(p, seqs) /\ FlattenSeq(seqs) = p[N]
  BY FlattenParts
<1> DEFINE Has(n) == Len(p[n]) = least(n) /\ \A i \in 1..least(n) : p[n][i] = x[i]
           T == {n \in 0..N : Has(n)}
<1>3. 0 \in T
  <2>1. p[0] = <<>>
    BY <1>2 DEF Parts
  <2> QED
    BY <1>1, <2>1
<1>4. ASSUME NEW n \in 1..N, n - 1 \in T PROVE n \in T
  <2>1. Has(n - 1)
    BY <1>4
  <2>2. p[n] = p[n - 1] \o seqs[n] /\ p[n - 1] \in Seq(S) /\ seqs[n] \in Seq(S) /\ n \in 0..N
    <3>1. n - 1 \in 0..N /\ n \in 0..N
      BY <1>1
    <3>2. p[n] = p[n - 1] \o seqs[n]
      BY <1>2 DEF Parts
    <3>3. p[n - 1] \in Seq(S) /\ seqs[n] \in Seq(S)
      BY <1>0, <1>2, <3>1
    <3> QED
      BY <3>1, <3>2, <3>3
  <2>3. CASE n <= r
    <3> DEFINE s == p[n - 1]
    <3>1. seqs[n] = <<x[n]>> /\ least(n - 1) = n - 1 /\ least(n) = n /\ x[n] \in S
      <4>1. n \in 1..r
        BY <1>1, <2>3
      <4>2. n - 1 <= r
        BY <1>1, <2>3
      <4> QED
        BY <2>3, <4>1, <4>2
    <3>2. Len(s) = n - 1 /\ \A i \in 1..(n - 1) : s[i] = x[i]
      BY <2>1, <3>1
    <3>3. s \in Seq(S) /\ p[n] = Append(s, x[n])
      BY <2>2, <3>1
    <3> HIDE DEF s, least
    <3>4. Len(p[n]) = n /\ \A i \in 1..n : p[n][i] = IF i = n THEN x[n] ELSE s[i]
      BY <1>1, <3>1, <3>2, <3>3
    <3>5. ASSUME NEW i \in 1..n PROVE p[n][i] = x[i]
      <4>1. i # n => i \in 1..(n - 1)
        BY <1>1
      <4> QED
        BY <3>2, <3>4, <4>1
    <3>6. Has(n)
      BY <3>1, <3>4, <3>5
    <3> QED
      BY <2>2, <3>6
  <2>4. CASE ~(n <= r)
    <3>1. seqs[n] = <<>> /\ least(n) = r /\ least(n - 1) = r
      <4>1. n - 1 <= r => n - 1 = r
        BY <1>1, <2>4
      <4> QED
        BY <2>4, <4>1
    <3>2. p[n] = p[n - 1]
      BY <2>2, <3>1, ConcatEmptySeq
    <3> HIDE DEF least
    <3>3. Has(n)
      BY <2>1, <3>1, <3>2
    <3> QED
      BY <2>2, <3>3
  <2> QED
    BY <2>3, <2>4
<1>5. N \in T
  <2> HIDE DEF T, N
  <2>1. \A n \in 0..N : n \in T
    BY <1>1, <1>3, <1>4, Upwards
  <2> QED
    BY <1>1, <2>1
<1>6. Len(p[N]) = r /\ \A i \in 1..r : p[N][i] = x[i]
  <2>1. least(N) = r
    BY <1>1
  <2> HIDE DEF least
  <2> QED
    BY <1>5, <2>1
<1>7. p[N] \in Seq(S)
  BY <1>1, <1>2
<1>8. p[N] = x
  <2> DEFINE s == p[N]
  <2>1. s \in Seq(S) /\ Len(s) = r
    BY <1>6, <1>7
  <2> HIDE DEF s
  <2>2. s = [i \in 1..r |-> s[i]]
    BY <2>1
  <2>3. p[N] = [i \in 1..r |-> p[N][i]]
    BY <2>2 DEF s
  <2> QED
    BY <1>6, <2>3
<1> QED
  BY <1>2, <1>8
-----------------------------------------------------------------------------
(* The box of a run *)

IsRun(run) ==
    /\ run \in [CoordDims -> [label : Dims, start : Nat, stop : Nat]]
    /\ \A d \in CoordDims :
          run[d].label = d /\ run[d].start <= Shape[d] /\ run[d].stop <= Shape[d]

LEMMA SortedOfOne ==
    ASSUME NEW x \in Int
    PROVE  Sorted({x}) = <<x>> /\ Sorted({}) = <<>>
<1>1. Cardinality({x}) = 1 /\ IsFiniteSet({x}) /\ Cardinality({}) = 0
  BY FS_Singleton, FS_EmptySet
<1>2. Sorted({x}) \in [1..1 -> {x}]
  <2>0. IsFiniteSet({x}) /\ {x} \in SUBSET Int
    BY FS_Singleton
  <2>1. Sorted({x}) \in [1..Cardinality({x}) -> {x}]
    BY <2>0, SortedIs
  <2> QED
    BY <1>1, <2>1
<1>3. Sorted({}) = <<>>
  BY <1>1 DEF Sorted, InOrder
<1> QED
  BY <1>2, <1>3

\* One descriptor for each of the first dimensions: one window each.
LEMMA RunOfLabel ==
    ASSUME NEW run, IsRun(run), NEW d \in Labels
    PROVE  Of(d, run) = IF d <= Rank THEN <<run[d]>> ELSE <<>>
<1> DEFINE A == {i \in DOMAIN run : run[i].label = d}
<1>1. /\ DOMAIN run = 1..Rank /\ Rank \in Nat /\ d \in Nat /\ d >= 1
      /\ \A i \in 1..Rank : run[i].label = i
  <2>1. Rank \in Nat /\ CoordDims = 1..Rank /\ d \in Nat /\ d >= 1
    BY Sizes DEF Labels
  <2> QED
    BY <2>1 DEF IsRun
<1>2. Of(d, run) = [k \in DOMAIN Sorted(A) |-> run[Sorted(A)[k]]]
  BY DEF Of
<1>3. CASE d <= Rank
  <2>1. A = {d}
    BY <1>1, <1>3
  <2>2. Sorted(A) = <<d>>
    BY <1>1, <2>1, SortedOfOne
  <2> QED
    BY <1>2, <1>3, <2>2
<1>4. CASE ~(d <= Rank)
  <2>1. A = {}
    BY <1>1, <1>4
  <2>2. Sorted(A) = <<>>
    <3>1. Sorted({}) = <<>>
      BY SortedOfOne, 0 \in Int
    <3> QED
      BY <2>1, <3>1
  <2> QED
    BY <1>2, <1>4, <2>2
<1> QED
  BY <1>3, <1>4

LEMMA WindowedFew ==
    ASSUME NEW S, NEW x \in S
    PROVE  Windowed(<<>>) = <<>> /\ Windowed(<<x>>) = << <<x>> >>
<1> DEFINE M == MaxSlices
<1>1. M \in Nat \ {0} /\ M - 1 >= 0 /\ M - 1 < M
  OBVIOUS
<1>2. (0 + M - 1) \div M = 0 /\ (1 + M - 1) \div M = 1
  <2>1. (0 + M - 1) \div M = 0
    BY <1>1
  <2>2. 1 + M - 1 = 1 * M + 0
    BY <1>1
  <2>3. (1 + M - 1) \div M = 1
    BY <1>1, <2>2
  <2> QED
    BY <2>1, <2>3
<1>3. Windowed(<<>>) = <<>>
  BY <1>2 DEF Windowed
<1>4. Windowed(<<x>>) = [k \in 1..1 |-> SubSeq(<<x>>, (k - 1) * M + 1, IF k * M < 1 THEN k * M ELSE 1)]
  BY <1>2 DEF Windowed
<1>5. \A k \in 1..1 : k = 1 /\ (k - 1) * M + 1 = 1 /\ (IF k * M < 1 THEN k * M ELSE 1) = 1
  BY <1>1
<1>6. SubSeq(<<x>>, 1, 1) = <<x>>
  <2>1. <<x>> \in Seq(S) /\ Len(<<x>>) = 1
    OBVIOUS
  <2> QED
    BY <2>1, SubSeqFull
<1> QED
  BY <1>3, <1>4, <1>5, <1>6

LEMMA RunWindows ==
    ASSUME NEW run, IsRun(run)
    PROVE  Windows(run) = [d \in 1..Rank |-> <<run[d]>>]
<1> DEFINE S == Seq({run[d] : d \in 1..Rank})
           seqs == [d \in Labels |-> Windowed(Of(d, run))]
           x == [d \in 1..Rank |-> <<run[d]>>]
<1>1. Rank \in Nat /\ NumDims \in Nat /\ Labels = 1..(NumDims + 1) /\ Rank <= NumDims
  BY Sizes DEF Labels
<1>2. ASSUME NEW d \in Labels PROVE seqs[d] = IF d <= Rank THEN <<x[d]>> ELSE <<>>
  <2>1. Of(d, run) = IF d <= Rank THEN <<run[d]>> ELSE <<>>
    BY RunOfLabel
  <2>2. d <= Rank => d \in 1..Rank /\ x[d] = <<run[d]>>
    BY <1>1
  <2>3. Windowed(<<>>) = <<>> /\ Windowed(<<run[d]>>) = << <<run[d]>> >>
    BY WindowedFew
  <2>4. seqs[d] = Windowed(Of(d, run))
    OBVIOUS
  <2> HIDE DEF seqs, x
  <2> QED
    BY <2>1, <2>2, <2>3, <2>4
<1>3. x \in [1..Rank -> S]
  <2>1. \A d \in 1..Rank : <<run[d]>> \in S
    OBVIOUS
  <2> HIDE DEF S
  <2> QED
    BY <2>1
<1>4. seqs \in Seq(Seq(S)) /\ Len(seqs) = NumDims + 1
  <2>1. \A d \in Labels : seqs[d] \in Seq(S)
    <3>1. \A d \in Labels : d <= Rank => d \in 1..Rank
      BY <1>1
    <3> HIDE DEF S, seqs, x
    <3>2. ASSUME NEW d \in Labels, d <= Rank PROVE seqs[d] \in Seq(S)
      <4>1. x[d] \in S /\ seqs[d] = <<x[d]>>
        BY <1>2, <1>3, <3>1, <3>2
      <4> QED
        BY <4>1
    <3>3. ASSUME NEW d \in Labels, ~(d <= Rank) PROVE seqs[d] \in Seq(S)
      <4>1. seqs[d] = <<>>
        BY <1>2, <3>3
      <4> QED
        BY <4>1
    <3> QED
      BY <3>2, <3>3
  <2>2. seqs \in [1..(NumDims + 1) -> Seq(S)]
    <3> HIDE DEF S
    <3> QED
      BY <1>1, <2>1
  <2> HIDE DEF seqs, S
  <2> QED
    BY <1>1, <2>2
<1>5. Windows(run) = FlattenSeq(seqs)
  BY DEF Windows
<1> HIDE DEF seqs, x, S
<1>6. FlattenSeq(seqs) = x
  <2>1. Rank \in 0..Len(seqs) /\ \A n \in 1..Len(seqs) : n \in Labels
    BY <1>1, <1>4
  <2> QED
    BY <1>2, <1>3, <1>4, <2>1, FlattenFirst
<1> QED
  BY <1>5, <1>6 DEF x

\* What the first k descriptors of a run leave of the dataset.
Cut(run, d) ==
    [origin |-> run[d].start,
     cells  |-> [i \in 1..(run[d].stop - run[d].start) |-> run[d].start + i - 1]]

ViewOf(run, k) ==
    [v \in Variables |-> [d \in v |-> IF d <= k THEN Cut(run, d) ELSE Whole[v][d]]]

LEMMA ViewBegins == ASSUME NEW run PROVE ViewOf(run, 0) = Whole
<1>1. \A v \in Variables : \A d \in v : ~(d <= 0)
  BY Sizes
<1>2. Whole = [v \in Variables |-> [d \in v |-> Whole[v][d]]]
  BY DEF Whole
<1> QED
  BY <1>1, <1>2 DEF ViewOf

LEMMA RunFacts ==
    ASSUME NEW run, IsRun(run), NEW k \in 1..Rank
    PROVE  /\ k \in CoordDims /\ k \in Dims /\ k \in Labels /\ k \in Nat
           /\ Shape[k] \in Nat \ {0} /\ run[k].label = k
           /\ run[k] = [label |-> k, start |-> run[k].start, stop |-> run[k].stop]
           /\ run[k].start \in Nat /\ run[k].stop \in Nat
           /\ run[k].start <= Shape[k] /\ run[k].stop <= Shape[k]
<1>1. k \in CoordDims /\ k \in Dims
  BY Sizes
<1>2. run[k] \in [label : Dims, start : Nat, stop : Nat]
  BY <1>1 DEF IsRun
<1>3. k \in Nat /\ k \in Labels /\ Shape[k] \in Nat \ {0}
  BY <1>1, Sizes DEF Labels
<1>4. run[k].label = k /\ run[k].start <= Shape[k] /\ run[k].stop <= Shape[k]
  BY <1>1 DEF IsRun
<1> QED
  BY <1>1, <1>2, <1>3, <1>4

\* A descriptor of a run is in the range of every variable.
LEMMA RunInRange ==
    ASSUME NEW run, IsRun(run), NEW k \in 1..Rank, NEW v \in Variables
    PROVE  LET r == SliceInRange(run[k], ViewOf(run, k - 1)[v])
           IN  r.start = run[k].start /\ r.stop = run[k].stop
<1> DEFINE domain == ViewOf(run, k - 1)[v]
<1>1. domain = [d \in v |-> IF d <= k - 1 THEN Cut(run, d) ELSE Whole[v][d]]
  BY DEF ViewOf
<1>2. /\ k \in Nat /\ run[k].label = k /\ Shape[k] \in Nat
      /\ run[k] = [label |-> k, start |-> run[k].start, stop |-> run[k].stop]
      /\ run[k].start \in Nat /\ run[k].stop \in Nat
      /\ run[k].start <= Shape[k] /\ run[k].stop <= Shape[k]
  BY RunFacts
<1>3. CASE k \notin v
  <2>1. SliceInRange(run[k], domain) = run[k]
    BY <1>1, <1>2, <1>3 DEF SliceInRange
  <2> QED
    BY <2>1
<1>4. CASE k \in v
  <2>1. domain[k] = Whole[v][k]
    BY <1>1, <1>2, <1>4
  <2>2. domain[k].origin = 0 /\ Upper(domain[k]) = Shape[k]
    BY <1>2, <1>4, <2>1 DEF Whole, Upper
  <2>3. SliceInRange(run[k], domain) =
          [run[k] EXCEPT !.start = IF @ < domain[k].origin THEN domain[k].origin ELSE @,
                         !.stop  = IF @ > Upper(domain[k]) THEN Upper(domain[k]) ELSE @]
    BY <1>1, <1>2, <1>4 DEF SliceInRange
  <2> DEFINE s == run[k].start
             e == run[k].stop
  <2>4. ~(s < 0) /\ ~(e > Shape[k])
    BY <1>2
  <2>5. SliceInRange(run[k], domain) = [label |-> k, start |-> s, stop |-> e]
    BY <1>2, <2>2, <2>3, <2>4
  <2> QED
    BY <2>5
<1> QED
  BY <1>3, <1>4

LEMMA RunRefused ==
    ASSUME NEW run, IsRun(run), NEW k \in 1..Rank
    PROVE  IselOk(ViewOf(run, k - 1), <<run[k]>>) <=> run[k].start <= run[k].stop
<1>1. run[k].start \in Nat /\ run[k].stop \in Nat
  BY RunFacts
<1>2. \A v \in Variables :
         Refused(ViewOf(run, k - 1)[v], <<run[k]>>) <=> run[k].start > run[k].stop
  <2>1. SUFFICES ASSUME NEW v \in Variables
                 PROVE Refused(ViewOf(run, k - 1)[v], <<run[k]>>) <=> run[k].start > run[k].stop
    OBVIOUS
  <2> DEFINE r == SliceInRange(run[k], ViewOf(run, k - 1)[v])
  <2>2. r.start = run[k].start /\ r.stop = run[k].stop
    BY RunInRange
  <2>3. Refused(ViewOf(run, k - 1)[v], <<run[k]>>) <=> r.start > r.stop
    BY DEF Refused
  <2> QED
    BY <2>2, <2>3
<1>3. \E v \in Variables : v = CoordDims
  BY Sizes
<1> QED
  BY <1>1, <1>2, <1>3 DEF IselOk

LEMMA OfOne ==
    ASSUME NEW r, NEW d
    PROVE  Of(d, <<r>>) = IF d = r.label THEN <<r>> ELSE <<>>
<1> DEFINE A == {i \in DOMAIN <<r>> : <<r>>[i].label = d}
<1>1. Of(d, <<r>>) = [k \in DOMAIN Sorted(A) |-> <<r>>[Sorted(A)[k]]]
  BY DEF Of
<1>2. Sorted({1}) = <<1>> /\ Sorted({}) = <<>>
  BY SortedOfOne, 1 \in Int
<1>3. CASE d = r.label
  <2>1. A = {1}
    BY <1>3
  <2> HIDE DEF A
  <2> QED
    BY <1>1, <1>2, <1>3, <2>1
<1>4. CASE d # r.label
  <2>1. A = {}
    BY <1>4
  <2> HIDE DEF A
  <2> QED
    BY <1>1, <1>2, <1>4, <2>1
<1> QED
  BY <1>3, <1>4

LEMMA RunSliced ==
    ASSUME NEW run, IsRun(run), NEW k \in 1..Rank, run[k].start <= run[k].stop
    PROVE  Isel(ViewOf(run, k - 1), <<run[k]>>) = ViewOf(run, k)
<1>1. /\ k \in Nat /\ run[k].label = k /\ Shape[k] \in Nat
      /\ run[k].start \in Nat /\ run[k].stop \in Nat
      /\ run[k].start <= Shape[k] /\ run[k].stop <= Shape[k]
  BY RunFacts
<1>2. ASSUME NEW v \in Variables
      PROVE  Slice(ViewOf(run, k - 1)[v], <<run[k]>>) = ViewOf(run, k)[v]
  <2> DEFINE domain == ViewOf(run, k - 1)[v]
             r == SliceInRange(run[k], domain)
             h == HalfOpenInterval(domain[k], r)
             Is(d) == Of(d, <<run[k]>>)
  <2>1. domain = [d \in v |-> IF d <= k - 1 THEN Cut(run, d) ELSE Whole[v][d]]
    BY DEF ViewOf
  <2>2. \A d : Is(d) = IF d = k THEN <<run[k]>> ELSE <<>>
    BY <1>1, OfOne
  <2>3. Repeated(domain, <<run[k]>>) = {}
    <3>1. ~(Len(<<>>) > 1) /\ ~(Len(<<run[k]>>) > 1)
      OBVIOUS
    <3> HIDE DEF Is
    <3>2. \A d : ~(Len(Is(d)) > 1)
      BY <2>2, <3>1
    <3> QED
      BY <3>2 DEF Repeated, Is
  <2>4. Slice(domain, <<run[k]>>) =
          [d \in v |-> IF Is(d) = <<>> THEN domain[d] ELSE SliceOne(domain, d, <<run[k]>>)[d]]
    BY <2>1, <2>3 DEF Slice
  <2>5. k \in v => SliceOne(domain, k, <<run[k]>>)[k] = Concat(<<h>>)
    <3>1. Is(k) = <<run[k]>>
      BY <2>2
    <3>2. SUFFICES ASSUME k \in v PROVE SliceOne(domain, k, <<run[k]>>)[k] = Concat(<<h>>)
      OBVIOUS
    <3>3. SliceOne(domain, k, <<run[k]>>) =
            [domain EXCEPT ![k] = Concat([i \in DOMAIN <<run[k]>> |->
                 HalfOpenInterval(domain[k], SliceInRange(<<run[k]>>[i], domain))])]
      BY <3>1 DEF SliceOne
    <3>4. [i \in DOMAIN <<run[k]>> |->
             HalfOpenInterval(domain[k], SliceInRange(<<run[k]>>[i], domain))] = <<h>>
      OBVIOUS
    <3> HIDE DEF h
    <3> QED
      BY <2>1, <3>2, <3>3, <3>4
  <2>6. k \in v => Concat(<<h>>) = Cut(run, k)
    <3>1. SUFFICES ASSUME k \in v PROVE Concat(<<h>>) = Cut(run, k)
      OBVIOUS
    <3> DEFINE s == run[k].start
               e == run[k].stop
               whole == [i \in 1..Shape[k] |-> i - 1]
    <3>2. domain[k] = [origin |-> 0, cells |-> whole]
      BY <1>1, <2>1, <3>1 DEF Whole
    <3>3. h = [origin |-> s, cells |-> SubSeq(whole, s + 1, e)]
      <4>1. r.start = s /\ r.stop = e
        BY RunInRange
      <4>2. h = [origin |-> s, cells |-> SubSeq(whole, s - 0 + 1, e - 0)]
        <5> HIDE DEF r, whole, s, e, domain
        <5>1. domain[k].origin = 0 /\ domain[k].cells = whole
          BY <3>2
        <5> QED
          BY <4>1, <5>1 DEF HalfOpenInterval
      <4>3. s - 0 + 1 = s + 1 /\ e - 0 = e
        BY <1>1
      <4> QED
        BY <4>2, <4>3
    <3>4. whole \in Seq(Nat) /\ Len(whole) = Shape[k]
      BY <1>1
    <3>5. SubSeq(whole, s + 1, e) \in Seq(Nat)
          /\ SubSeq(whole, s + 1, e) = [i \in 1..(e - s) |-> s + i - 1]
      <4>1. \A i \in (s + 1)..e : whole[i] \in Nat
        BY <1>1
      <4> HIDE DEF whole
      <4> DEFINE c == SubSeq(whole, s + 1, e)
      <4>2. /\ c \in Seq(Nat) /\ Len(c) = IF s + 1 <= e THEN e - (s + 1) + 1 ELSE 0
            /\ \A i \in 1..(e - (s + 1) + 1) : c[i] = whole[(s + 1) + i - 1]
        BY <1>1, <4>1, SubSeqProperties
      <4>3. e - (s + 1) + 1 = e - s /\ Len(c) = e - s
        BY <1>1, <4>2
      <4>4. ASSUME NEW i \in 1..(e - s) PROVE c[i] = s + i - 1
        <5>1. /\ (s + 1) + i - 1 = s + i /\ s + i \in 1..Shape[k]
              /\ i \in 1..(e - (s + 1) + 1)
          BY <1>1
        <5>2. whole[s + i] = s + i - 1
          <6>1. \A j \in 1..Shape[k] : whole[j] = j - 1
            BY DEF whole
          <6>2. s + i \in Int /\ s \in Int
            BY <1>1
          <6> DEFINE j == s + i
          <6> HIDE DEF s, e, whole
          <6>3. j \in 1..Shape[k]
            BY <5>1
          <6> HIDE DEF j
          <6>4. whole[j] = j - 1
            BY <6>1, <6>3
          <6>5. j - 1 = s + i - 1
            <7> HIDE DEF whole
            <7> QED
              BY <6>2 DEF j
          <6> QED
            BY <6>4, <6>5 DEF j
        <5>3. c[i] = whole[(s + 1) + i - 1]
          BY <4>2, <5>1
        <5> HIDE DEF c, s, e
        <5> QED
          BY <5>1, <5>2, <5>3
      <4> HIDE DEF c, s, e
      <4>5. c = [i \in 1..(e - s) |-> c[i]]
        BY <4>2, <4>3
      <4>6. c = [i \in 1..(e - s) |-> s + i - 1]
        BY <4>4, <4>5
      <4> QED
        BY <4>2, <4>6 DEF c
    <3>6. Concat(<<h>>) = [origin |-> h.origin, cells |-> FlattenSeq(<<h.cells>>)]
      <4>1. [i \in DOMAIN <<h>> |-> <<h>>[i].cells] = <<h.cells>>
        OBVIOUS
      <4> HIDE DEF h
      <4> QED
        BY <4>1 DEF Concat
    <3> HIDE DEF h
    <3>7. FlattenSeq(<<h.cells>>) = h.cells
      <4>1. h.cells \in Seq(Nat)
        BY <3>3, <3>5
      <4> QED
        BY <4>1, FlattenOne
    <3> QED
      BY <3>3, <3>5, <3>6, <3>7 DEF Cut
  <2>7. ViewOf(run, k)[v] = [d \in v |-> IF d <= k THEN Cut(run, d) ELSE Whole[v][d]]
    BY DEF ViewOf
  <2>8. ASSUME NEW d \in v
        PROVE (IF Is(d) = <<>> THEN domain[d] ELSE SliceOne(domain, d, <<run[k]>>)[d])
                = IF d <= k THEN Cut(run, d) ELSE Whole[v][d]
    <3>1. d \in Nat
      BY Sizes
    <3>2. CASE d = k
      <4>1. Is(d) # <<>> /\ d <= k
        <5>1. Is(d) = <<run[k]>>
          <6> HIDE DEF Is
          <6> QED
            BY <2>2, <3>2
        <5>2. <<run[k]>> # <<>>
          OBVIOUS
        <5> HIDE DEF Is
        <5> QED
          BY <1>1, <3>2, <5>1, <5>2
      <4> HIDE DEF domain, Is, h
      <4> QED
        BY <2>5, <2>6, <3>2, <4>1
    <3>3. CASE d # k
      <4>1. Is(d) = <<>> /\ (d <= k <=> d <= k - 1)
        BY <1>1, <2>2, <3>1, <3>3
      <4> HIDE DEF Is
      <4> QED
        BY <2>1, <4>1
    <3> QED
      BY <3>2, <3>3
  <2> HIDE DEF domain, Is, r, h
  <2>9. Slice(domain, <<run[k]>>) = ViewOf(run, k)[v]
    BY <2>4, <2>7, <2>8
  <2> QED
    BY <2>9 DEF domain
<1>3. ViewOf(run, k) = [v \in Variables |-> ViewOf(run, k)[v]]
  BY DEF ViewOf
<1> QED
  BY <1>2, <1>3 DEF Isel

\* after[k] is what k windows have made of the dataset.
Applied(after, w, descs) ==
    /\ after[0] = [ok |-> descs # <<>>, view |-> w]
    /\ \A k \in 1..Len(Windows(descs)) : after[k] = ApplyWindow(after[k - 1], Windows(descs)[k])

LEMMA IselVectorSteps ==
    ASSUME NEW w, NEW descs, Len(Windows(descs)) \in Nat
    PROVE  \E after : Applied(after, w, descs) /\ IselVector(w, descs) = after[Len(Windows(descs))]
<1> DEFINE ws == Windows(descs)
           N == Len(ws)
           next(f, k) == IF k = 0 THEN [ok |-> descs # <<>>, view |-> w]
                         ELSE ApplyWindow(f[k - 1], ws[k])
           Is(f, n) == f = [k \in 0..n |-> next(f, k)]
           T == {n \in 0..N : \E f : Is(f, n)}
           c == CHOOSE f : Is(f, N)
<1>1. 0 \in T
  <2> DEFINE f == [k \in 0..0 |-> [ok |-> descs # <<>>, view |-> w]]
  <2>1. \A k \in 0..0 : k = 0 /\ next(f, k) = [ok |-> descs # <<>>, view |-> w]
    OBVIOUS
  <2>2. Is(f, 0) /\ 0 \in 0..N
    BY <2>1
  <2> HIDE DEF f, Is
  <2> QED
    BY <2>2
<1>2. ASSUME NEW n \in 1..N, n - 1 \in T PROVE n \in T
  <2>1. PICK g : Is(g, n - 1)
    BY <1>2
  <2> DEFINE h == [k \in 0..n |-> IF k = n THEN next(g, k) ELSE g[k]]
  <2>2. \A k \in 0..n : k = n \/ k \in 0..(n - 1)
    OBVIOUS
  <2>3. \A k \in 0..n : k # 0 => k - 1 \in 0..(n - 1) /\ h[k - 1] = g[k - 1]
    OBVIOUS
  <2>4. \A k \in 0..n : next(h, k) = next(g, k)
    BY <2>3
  <2>5. \A k \in 0..(n - 1) : g[k] = next(g, k)
    BY <2>1
  <2>6. \A k \in 0..n : h[k] = IF k = n THEN next(g, k) ELSE g[k]
    OBVIOUS
  <2>7. h = [k \in 0..n |-> h[k]]
    OBVIOUS
  <2> HIDE DEF h, next
  <2>8. \A k \in 0..n : h[k] = next(h, k)
    BY <2>2, <2>4, <2>5, <2>6
  <2>9. Is(h, n)
    BY <2>7, <2>8
  <2>10. n \in 0..N
    OBVIOUS
  <2> HIDE DEF Is
  <2> QED
    BY <2>9, <2>10
<1>3. \E f : Is(f, N)
  <2> HIDE DEF T, N
  <2>1. N \in Nat
    BY DEF N
  <2>2. \A n \in 0..N : n \in T
    BY <1>1, <1>2, <2>1, Upwards
  <2>3. N \in T
    BY <2>1, <2>2
  <2> HIDE DEF Is
  <2> QED
    BY <2>3 DEF T
<1>4. Is(c, N)
  <2> HIDE DEF Is
  <2> QED
    BY <1>3
<1>5. IselVector(w, descs) = c[N]
  BY DEF IselVector
<1> HIDE DEF c
<1>6. \A k \in 0..N : c[k] = next(c, k)
  BY <1>4
<1>7. Applied(c, w, descs)
  <2>1. 0 \in 0..N /\ \A k \in 1..N : k \in 0..N /\ k # 0
    OBVIOUS
  <2> HIDE DEF N, ws
  <2> QED
    BY <1>6, <2>1 DEF Applied, N, ws
<1> QED
  BY <1>5, <1>7

\* The slices of a run can be made if none of them is inverted, and leave the box.
LEMMA BoxIs ==
    ASSUME NEW run, IsRun(run)
    PROVE  /\ Box(run).ok \in BOOLEAN
           /\ Box(run).ok <=> \A d \in CoordDims : run[d].start <= run[d].stop
           /\ Box(run).ok => Box(run).view = ViewOf(run, Rank)
<1> DEFINE ws == Windows(run)
<1>1. Rank \in Nat \ {0} /\ CoordDims = 1..Rank
  BY Sizes, DimsAssumption DEF Dims
<1>2. ws = [d \in 1..Rank |-> <<run[d]>>] /\ Len(ws) = Rank
  <2>1. ws = [d \in 1..Rank |-> <<run[d]>>]
    BY RunWindows
  <2> HIDE DEF ws
  <2> QED
    BY <1>1, <2>1
<1>3. PICK after : Applied(after, Whole, run) /\ IselVector(Whole, run) = after[Rank]
  <2>1. \E after : Applied(after, Whole, run) /\ IselVector(Whole, run) = after[Len(Windows(run))]
    BY <1>1, <1>2, IselVectorSteps
  <2> QED
    BY <1>2, <2>1
<1>4. \A k \in 1..Rank : after[k] = ApplyWindow(after[k - 1], <<run[k]>>)
  BY <1>1, <1>2, <1>3 DEF Applied
<1> HIDE DEF ws
<1> DEFINE Fine(k) == \A d \in 1..k : run[d].start <= run[d].stop
           Has(k) == /\ after[k].ok \in BOOLEAN
                     /\ after[k].ok <=> Fine(k)
                     /\ after[k].ok => after[k].view = ViewOf(run, k)
           T == {k \in 0..Rank : Has(k)}
<1>5. 0 \in T
  <2>1. run # <<>>
    <3>1. DOMAIN run = 1..Rank /\ 1 \in 1..Rank /\ DOMAIN <<>> = {}
      BY <1>1 DEF IsRun
    <3> QED
      BY <3>1
  <2>2. after[0] = [ok |-> run # <<>>, view |-> Whole]
    BY <1>3 DEF Applied
  <2>3. after[0].ok = TRUE /\ after[0].view = Whole
    <3>1. (run # <<>>) = TRUE
      BY <2>1
    <3>2. after[0] = [ok |-> TRUE, view |-> Whole]
      BY <2>2, <3>1, Zenon
    <3> QED
      BY <3>2
  <2>4. after[0].view = ViewOf(run, 0)
    BY <2>3, ViewBegins
  <2>5. after[0].ok /\ Fine(0)
    BY <2>1, <2>3
  <2>6. Has(0)
    <3> HIDE DEF Fine
    <3>1. after[0].ok \in BOOLEAN
      BY <2>3
    <3> QED
      BY <2>4, <2>5, <3>1
  <2> HIDE DEF Has
  <2> QED
    BY <1>1, <2>6
<1>6. ASSUME NEW k \in 1..Rank, k - 1 \in T PROVE k \in T
  <2>1. Has(k - 1)
    BY <1>6
  <2> DEFINE r == after[k - 1]
             good == r.ok /\ IselOk(r.view, <<run[k]>>)
             yes == [ok |-> TRUE, view |-> Isel(r.view, <<run[k]>>)]
             no == [ok |-> FALSE, view |-> r.view]
  <2>2. after[k] = IF good THEN yes ELSE no
    BY <1>4 DEF ApplyWindow
  <2>3. Fine(k) <=> Fine(k - 1) /\ run[k].start <= run[k].stop
    <3>1. \A d \in 1..k : d \in 1..(k - 1) \/ d = k
      BY <1>1
    <3>2. \A d \in 1..(k - 1) : d \in 1..k
      BY <1>1
    <3>3. k \in 1..k
      BY <1>1
    <3> QED
      BY <3>1, <3>2, <3>3
  <2>4. r.ok => (IselOk(r.view, <<run[k]>>) <=> run[k].start <= run[k].stop)
    <3> HIDE DEF Fine
    <3> QED
      BY <2>1, RunRefused
  <2>5. r.ok /\ run[k].start <= run[k].stop => Isel(r.view, <<run[k]>>) = ViewOf(run, k)
    <3> HIDE DEF Fine
    <3> QED
      BY <2>1, RunSliced
  <2> HIDE DEF Fine, r
  <2>6. CASE good
    <3>1. after[k] = yes
      BY <2>2, <2>6
    <3>2. after[k].ok = TRUE /\ after[k].view = Isel(r.view, <<run[k]>>)
      BY <3>1
    <3>3. Fine(k) /\ after[k].view = ViewOf(run, k)
      BY <2>1, <2>3, <2>4, <2>5, <2>6, <3>2 DEF r
    <3>4. Has(k)
      BY <3>2, <3>3
    <3> QED
      BY <1>1, <3>4
  <2>7. CASE ~good
    <3>1. after[k] = no
      BY <2>2, <2>7
    <3>2. after[k].ok = FALSE
      BY <3>1
    <3>3. ~Fine(k)
      BY <2>1, <2>3, <2>4, <2>7 DEF r
    <3>4. Has(k)
      BY <3>2, <3>3
    <3> QED
      BY <1>1, <3>4
  <2> QED
    BY <2>6, <2>7
<1>7. Has(Rank)
  <2> HIDE DEF Has
  <2>1. \A k \in 0..Rank : k \in T
    <3> HIDE DEF T
    <3> QED
      BY <1>1, <1>5, <1>6, Upwards
  <2> QED
    BY <1>1, <2>1
<1>8. Box(run) = after[Rank]
  BY <1>3 DEF Box
<1> QED
  BY <1>1, <1>7, <1>8

\* A run without descriptors has no box.
LEMMA BoxNone == Box(<<>>).ok = FALSE
<1> DEFINE S == Seq({0})
           seqs == [d \in Labels |-> Windowed(Of(d, <<>>))]
<1>1. NumDims + 1 \in Nat /\ Labels = 1..(NumDims + 1)
  BY Sizes DEF Labels
<1>2. ASSUME NEW d \in Labels PROVE Windowed(Of(d, <<>>)) = <<>>
  <2>1. {i \in DOMAIN <<>> : <<>>[i].label = d} = {}
    OBVIOUS
  <2>2. Sorted({}) = <<>>
    BY SortedOfOne, 1 \in Int
  <2>3. Of(d, <<>>) = <<>>
    BY <2>1, <2>2 DEF Of
  <2>4. Windowed(<<>>) = <<>>
    BY WindowedFew
  <2> QED
    BY <2>3, <2>4
<1>3. /\ seqs \in Seq(Seq(S)) /\ Len(seqs) = NumDims + 1
      /\ \A n \in 1..Len(seqs) : seqs[n] = <<>>
  <2>1. seqs \in [1..(NumDims + 1) -> Seq(S)] /\ \A d \in Labels : seqs[d] = <<>>
    <3>1. \A d \in Labels : seqs[d] = <<>>
      BY <1>2
    <3>2. <<>> \in Seq(S)
      OBVIOUS
    <3> HIDE DEF S
    <3> QED
      BY <1>1, <3>1, <3>2
  <2> HIDE DEF seqs, S
  <2>2. seqs \in Seq(Seq(S)) /\ Len(seqs) = NumDims + 1
    BY <1>1, <2>1
  <2> QED
    BY <1>1, <2>1, <2>2
<1> HIDE DEF seqs, S
<1>4. FlattenSeq(seqs) = <<>>
  <2>1. 0 \in 0..Len(seqs) /\ <<>> \in [1..0 -> S]
        /\ \A n \in 1..Len(seqs) : ~(n <= 0)
    BY <1>1, <1>3
  <2>2. \A n \in 1..Len(seqs) : seqs[n] = IF n <= 0 THEN << <<>>[n] >> ELSE <<>>
    BY <1>3, <2>1
  <2> QED
    BY <1>3, <2>1, <2>2, FlattenFirst
<1>5. Windows(<<>>) = <<>>
  BY <1>4 DEF Windows, seqs
<1>6. PICK after : Applied(after, Whole, <<>>) /\ IselVector(Whole, <<>>) = after[0]
  <2>1. Len(Windows(<<>>)) = 0
    BY <1>5
  <2>2. \E after : /\ Applied(after, Whole, <<>>)
                   /\ IselVector(Whole, <<>>) = after[Len(Windows(<<>>))]
    BY <2>1, IselVectorSteps
  <2> QED
    BY <2>1, <2>2
<1>7. after[0] = [ok |-> <<>> # <<>>, view |-> Whole]
  BY <1>6 DEF Applied
<1>8. (<<>> # <<>>) = FALSE
  OBVIOUS
<1>9. after[0].ok = FALSE
  <2>1. after[0] = [ok |-> FALSE, view |-> Whole]
    BY <1>7, <1>8, Zenon
  <2> QED
    BY <2>1
<1> QED
  BY <1>6, <1>9 DEF Box
-----------------------------------------------------------------------------
(* The cells of a run *)

CellsOf(v, W) == {AllCells[v][n] : n \in W}

\* The numbers of the cells of v in the box of a run.
Inside(run, v) ==
    {n \in 1..Stride(v, 0) :
        \A d \in v : d \in CoordDims => run[d].start <= Digit(v, n, d) /\ Digit(v, n, d) < run[d].stop}

InOrderOf(v, W) == [k \in 1..Cardinality(W) |-> AllCells[v][Sorted(W)[k]]]

LEMMA EnumeratedCells ==
    ASSUME NEW v \in Variables, NEW W \in SUBSET (1..Stride(v, 0))
    PROVE  /\ IsFiniteSet(W) /\ W \in SUBSET Int
           /\ Enumerates(InOrderOf(v, W), CellsOf(v, W))
<1> DEFINE f == [n \in W |-> AllCells[v][n]]
           C == CellsOf(v, W)
           s == InOrderOf(v, W)
<1>1. IsFiniteSet(W) /\ W \in SUBSET Int
  <2>1. Stride(v, 0) \in Nat
    BY CellIs
  <2>2. IsFiniteSet(1..Stride(v, 0))
    BY <2>1, FS_Interval
  <2>3. 1..Stride(v, 0) \in SUBSET Int
    BY <2>1
  <2> QED
    BY <2>2, <2>3, FS_Subset
<1>2. f \in Surjection(W, C)
  BY DEF Surjection, CellsOf
<1>3. f \in Injection(W, C)
  <2>1. \A n, m \in W : f[n] = f[m] => n = m
    BY CellsDiffer
  <2> HIDE DEF C
  <2> QED
    BY <1>2, <2>1 DEF Injection, Surjection, IsInjective
<1>4. IsFiniteSet(C) /\ Cardinality(C) = Cardinality(W)
  <2> HIDE DEF f, C
  <2> QED
    BY <1>1, <1>2, <1>3, FS_Surjection
<1>5. /\ Cardinality(W) \in Nat /\ Sorted(W) \in [1..Cardinality(W) -> W]
      /\ \A x \in W : \E k \in 1..Cardinality(W) : Sorted(W)[k] = x
  BY <1>1, SortedIs
<1>6. \A k \in 1..Cardinality(W) : s[k] = AllCells[v][Sorted(W)[k]] /\ s[k] \in C
  BY <1>5 DEF InOrderOf, CellsOf
<1>7. s \in [1..Cardinality(W) -> C]
  <2>1. s = [k \in 1..Cardinality(W) |-> s[k]]
    BY DEF InOrderOf
  <2> HIDE DEF s, C
  <2> QED
    BY <1>6, <2>1
<1>8. s \in Seq(C) /\ Len(s) = Cardinality(W)
  <2> HIDE DEF s, C
  <2> QED
    BY <1>5, <1>7
<1>9. \A x \in C : \E k \in 1..Len(s) : s[k] = x
  <2>1. SUFFICES ASSUME NEW x \in C PROVE \E k \in 1..Len(s) : s[k] = x
    OBVIOUS
  <2>2. PICK n \in W : x = AllCells[v][n]
    BY DEF CellsOf
  <2>3. PICK k \in 1..Cardinality(W) : Sorted(W)[k] = n
    BY <1>5
  <2> HIDE DEF s
  <2> QED
    BY <1>6, <1>8, <2>2, <2>3
<1> HIDE DEF s, C
<1>10. Enumerates(s, C)
  BY <1>4, <1>8, <1>9 DEF Enumerates
<1> QED
  BY <1>1, <1>10 DEF s, C

\* A run is read in row-major order.
LEMMA RunCells ==
    ASSUME NEW run, IsRun(run), Box(run).ok, NEW v \in Variables
    PROVE  CellSeq(Box(run).view, v) = InOrderOf(v, Inside(run, v))
<1> DEFINE w == Box(run).view
           N == Stride(v, 0)
           Within(c) == \A d \in v : w[v][d].origin <= c[d] /\ c[d] < Upper(w[v][d])
           W == {n \in DOMAIN AllCells[v] : Within(AllCells[v][n])}
<1>1. w = ViewOf(run, Rank)
  BY BoxIs
<1>2. v \in SUBSET Dims /\ v \subseteq Nat /\ CoordDims = 1..Rank /\ Rank \in Nat
  BY Sizes
<1>3. ASSUME NEW d \in v, d \in CoordDims
      PROVE  w[v][d].origin = run[d].start /\ Upper(w[v][d]) = run[d].stop
  <2>1. d <= Rank /\ d \in 1..Rank
    BY <1>2, <1>3
  <2>2. w[v][d] = Cut(run, d)
    BY <1>1, <2>1 DEF ViewOf
  <2>3. run[d].start \in Nat /\ run[d].stop \in Nat /\ run[d].start <= run[d].stop
    BY <1>3, <2>1, BoxIs, RunFacts
  <2>4. Cut(run, d).origin = run[d].start /\ Len(Cut(run, d).cells) = run[d].stop - run[d].start
    BY <2>3 DEF Cut
  <2> HIDE DEF w
  <2> QED
    BY <2>2, <2>3, <2>4 DEF Upper
<1>4. ASSUME NEW d \in v, d \notin CoordDims
      PROVE  w[v][d].origin = 0 /\ Upper(w[v][d]) = Shape[d] /\ Shape[d] \in Nat
  <2>1. ~(d <= Rank)
    <3>1. d \in 1..NumDims
      BY <1>2, Sizes
    <3> QED
      BY <1>2, <1>4, <3>1
  <2>2. w[v][d] = Whole[v][d]
    BY <1>1, <2>1 DEF ViewOf
  <2>3. Shape[d] \in Nat
    BY <1>2, Sizes
  <2> HIDE DEF w
  <2> QED
    BY <2>2, <2>3 DEF Whole, Upper
<1>5. DOMAIN AllCells[v] = 1..N /\ \A n \in 1..N : AllCells[v][n] = [d \in v |-> Digit(v, n, d)]
  BY CellIs
<1>6. \A n \in 1..N : \A d \in v : Digit(v, n, d) \in Nat /\ Digit(v, n, d) < Shape[d]
  <2>1. N \in Nat
    BY CellIs
  <2>2. \A n \in 1..N : n \in Nat \ {0}
    BY <2>1
  <2> HIDE DEF N
  <2> QED
    BY <1>2, <2>2, DigitIs
<1>7. ASSUME NEW n \in 1..N
      PROVE  Within(AllCells[v][n]) <=>
               \A d \in v : d \in CoordDims =>
                   run[d].start <= Digit(v, n, d) /\ Digit(v, n, d) < run[d].stop
  <2> DEFINE c == AllCells[v][n]
  <2>1. \A d \in v : c[d] = Digit(v, n, d) /\ c[d] \in Nat /\ c[d] < Shape[d]
    BY <1>5, <1>6
  <2> HIDE DEF w, c
  <2>2. ASSUME NEW d \in v, d \notin CoordDims
        PROVE w[v][d].origin <= c[d] /\ c[d] < Upper(w[v][d])
    <3>1. 0 <= c[d] /\ c[d] < Shape[d]
      BY <2>1
    <3> QED
      BY <1>4, <2>2, <3>1
  <2>3. Within(c) <=> \A d \in v : d \in CoordDims => run[d].start <= c[d] /\ c[d] < run[d].stop
    BY <1>3, <2>2
  <2> HIDE DEF Within
  <2> QED
    BY <2>1, <2>3 DEF c
<1>8. W = Inside(run, v)
  <2> HIDE DEF Within
  <2> QED
    BY <1>5, <1>7 DEF Inside
<1>9. CellSeq(w, v) = [k \in DOMAIN Sorted(W) |-> AllCells[v][Sorted(W)[k]]]
  BY DEF CellSeq
<1> HIDE DEF W
<1>10. DOMAIN Sorted(W) = 1..Cardinality(W)
  BY DEF Sorted, InOrder
<1> QED
  BY <1>8, <1>9, <1>10 DEF InOrderOf

\* The key of a run is that of the cell where it starts.
LEMMA RunFirst ==
    ASSUME NEW run, IsRun(run), HasCells(run)
    PROVE  /\ CellSeq(Box(run).view, CoordDims)[1] = FirstCell(run)
           /\ \E n \in 1..Cells : AllCells[CoordDims][n] = FirstCell(run)
<1> DEFINE v == CoordDims
           W == Inside(run, v)
           s == CellSeq(Box(run).view, v)
           c == FirstCell(run)
<1>1. v \in Variables /\ Box(run).ok /\ s # <<>> /\ v = 1..Rank
  BY Sizes DEF HasCells
<1>2. s = [k \in 1..Cardinality(W) |-> AllCells[v][Sorted(W)[k]]]
  BY <1>1, RunCells DEF InOrderOf
<1>3. W \in SUBSET (1..Stride(v, 0)) /\ 1..Stride(v, 0) = 1..Cells
  BY DEF Inside, Cells
<1>4. /\ Cardinality(W) \in Nat /\ Sorted(W) \in [1..Cardinality(W) -> W]
      /\ \A i, j \in 1..Cardinality(W) : i < j => Sorted(W)[i] < Sorted(W)[j]
      /\ \A x \in W : \E k \in 1..Cardinality(W) : Sorted(W)[k] = x
  <2> HIDE DEF W, v
  <2>1. IsFiniteSet(W) /\ W \in SUBSET Int
    BY <1>1, <1>3, EnumeratedCells
  <2> QED
    BY <2>1, SortedIs
<1>5. Cardinality(W) # 0
  <2> HIDE DEF W, s
  <2>1. SUFFICES ASSUME Cardinality(W) = 0 PROVE s = <<>>
    BY <1>1
  <2> QED
    BY <1>2, <2>1
<1> DEFINE w1 == Sorted(W)[1]
<1>6. w1 \in W /\ s[1] = AllCells[v][w1] /\ 1 \in 1..Cardinality(W)
  <2> HIDE DEF s, W
  <2> QED
    BY <1>2, <1>4, <1>5
<1>7. w1 \in 1..Cells /\ \A d \in v : run[d].start <= D(w1, d) /\ D(w1, d) < run[d].stop
  BY <1>3, <1>6 DEF Inside, D
<1>8. \A d \in v : /\ run[d].start \in Nat /\ run[d].stop \in Nat /\ D(w1, d) \in Nat
                   /\ Shape[d] \in Nat /\ run[d].stop <= Shape[d]
  <2> HIDE DEF w1
  <2> QED
    BY <1>1, <1>7, RunFacts, CoordFacts
<1>9. c \in [v -> Nat] /\ \A d \in v : c[d] = run[d].start /\ c[d] < Shape[d] /\ c[d] < run[d].stop
  <2> HIDE DEF w1
  <2> QED
    BY <1>7, <1>8 DEF FirstCell
<1>10. PICK n \in 1..Cells : AllCells[v][n] = c
  BY <1>1, <1>3, <1>9, CellsOnto
<1>11. \A d \in v : D(n, d) = run[d].start
  <2>1. AllCells[v][n] = [d \in v |-> Digit(v, n, d)]
    BY <1>1, <1>3, CellIs
  <2> QED
    BY <1>9, <1>10, <2>1 DEF D
<1>12. n \in W
  <2>1. \A d \in v : run[d].start <= D(n, d) /\ D(n, d) < run[d].stop
    <3> HIDE DEF w1
    <3> QED
      BY <1>8, <1>9, <1>11
  <2> QED
    BY <1>3, <2>1 DEF Inside, D
<1>13. w1 <= n /\ w1 \in Int /\ n \in Int
  <2>1. PICK k \in 1..Cardinality(W) : Sorted(W)[k] = n
    BY <1>4, <1>12
  <2>2. w1 \in Int /\ n \in Int
    <3> HIDE DEF w1
    <3> QED
      BY <1>7, CoordFacts
  <2>3. k = 1 \/ 1 < k
    BY <1>4
  <2>4. 1 < k => w1 < n
    BY <1>4, <1>6, <2>1
  <2> HIDE DEF w1
  <2>5. k = 1 => w1 = n
    BY <2>1 DEF w1
  <2> QED
    BY <2>2, <2>3, <2>4, <2>5
<1>14. ~(w1 < n)
  <2>1. SUFFICES ASSUME w1 < n PROVE FALSE
    OBVIOUS
  <2> HIDE DEF w1
  <2>2. PICK p \in v : D(w1, p) < D(n, p)
    BY <1>1, <1>3, <1>7, <2>1, FirstDifference DEF D
  <2> QED
    BY <1>7, <1>8, <1>11, <2>2
<1>15. s[1] = c
  <2> HIDE DEF w1
  <2> QED
    BY <1>6, <1>10, <1>13, <1>14
<1> QED
  BY <1>10, <1>15
-----------------------------------------------------------------------------
(* What a filter finds *)

Data == [1..Cells -> Int]

Hits(data, x) == {n \in DOMAIN data : data[n] = x}

LEMMA HitsAre ==
    ASSUME NEW data \in Data, NEW x
    PROVE  /\ Hits(data, x) \in SUBSET (1..Cells) /\ Runs(MatchRuns(Hits(data, x)), Hits(data, x))
           /\ data # Unread
<1>1. Cells \in Nat \ {0} /\ DOMAIN data = 1..Cells
  BY CoordFacts DEF Data
<1>2. Hits(data, x) \in SUBSET (1..Cells)
  BY <1>1 DEF Hits
<1>3. data # Unread
  <2>1. 1 \in DOMAIN data /\ DOMAIN <<>> = {}
    BY <1>1
  <2> QED
    BY <2>1 DEF Unread
<1> QED
  BY <1>1, <1>2, <1>3, MatchRunsAre

LEMMA StoredData ==
    ASSUME NEW c \in Contents, NEW n \in Coordinates
    PROVE  c[n] \in Data
BY ContentsAssumption DEF Data, Cells

\* Also of a run that reaches the last sample.
LEMMA RunOfIs ==
    ASSUME NEW r, r[1] \in 1..Cells, r[2] \in 1..Cells
    PROVE  /\ IsRun(RunOf(AllCells[CoordDims], r))
           /\ \A d \in CoordDims :
                 /\ RunOf(AllCells[CoordDims], r)[d].start = D(r[1], d)
                 /\ RunOf(AllCells[CoordDims], r)[d].stop = D(r[2], d) + 1
<1> DEFINE v == CoordDims
           cells == AllCells[v]
           run == RunOf(cells, r)
<1>1. v \in Variables /\ v \subseteq Dims /\ Cells \in Nat \ {0}
      /\ \A d \in v : Shape[d] \in Nat \ {0} /\ d \in Nat
  BY CoordFacts, Sizes
<1>2. DOMAIN cells = 1..Cells /\ \A n \in 1..Cells : \A d \in v : cells[n][d] = D(n, d)
  <2>1. DOMAIN cells = 1..Cells /\ \A n \in 1..Cells : cells[n] = [d \in v |-> Digit(v, n, d)]
    BY <1>1, CellIs DEF Cells
  <2> HIDE DEF cells
  <2> QED
    BY <2>1 DEF D
<1>3. Len(cells) = Cells
  <2>1. cells = [n \in 1..Cells |-> [d \in v |-> Digit(v, n, d)]]
    BY <1>1, CellIs DEF AllCells, Cells
  <2> HIDE DEF cells, v
  <2> QED
    BY <1>1, <2>1
<1>4. \A d \in v : /\ D(r[1], d) \in Nat /\ D(r[1], d) < Shape[d]
                   /\ D(r[2], d) \in Nat /\ D(r[2], d) < Shape[d]
  BY CoordFacts
<1>5. ASSUME NEW d \in v, r[2] = Cells PROVE Shape[d] = D(r[2], d) + 1
  <2>1. Cells = 0 * Stride(v, 0) + Stride(v, 0) /\ 0 \in 0..NumDims /\ d > 0 /\ v \in SUBSET Dims
    BY <1>1, CellIs, Sizes DEF Cells
  <2>2. Digit(v, Cells, d) = Shape[d] - 1
    BY <1>1, <2>1, BlockEnd
  <2> QED
    BY <1>1, <1>5, <2>2 DEF D
<1>6. ASSUME NEW d \in v PROVE run[d] = Descriptor(d, D(r[1], d), D(r[2], d) + 1)
  <2>1. run[d] = Descriptor(d, cells[r[1]][d], IF r[2] = Len(cells) THEN Shape[d] ELSE cells[r[2]][d] + 1)
    BY DEF RunOf
  <2> HIDE DEF cells, run
  <2> QED
    BY <1>2, <1>3, <1>5, <2>1
<1>7. ASSUME NEW d \in v
      PROVE  /\ run[d] \in [label : Dims, start : Nat, stop : Nat] /\ run[d].label = d
             /\ run[d].start = D(r[1], d) /\ run[d].stop = D(r[2], d) + 1
             /\ run[d].start <= Shape[d] /\ run[d].stop <= Shape[d]
  <2> DEFINE a == D(r[1], d)
             b == D(r[2], d)
  <2>1. a \in Nat /\ b + 1 \in Nat /\ a <= Shape[d] /\ b + 1 <= Shape[d] /\ d \in Dims
    BY <1>1, <1>4
  <2>2. run[d] = [label |-> d, start |-> a, stop |-> b + 1]
    BY <1>6 DEF Descriptor
  <2> HIDE DEF a, b, run
  <2> QED
    BY <2>1, <2>2 DEF a, b
<1>8. run = [d \in v |-> run[d]]
  BY DEF RunOf
<1> HIDE DEF run
<1>9. IsRun(run)
  BY <1>7, <1>8 DEF IsRun
<1> QED
  BY <1>7, <1>9 DEF run

\* A cell of a variable with the coordinates' dimensions has a cell of theirs.
LEMMA Projected ==
    ASSUME NEW v \in Variables, CoordDims \subseteq v, NEW n \in 1..Stride(v, 0)
    PROVE  \E m \in 1..Cells : /\ AllCells[CoordDims][m] = Restrict(AllCells[v][n], CoordDims)
                               /\ \A d \in CoordDims : D(m, d) = Digit(v, n, d)
<1> DEFINE c == Restrict(AllCells[v][n], CoordDims)
<1>1. n \in Nat \ {0} /\ AllCells[v][n] = [d \in v |-> Digit(v, n, d)] /\ v \in SUBSET Dims
  <2>1. Stride(v, 0) \in Nat
    BY CellIs
  <2> QED
    BY <2>1, CellIs
<1>2. c = [d \in CoordDims |-> Digit(v, n, d)]
  BY <1>1 DEF Restrict
<1>3. \A d \in CoordDims : Digit(v, n, d) \in Nat /\ Digit(v, n, d) < Shape[d]
  BY <1>1, DigitIs
<1>4. c \in [CoordDims -> Nat] /\ \A d \in CoordDims : c[d] < Shape[d]
  BY <1>2, <1>3
<1>5. PICK m \in 1..Cells : AllCells[CoordDims][m] = c
  <2> HIDE DEF c
  <2> QED
    BY <1>4, CellsOnto, CoordFacts DEF Cells
<1>6. AllCells[CoordDims][m] = [d \in CoordDims |-> Digit(CoordDims, m, d)]
  BY CellIs, CoordFacts DEF Cells
<1>7. \A d \in CoordDims : D(m, d) = Digit(v, n, d)
  BY <1>2, <1>5, <1>6 DEF D
<1> QED
  BY <1>5, <1>7

\* Those of a run found by a filter: the cells in it, if what matched is a box.
LEMMA InsideRun ==
    ASSUME NEW M, NEW side, Boxed(M, side), NEW r, Maximal(r, M),
           NEW v \in Variables, CoordDims \subseteq v, NEW n \in 1..Stride(v, 0), NEW m \in 1..Cells,
           \A d \in CoordDims : D(m, d) = Digit(v, n, d)
    PROVE  n \in Inside(RunOf(AllCells[CoordDims], r), v) <=> r[1] <= m /\ m <= r[2]
<1> DEFINE run == RunOf(AllCells[CoordDims], r)
<1>1. r[1] \in 1..Cells /\ r[2] \in 1..Cells
  BY DEF Maximal, Boxed
<1>2. \A d \in CoordDims : run[d].start = D(r[1], d) /\ run[d].stop = D(r[2], d) + 1
  BY <1>1, RunOfIs
<1>3. \A d \in CoordDims : D(r[1], d) \in Nat /\ D(r[2], d) \in Nat /\ D(m, d) \in Nat
  BY <1>1, CoordFacts
<1> HIDE DEF run
<1>4. n \in Inside(run, v) <=>
        \A d \in CoordDims : run[d].start <= Digit(v, n, d) /\ Digit(v, n, d) < run[d].stop
  BY DEF Inside
<1>5. n \in Inside(run, v) <=> \A d \in CoordDims : D(r[1], d) <= D(m, d) /\ D(m, d) <= D(r[2], d)
  BY <1>2, <1>3, <1>4
<1> QED
  BY <1>5, RunIsBox DEF run

\* The slices of a run of such a box can be made.
LEMMA RunHasBox ==
    ASSUME NEW M, NEW side, Boxed(M, side), NEW r, Maximal(r, M)
    PROVE  Box(RunOf(AllCells[CoordDims], r)).ok
<1> DEFINE run == RunOf(AllCells[CoordDims], r)
<1>0. r[1] \in 1..Cells /\ r[2] \in 1..Cells /\ r[1] <= r[2]
  BY DEF Maximal, Boxed
<1>1. r[1] \in 1..Cells /\ r[2] \in 1..Cells /\ r[1] <= r[2] /\ r[2] <= r[2]
  <2>1. r[2] \in Nat \ {0}
    BY <1>0, CoordFacts
  <2> QED
    BY <1>0, <2>1
<1>2. \A d \in CoordDims : D(r[1], d) <= D(r[2], d) /\ D(r[1], d) \in Nat /\ D(r[2], d) \in Nat
  BY <1>1, RunIsBox, CoordFacts
<1>3. IsRun(run) /\ \A d \in CoordDims : run[d].start = D(r[1], d) /\ run[d].stop = D(r[2], d) + 1
  BY <1>1, RunOfIs
<1> HIDE DEF run
<1>4. \A d \in CoordDims : run[d].start <= run[d].stop
  BY <1>2, <1>3
<1>5. Box(run).ok
  BY <1>3, <1>4, BoxIs
<1> QED
  BY <1>5 DEF run

\* A permutation of the first n numbers.
Permutes(o, n) ==
    /\ o \in [1..n -> 1..n]
    /\ \A i, j \in 1..n : o[i] = o[j] => i = j
    /\ \A m \in 1..n : \E i \in 1..n : o[i] = m

\* The runs of what matched, in some order.
FoundIn(runs, data, x) ==
    LET R == MatchRuns(Hits(data, x)) IN
    \E o : Permutes(o, Len(R)) /\ runs = [k \in 1..Len(R) |-> RunOf(AllCells[CoordDims], R[o[k]])]

LEMMA SidesAre ==
    ASSUME NEW data \in Data, NEW x, IsHyperRectangle(CellsOf(CoordDims, Hits(data, x))),
           Hits(data, x) # {}
    PROVE  \E side : Boxed(Hits(data, x), side)
<1> DEFINE v == CoordDims
           M == Hits(data, x)
           S == CellsOf(v, M)
           side == [d \in v |-> {c[d] : c \in S}]
<1>1. M \subseteq 1..Cells /\ v \in Variables
  BY HitsAre, CoordFacts
<1>2. \A n \in 1..Cells : AllCells[v][n] = [d \in v |-> D(n, d)]
  BY <1>1, CellIs DEF D, Cells
<1>3. ASSUME NEW d \in v
      PROVE  /\ side[d] \subseteq Nat /\ side[d] # {} /\ Shape[d] \in Nat
             /\ \A a \in side[d] : a <= Shape[d]
  <2>1. ASSUME NEW a \in side[d] PROVE a \in Nat /\ a <= Shape[d]
    <3>1. PICK n \in M : a = AllCells[v][n][d]
      BY DEF CellsOf
    <3>2. a = D(n, d) /\ n \in 1..Cells
      BY <1>1, <1>2, <3>1
    <3>3. D(n, d) \in Nat /\ D(n, d) < Shape[d] /\ Shape[d] \in Nat
      BY <3>2, CoordFacts
    <3> QED
      BY <3>2, <3>3
  <2>2. side[d] # {}
    <3>1. PICK n \in M : n \in M
      OBVIOUS
    <3>2. AllCells[v][n][d] \in side[d]
      BY DEF CellsOf
    <3> QED
      BY <3>2
  <2>3. Shape[d] \in Nat
    BY CoordFacts
  <2> QED
    BY <2>1, <2>2, <2>3
<1>4. \A d \in v : side[d] = Min(side[d])..Max(side[d])
  BY DEF IsHyperRectangle
<1>5. S = {c \in ToSet(AllCells[v]) : \A d \in v : c[d] \in side[d]}
  BY DEF IsHyperRectangle
<1> HIDE DEF side
<1>6. ASSUME NEW d \in v
      PROVE  \A a, b \in side[d] : \A c \in Nat : a <= c /\ c <= b => c \in side[d]
  <2> DEFINE T == side[d]
             lo == Min(T)
             hi == Max(T)
  <2>1. T \subseteq Nat /\ T # {} /\ Shape[d] \in Int /\ \A a \in T : a <= Shape[d]
    BY <1>3
  <2> HIDE DEF T
  <2>2. lo \in T
    <3>1. \E a \in T : \A b \in T : a <= b
      BY <2>1, Least
    <3> QED
      BY <3>1 DEF Min
  <2>3. hi \in T
    <3>1. T \subseteq Int
      BY <2>1
    <3> QED
      BY <2>1, <3>1, MaxIs
  <2>5. T = lo..hi
    BY <1>4 DEF T
  <2> HIDE DEF lo, hi
  <2>4. lo \in Int /\ hi \in Int
    BY <2>1, <2>2, <2>3
  <2>6. ASSUME NEW a \in T, NEW b \in T, NEW c \in Nat, a <= c, c <= b PROVE c \in T
    <3>1. a \in Int /\ b \in Int /\ lo <= a /\ b <= hi
      BY <2>4, <2>5
    <3>2. lo <= c /\ c <= hi
      BY <2>4, <2>6, <3>1
    <3> QED
      BY <2>4, <2>5, <3>2
  <2> QED
    BY <2>6 DEF T
<1>7. ASSUME NEW n \in 1..Cells PROVE n \in M <=> \A d \in v : D(n, d) \in side[d]
  <2> DEFINE c == AllCells[v][n]
  <2>1. c \in ToSet(AllCells[v]) /\ \A d \in v : c[d] = D(n, d)
    <3>1. DOMAIN AllCells[v] = 1..Cells
      BY <1>1, CellIs DEF Cells
    <3> QED
      BY <1>2, <3>1 DEF ToSet
  <2>2. c \in S <=> n \in M
    <3>1. ASSUME c \in S PROVE n \in M
      <4>1. PICK m \in M : c = AllCells[v][m]
        BY <3>1 DEF CellsOf
      <4>2. m = n
        BY <1>1, <4>1, CellsDiffer DEF Cells
      <4> QED
        BY <4>2
    <3> QED
      BY <3>1 DEF CellsOf
  <2> HIDE DEF c, S
  <2> QED
    BY <1>5, <2>1, <2>2
<1>8. Boxed(M, side)
  BY <1>1, <1>3, <1>6, <1>7 DEF Boxed
<1> QED
  BY <1>8

\* The matches of a filter by the number of the cell, and as cells.
LEMMA HitCells ==
    ASSUME NEW data \in Data, NEW x
    PROVE  CellsOf(CoordDims, Hits(data, x)) =
             {c \in ToSet(AllCells[CoordDims]) : ValueAt(data, c) = x}
<1> DEFINE v == CoordDims
<1>1. DOMAIN AllCells[v] = 1..Cells /\ DOMAIN data = 1..Cells
  BY CoordFacts, CellIs DEF Cells, Data
<1>2. \A n \in 1..Cells : ValueAt(data, AllCells[v][n]) = data[n]
  BY ValueOf DEF Cells
<1>3. ToSet(AllCells[v]) = {AllCells[v][n] : n \in 1..Cells}
  BY <1>1 DEF ToSet
<1>4. Hits(data, x) = {n \in 1..Cells : data[n] = x}
  BY <1>1 DEF Hits
<1> QED
  BY <1>2, <1>3, <1>4 DEF CellsOf

\* Run after run, each cell over a matching one, once.
LEMMA FoundCells ==
    ASSUME NEW data \in Data, NEW x, NEW side, Boxed(Hits(data, x), side),
           NEW runs, FoundIn(runs, data, x), NEW v \in Variables, CoordDims \subseteq v
    PROVE  /\ Len(runs) \in Nat /\ DOMAIN runs = 1..Len(runs)
           /\ \A k \in 1..Len(runs) : Box(runs[k]).ok /\ IsRun(runs[k])
           /\ Enumerates(FlattenSeq([k \in DOMAIN runs |-> CellSeq(Box(runs[k]).view, v)]),
                         {c \in ToSet(AllCells[v]) :
                             Restrict(c, CoordDims) \in CellsOf(CoordDims, Hits(data, x))})
<1> DEFINE M == Hits(data, x)
           R == MatchRuns(M)
           N == Stride(v, 0)
           seqs == [k \in DOMAIN runs |-> CellSeq(Box(runs[k]).view, v)]
           wanted == {c \in ToSet(AllCells[v]) : Restrict(c, CoordDims) \in CellsOf(CoordDims, M)}
           all == ToSet(AllCells[v])
<1>1. M \in SUBSET (1..Cells) /\ Runs(R, M)
  BY HitsAre
<1>2. PICK o : /\ Permutes(o, Len(R))
               /\ runs = [k \in 1..Len(R) |-> RunOf(AllCells[CoordDims], R[o[k]])]
  BY DEF FoundIn
<1> HIDE DEF M, R
<1>3. /\ Len(R) \in Nat /\ R \in Seq(M \X M)
      /\ \A k \in 1..Len(R) : Maximal(R[k], M) /\ R[k][1] \in 1..Cells /\ R[k][2] \in 1..Cells
  <2>1. R \in Seq(M \X M) /\ \A k \in 1..Len(R) : Maximal(R[k], M)
    BY <1>1 DEF Runs
  <2>2. \A k \in 1..Len(R) : R[k][1] \in M /\ R[k][2] \in M
    BY <2>1 DEF Maximal
  <2>3. \A i \in M : i \in 1..Cells
    BY <1>1 DEF M
  <2>4. Len(R) \in Nat
    BY <2>1, LenProperties
  <2> QED
    BY <2>1, <2>2, <2>3, <2>4
<1>4. Len(runs) = Len(R) /\ DOMAIN runs = 1..Len(R)
  BY <1>2, <1>3
<1>5. ASSUME NEW k \in 1..Len(R)
      PROVE  /\ o[k] \in 1..Len(R) /\ runs[k] = RunOf(AllCells[CoordDims], R[o[k]])
             /\ Box(runs[k]).ok /\ IsRun(runs[k])
             /\ seqs[k] = InOrderOf(v, Inside(runs[k], v))
  <2>1. o[k] \in 1..Len(R) /\ runs[k] = RunOf(AllCells[CoordDims], R[o[k]])
    BY <1>2 DEF Permutes
  <2>2. Boxed(M, side)
    BY DEF M
  <2>3. Box(runs[k]).ok /\ IsRun(runs[k])
    BY <1>3, <2>1, <2>2, RunHasBox, RunOfIs
  <2>4. seqs[k] = CellSeq(Box(runs[k]).view, v)
    BY <1>4
  <2> QED
    BY <2>1, <2>3, <2>4, RunCells
<1> DEFINE W == [k \in 1..Len(R) |-> CellsOf(v, Inside(runs[k], v))]
<1>6. /\ DOMAIN AllCells[v] = 1..N /\ all = {AllCells[v][n] : n \in 1..N}
      /\ \A n, m \in 1..N : AllCells[v][n] = AllCells[v][m] => n = m
  <2>1. DOMAIN AllCells[v] = 1..N
    BY CellIs
  <2> QED
    BY <2>1, CellsDiffer DEF ToSet
<1>7. ASSUME NEW k \in 1..Len(R)
      PROVE  /\ Inside(runs[k], v) \in SUBSET (1..N)
             /\ W[k] = CellsOf(v, Inside(runs[k], v)) /\ W[k] \in SUBSET all
             /\ Enumerates(seqs[k], W[k]) /\ seqs[k] \in Seq(all)
  <2>1. Inside(runs[k], v) \in SUBSET (1..N)
    BY DEF Inside
  <2>2. Enumerates(InOrderOf(v, Inside(runs[k], v)), CellsOf(v, Inside(runs[k], v)))
    BY <2>1, EnumeratedCells
  <2>3. CellsOf(v, Inside(runs[k], v)) \in SUBSET all
    BY <1>6, <2>1 DEF CellsOf
  <2>4. W[k] = CellsOf(v, Inside(runs[k], v))
    OBVIOUS
  <2> HIDE DEF W, all, seqs
  <2>5. Enumerates(seqs[k], W[k]) /\ W[k] \in SUBSET all
    BY <1>5, <2>2, <2>3, <2>4
  <2>6. seqs[k] \in Seq(W[k])
    BY <2>5 DEF Enumerates
  <2>7. seqs[k] \in Seq(all)
    BY <2>5, <2>6
  <2> QED
    BY <2>1, <2>4, <2>5, <2>7
<1>8. ASSUME NEW k \in 1..Len(R), NEW n \in 1..N, NEW m \in 1..Cells,
             \A d \in CoordDims : D(m, d) = Digit(v, n, d)
      PROVE  n \in Inside(runs[k], v) <=> R[o[k]][1] <= m /\ m <= R[o[k]][2]
  <2> DEFINE t == R[o[k]]
  <2>1. Maximal(t, M) /\ Boxed(M, side) /\ runs[k] = RunOf(AllCells[CoordDims], t)
    BY <1>3, <1>5 DEF M
  <2> HIDE DEF t, N
  <2>2. n \in 1..Stride(v, 0)
    BY DEF N
  <2>3. n \in Inside(RunOf(AllCells[CoordDims], t), v) <=> t[1] <= m /\ m <= t[2]
    BY <1>8, <2>1, <2>2, InsideRun
  <2> QED
    BY <2>1, <2>3 DEF t
<1>9. ASSUME NEW k \in 1..Len(R), NEW l \in 1..Len(R), k < l PROVE W[k] \cap W[l] = {}
  <2>1. SUFFICES ASSUME NEW c \in W[k], c \in W[l] PROVE FALSE
    OBVIOUS
  <2>2. PICK n \in Inside(runs[k], v) : c = AllCells[v][n]
    BY <1>7 DEF CellsOf
  <2>3. n \in Inside(runs[l], v) /\ n \in 1..N
    <3>1. PICK n2 \in Inside(runs[l], v) : c = AllCells[v][n2]
      BY <1>7, <2>1 DEF CellsOf
    <3>2. n \in 1..N /\ n2 \in 1..N
      BY <1>7
    <3>3. n = n2
      BY <1>6, <2>2, <3>1, <3>2
    <3> QED
      BY <3>2, <3>3
  <2>4. PICK m \in 1..Cells : \A d \in CoordDims : D(m, d) = Digit(v, n, d)
    BY <2>3, Projected
  <2>5. /\ R[o[k]][1] <= m /\ m <= R[o[k]][2] /\ R[o[l]][1] <= m /\ m <= R[o[l]][2]
    BY <1>8, <2>2, <2>3, <2>4
  <2>6. o[k] # o[l] /\ o[k] \in 1..Len(R) /\ o[l] \in 1..Len(R)
    <3>1. k # l
      BY <1>3, <1>9
    <3> QED
      BY <1>2, <1>5, <3>1 DEF Permutes
  <2>7. \A a, b \in 1..Len(R) : a < b => R[a][2] < R[b][1]
    BY <1>1 DEF Runs
  <2>8. /\ m \in Nat \ {0} /\ R[o[k]][1] \in Nat \ {0} /\ R[o[k]][2] \in Nat \ {0}
        /\ R[o[l]][1] \in Nat \ {0} /\ R[o[l]][2] \in Nat \ {0}
    BY <1>3, <2>6, CoordFacts
  <2>9. CASE o[k] < o[l]
    <3>1. R[o[k]][2] < R[o[l]][1]
      BY <2>6, <2>7, <2>9
    <3> QED
      BY <2>5, <2>8, <3>1
  <2>10. CASE o[l] < o[k]
    <3>1. R[o[l]][2] < R[o[k]][1]
      BY <2>6, <2>7, <2>10
    <3> QED
      BY <2>5, <2>8, <3>1
  <2> QED
    BY <1>3, <2>6, <2>9, <2>10
<1>10. /\ \A c \in wanted : \E k \in 1..Len(R) : c \in W[k]
       /\ \A k \in 1..Len(R) : \A c \in W[k] : c \in wanted
  <2>1. ASSUME NEW n \in 1..N
        PROVE  AllCells[v][n] \in wanted <=> \E k \in 1..Len(R) : n \in Inside(runs[k], v)
    <3>1. PICK m \in 1..Cells : /\ AllCells[CoordDims][m] = Restrict(AllCells[v][n], CoordDims)
                                /\ \A d \in CoordDims : D(m, d) = Digit(v, n, d)
      BY Projected
    <3>2. AllCells[v][n] \in wanted <=> AllCells[CoordDims][m] \in CellsOf(CoordDims, M)
      BY <1>6, <3>1
    <3>3. AllCells[CoordDims][m] \in CellsOf(CoordDims, M) <=> m \in M
      <4>1. ASSUME NEW m2 \in M, AllCells[CoordDims][m] = AllCells[CoordDims][m2] PROVE m \in M
        <5>1. m2 \in 1..Cells
          BY <1>1 DEF M
        <5>2. m = m2
          BY <4>1, <5>1, CellsDiffer, CoordFacts DEF Cells
        <5> QED
          BY <5>2
      <4> QED
        BY <4>1 DEF CellsOf
    <3>4. m \in M <=> \E k \in 1..Len(R) : R[k][1] <= m /\ m <= R[k][2]
      <4>1. ASSUME NEW k \in 1..Len(R), R[k][1] <= m, m <= R[k][2] PROVE m \in M
        <5>1. \A i \in R[k][1]..R[k][2] : i \in M
          BY <1>3 DEF Maximal
        <5>2. m \in Int /\ R[k][1] \in Int /\ R[k][2] \in Int
          BY <1>3, CoordFacts
        <5> QED
          BY <4>1, <5>1, <5>2
      <4>2. \A i \in M : \E k \in 1..Len(R) : R[k][1] <= i /\ i <= R[k][2]
        BY <1>1 DEF Runs
      <4> QED
        BY <4>1, <4>2
    <3>5. (\E k \in 1..Len(R) : R[k][1] <= m /\ m <= R[k][2])
            <=> \E k \in 1..Len(R) : R[o[k]][1] <= m /\ m <= R[o[k]][2]
      BY <1>2 DEF Permutes
    <3>6. \A k \in 1..Len(R) : n \in Inside(runs[k], v) <=> R[o[k]][1] <= m /\ m <= R[o[k]][2]
      BY <1>8, <3>1
    <3> QED
      BY <3>2, <3>3, <3>4, <3>5, <3>6
  <2>2. ASSUME NEW c \in wanted PROVE \E k \in 1..Len(R) : c \in W[k]
    <3>1. PICK n \in 1..N : c = AllCells[v][n]
      BY <1>6
    <3>2. PICK k \in 1..Len(R) : n \in Inside(runs[k], v)
      BY <2>1, <2>2, <3>1
    <3> QED
      BY <1>7, <3>1, <3>2 DEF CellsOf
  <2>3. ASSUME NEW k \in 1..Len(R), NEW c \in W[k] PROVE c \in wanted
    <3>1. PICK n \in Inside(runs[k], v) : c = AllCells[v][n]
      BY <1>7, <2>3 DEF CellsOf
    <3>2. n \in 1..N
      BY <1>7
    <3> HIDE DEF wanted
    <3> QED
      BY <2>1, <3>1, <3>2
  <2> HIDE DEF W, wanted
  <2> QED
    BY <2>2, <2>3
<1>11. Enumerates(FlattenSeq(seqs), wanted)
  <2>1. seqs \in Seq(Seq(all)) /\ Len(seqs) = Len(R)
    <3>1. seqs \in [1..Len(R) -> Seq(all)]
      <4>1. seqs = [k \in 1..Len(R) |-> seqs[k]]
        BY <1>4
      <4> HIDE DEF seqs, all
      <4> QED
        BY <1>7, <4>1
    <3> DEFINE n == Len(R)
    <3>2. n \in Nat /\ seqs \in [1..n -> Seq(all)]
      BY <1>3, <3>1
    <3> HIDE DEF seqs, all, n
    <3>3. seqs \in Seq(Seq(all)) /\ Len(seqs) = n
      BY <3>2
    <3> QED
      BY <3>3 DEF n
  <2>2. W \in [1..Len(seqs) -> SUBSET all]
    <3>1. W = [k \in 1..Len(R) |-> W[k]]
      OBVIOUS
    <3> HIDE DEF W, all
    <3> QED
      BY <1>7, <2>1, <3>1
  <2> HIDE DEF seqs, W, all, wanted
  <2>3. \A k \in 1..Len(seqs) : Enumerates(seqs[k], W[k])
    BY <1>7, <2>1
  <2>4. \A k, l \in 1..Len(seqs) : k < l => W[k] \cap W[l] = {}
    BY <1>9, <2>1
  <2>5. /\ \A k \in 1..Len(seqs) : \A c \in W[k] : c \in wanted
        /\ \A c \in wanted : \E k \in 1..Len(seqs) : c \in W[k]
    BY <1>10, <2>1
  <2> QED
    BY <2>1, <2>2, <2>3, <2>4, <2>5, FlattenEnumerates
<1>12. \A k \in 1..Len(runs) : Box(runs[k]).ok /\ IsRun(runs[k])
  BY <1>4, <1>5
<1> QED
  BY <1>3, <1>4, <1>11, <1>12 DEF M

-----------------------------------------------------------------------------
(* What is read *)

Known == {run \in [CoordDims -> [label : Dims, start : Nat, stop : Nat]] : IsRun(run)} \cup {<<>>}

Taken(runs, v) == IF Cardinality(v) = 1 /\ runs # <<>> THEN <<runs[1]>> ELSE runs

ReadOf(runs, v) ==
    LET ok == \A k \in DOMAIN Taken(runs, v) : Box(Taken(runs, v)[k]).ok IN
    [ok    |-> ok, var |-> v,
     cells |-> IF ok
               THEN FlattenSeq([k \in DOMAIN Taken(runs, v) |->
                                   CellSeq(Box(Taken(runs, v)[k]).view, v)])
               ELSE <<>>]

LEMMA ReadIs ==
    ASSUME NEW runs, NEW v
    PROVE  /\ ReadOf(runs, v).ok \in BOOLEAN /\ ReadOf(runs, v).var = v
           /\ ReadOf(runs, v).ok <=> \A k \in DOMAIN Taken(runs, v) : Box(Taken(runs, v)[k]).ok
           /\ ReadOf(runs, v).ok =>
                 ReadOf(runs, v).cells = FlattenSeq([k \in DOMAIN Taken(runs, v) |->
                                             CellSeq(Box(Taken(runs, v)[k]).view, v)])
           /\ ~ReadOf(runs, v).ok => ReadOf(runs, v).cells = <<>>
<1> DEFINE ok == \A k \in DOMAIN Taken(runs, v) : Box(Taken(runs, v)[k]).ok
           cells == FlattenSeq([k \in DOMAIN Taken(runs, v) |->
                                   CellSeq(Box(Taken(runs, v)[k]).view, v)])
<1>1. ok \in BOOLEAN
  OBVIOUS
<1>2. ReadOf(runs, v) = [ok |-> ok, var |-> v, cells |-> IF ok THEN cells ELSE <<>>]
  BY DEF ReadOf
<1> HIDE DEF ok, cells
<1>3. /\ ReadOf(runs, v).ok = ok /\ ReadOf(runs, v).var = v
      /\ ReadOf(runs, v).cells = IF ok THEN cells ELSE <<>>
  BY <1>2
<1>4. CASE ok
  <2>1. ReadOf(runs, v).ok = TRUE
    BY <1>1, <1>3, <1>4
  <2> QED
    BY <1>3, <1>4, <2>1 DEF ok, cells
<1>5. CASE ~ok
  <2>1. ReadOf(runs, v).ok = FALSE
    BY <1>1, <1>3, <1>5
  <2> QED
    BY <1>3, <1>5, <2>1 DEF ok
<1> QED
  BY <1>4, <1>5

LEMMA HasBox ==
    ASSUME NEW run \in Known, Box(run).ok
    PROVE  IsRun(run)
BY BoxNone DEF Known

LEMMA ReadType ==
    ASSUME NEW runs \in Seq(Known), NEW v \in Variables, NEW i \in DOMAIN ReadOf(runs, v).cells
    PROVE  ReadOf(runs, v).cells[i] \in ToSet(AllCells[v])
<1> DEFINE ks == Taken(runs, v)
           all == ToSet(AllCells[v])
           seqs == [k \in DOMAIN ks |-> CellSeq(Box(ks[k]).view, v)]
<1>1. ReadOf(runs, v).ok
  <2>1. DOMAIN <<>> = {}
    OBVIOUS
  <2> QED
    BY <2>1, ReadIs
<1>2. (\A k \in DOMAIN ks : Box(ks[k]).ok) /\ ReadOf(runs, v).cells = FlattenSeq(seqs)
  BY <1>1, ReadIs
<1>3. ks \in Seq(Known)
  <2>1. runs # <<>> => runs[1] \in Known
    OBVIOUS
  <2>2. CASE Cardinality(v) = 1 /\ runs # <<>>
    BY <2>1, <2>2 DEF Taken
  <2>3. CASE ~(Cardinality(v) = 1 /\ runs # <<>>)
    BY <2>3 DEF Taken
  <2> QED
    BY <2>2, <2>3
<1> HIDE DEF ks
<1>4. ASSUME NEW k \in DOMAIN ks PROVE seqs[k] \in Seq(all)
  <2>1. Box(ks[k]).ok /\ ks[k] \in Known
    BY <1>2, <1>3, <1>4
  <2>2. IsRun(ks[k])
    BY <2>1, HasBox
  <2> DEFINE W == Inside(ks[k], v)
  <2>3. seqs[k] = InOrderOf(v, W)
    BY <2>1, <2>2, RunCells
  <2>4. W \in SUBSET (1..Stride(v, 0))
    BY DEF Inside
  <2> HIDE DEF W, seqs
  <2>5. Enumerates(InOrderOf(v, W), CellsOf(v, W))
    BY <2>4, EnumeratedCells
  <2>6. CellsOf(v, W) \in SUBSET all
    <3>1. DOMAIN AllCells[v] = 1..Stride(v, 0)
      BY CellIs
    <3> QED
      BY <2>4, <3>1 DEF CellsOf, ToSet
  <2>7. seqs[k] \in Seq(CellsOf(v, W))
    BY <2>3, <2>5 DEF Enumerates
  <2> HIDE DEF all
  <2> QED
    BY <2>6, <2>7
<1>5. seqs \in Seq(Seq(all))
  <2> DEFINE n == Len(ks)
  <2>1. n \in Nat /\ DOMAIN ks = 1..n
    BY <1>3
  <2>2. seqs = [k \in 1..n |-> seqs[k]]
    BY <2>1
  <2> HIDE DEF seqs, all, n
  <2>3. seqs \in [1..n -> Seq(all)]
    BY <1>4, <2>1, <2>2
  <2> QED
    BY <2>1, <2>3
<1> HIDE DEF seqs, all
<1>6. FlattenSeq(seqs) \in Seq(all)
  <2>1. PICK p \in [0..Len(seqs) -> Seq(all)] : FlattenSeq(seqs) = p[Len(seqs)]
    BY <1>5, FlattenParts
  <2>2. Len(seqs) \in Nat
    BY <1>5, LenProperties
  <2> QED
    BY <2>1, <2>2
<1>7. FlattenSeq(seqs)[i] \in all
  <2>1. i \in DOMAIN FlattenSeq(seqs)
    BY <1>2
  <2> QED
    BY <1>6, <2>1
<1> QED
  BY <1>2, <1>7 DEF all

\* A run without descriptors cannot be read.
LEMMA ReadNone ==
    ASSUME NEW runs \in Seq({<<>>}), runs # <<>>, NEW v
    PROVE  ~ReadOf(runs, v).ok
<1>1. Len(runs) \in Nat /\ DOMAIN runs = 1..Len(runs) /\ 1 \in DOMAIN runs /\ runs[1] = <<>>
  OBVIOUS
<1>2. 1 \in DOMAIN Taken(runs, v) /\ Taken(runs, v)[1] = <<>>
  BY <1>1 DEF Taken
<1>3. ~Box(<<>>).ok
  BY BoxNone
<1> QED
  BY <1>2, <1>3, ReadIs

\* In one dimension what matches is one run.
LEMMA OneRun ==
    ASSUME NEW data \in Data, NEW x, NEW side, Boxed(Hits(data, x), side),
           Cardinality(CoordDims) = 1
    PROVE  Len(MatchRuns(Hits(data, x))) <= 1
<1> DEFINE M == Hits(data, x)
           R == MatchRuns(M)
<1>1. Runs(R, M) /\ M \in SUBSET (1..Cells) /\ Boxed(M, side)
  BY HitsAre
<1> HIDE DEF M, R
<1>2. Len(R) \in Nat /\ R \in Seq(M \X M)
  BY <1>1 DEF Runs
<1>3. SUFFICES ASSUME Len(R) >= 2 PROVE FALSE
  <2>1. ~(Len(R) >= 2) => Len(R) <= 1
    BY <1>2
  <2> QED
    BY <1>3, <2>1 DEF M, R
<1> DEFINE a == R[1][2]
           b == a + 1
           c == R[2][1]
<1>4. a \in M /\ b \notin M /\ c \in M /\ a < c
  <2>1. 1 \in 1..Len(R) /\ 2 \in 1..Len(R) /\ 1 < 2
    BY <1>2, <1>3
  <2>2. Maximal(R[1], M) /\ Maximal(R[2], M) /\ R[1][2] < R[2][1]
    BY <1>1, <2>1 DEF Runs
  <2> QED
    BY <2>2 DEF Maximal
<1> HIDE DEF a, c
<1>5. a \in 1..Cells /\ b \in 1..Cells /\ c \in 1..Cells /\ a < b /\ b < c
  <2>1. Cells \in Nat /\ a \in 1..Cells /\ c \in 1..Cells
    BY <1>1, <1>4, CoordFacts
  <2>2. a \in Int /\ c \in Int /\ b # c
    BY <1>4, <2>1
  <2> QED
    BY <1>4, <2>1, <2>2
<1> HIDE DEF b
<1>6. PICK e : CoordDims = {e}
  <2>1. IsFiniteSet(CoordDims)
    BY DimsFinite, Sizes
  <2> QED
    BY <2>1, FS_Singleton
<1>7. D(a, e) < D(b, e) /\ D(b, e) < D(c, e)
  <2>1. \A i, j \in 1..Cells : i < j => \E d \in CoordDims : D(i, d) < D(j, d)
    BY FirstDifference, CoordFacts DEF D, Cells
  <2> QED
    BY <1>5, <1>6, <2>1
<1>8. e \in CoordDims /\ D(a, e) \in Nat /\ D(b, e) \in Nat /\ D(c, e) \in Nat
  <2>1. e \in CoordDims
    BY <1>6
  <2> QED
    BY <1>5, <2>1, CoordFacts
<1>9. D(b, e) \in side[e]
  <2>1. D(a, e) \in side[e] /\ D(c, e) \in side[e]
    BY <1>1, <1>4, <1>5, <1>8 DEF Boxed
  <2>2. D(a, e) <= D(b, e) /\ D(b, e) <= D(c, e)
    BY <1>7, <1>8
  <2> QED
    BY <1>1, <1>8, <2>1, <2>2 DEF Boxed
<1>10. b \in M
  <2>1. \A d \in CoordDims : D(b, d) \in side[d]
    BY <1>6, <1>9
  <2> QED
    BY <1>1, <1>5, <2>1 DEF Boxed
<1> QED
  BY <1>4, <1>10

\* Each sample over a matching cell is read, and each once.
LEMMA ReadFound ==
    ASSUME NEW data \in Data, NEW x, NEW side, Boxed(Hits(data, x), side),
           NEW runs, FoundIn(runs, data, x), NEW v \in Variables, CoordDims \subseteq v
    PROVE  Enumerates(ReadOf(runs, v).cells,
                      {c \in ToSet(AllCells[v]) :
                          Restrict(c, CoordDims) \in CellsOf(CoordDims, Hits(data, x))})
<1>1. Len(runs) \in Nat /\ DOMAIN runs = 1..Len(runs)
      /\ \A k \in 1..Len(runs) : Box(runs[k]).ok
  BY FoundCells
<1>2. Taken(runs, v) = runs
  <2>1. CASE Cardinality(v) = 1 /\ runs # <<>>
    <3>1. CoordDims = v
      <4>1. IsFiniteSet(v) /\ CoordDims \subseteq v /\ CoordDims # {}
        BY DimsFinite, Sizes
      <4>2. PICK e : v = {e}
        BY <2>1, <4>1, FS_Singleton
      <4> QED
        BY <4>1, <4>2
    <3> DEFINE n == Len(MatchRuns(Hits(data, x)))
    <3>2. n <= 1
      BY <2>1, <3>1, OneRun
    <3>3. PICK o : runs = [k \in 1..n |-> RunOf(AllCells[CoordDims], MatchRuns(Hits(data, x))[o[k]])]
      BY DEF FoundIn
    <3>4. n \in Nat
      <4>1. Runs(MatchRuns(Hits(data, x)), Hits(data, x))
        BY HitsAre
      <4> QED
        BY <4>1 DEF Runs
    <3> HIDE DEF n
    <3>5. n = 0 \/ n = 1
      BY <3>2, <3>4
    <3>6. n = 0 => runs = <<>>
      BY <3>3
    <3>7. n = 1
      BY <2>1, <3>5, <3>6
    <3>8. runs = <<runs[1]>>
      BY <3>3, <3>7
    <3> QED
      BY <2>1, <3>8 DEF Taken
  <2>2. CASE ~(Cardinality(v) = 1 /\ runs # <<>>)
    BY <2>2 DEF Taken
  <2> QED
    BY <2>1, <2>2
<1>3. ReadOf(runs, v).cells = FlattenSeq([k \in DOMAIN runs |-> CellSeq(Box(runs[k]).view, v)])
  <2>1. \A k \in DOMAIN runs : Box(runs[k]).ok
    BY <1>1
  <2>2. ReadOf(runs, v).ok
    <3>1. \A k \in DOMAIN Taken(runs, v) : Box(Taken(runs, v)[k]).ok
      BY <1>2, <2>1
    <3> QED
      BY <3>1, ReadIs
  <2> QED
    BY <1>2, <2>2, ReadIs
<1> QED
  BY <1>3, FoundCells

\* Of a dimension that is none of the coordinates': all of it, once.
LEMMA ReadApart ==
    ASSUME NEW runs \in Seq(Known), runs # <<>>, NEW v \in Variables, Cardinality(v) = 1,
           v \cap CoordDims = {}, ReadOf(runs, v).ok
    PROVE  Enumerates(ReadOf(runs, v).cells, ToSet(AllCells[v]))
<1> DEFINE run == runs[1]
           N == Stride(v, 0)
           s == InOrderOf(v, 1..N)
           all == ToSet(AllCells[v])
<1>1. run \in Known
  OBVIOUS
<1>2. Taken(runs, v) = <<run>>
  BY DEF Taken
<1> HIDE DEF run
<1>3. Box(run).ok
  <2>1. 1 \in DOMAIN <<run>> /\ <<run>>[1] = run
    OBVIOUS
  <2>2. \A k \in DOMAIN <<run>> : Box(<<run>>[k]).ok
    BY <1>2, ReadIs
  <2> QED
    BY <2>1, <2>2
<1>4. IsRun(run)
  BY <1>1, <1>3, HasBox
<1>5. Inside(run, v) = 1..N
  <2>1. \A d \in v : d \notin CoordDims
    OBVIOUS
  <2> QED
    BY <2>1 DEF Inside
<1>6. CellSeq(Box(run).view, v) = s
  BY <1>3, <1>4, <1>5, RunCells
<1>7. Enumerates(s, CellsOf(v, 1..N))
  BY EnumeratedCells
<1>8. CellsOf(v, 1..N) = all
  BY CellIs DEF CellsOf, ToSet
<1>9. ReadOf(runs, v).cells = FlattenSeq(<<s>>)
  <2>1. [k \in DOMAIN <<run>> |-> CellSeq(Box(<<run>>[k]).view, v)] = <<CellSeq(Box(run).view, v)>>
    OBVIOUS
  <2>2. ReadOf(runs, v).cells = FlattenSeq([k \in DOMAIN <<run>> |-> CellSeq(Box(<<run>>[k]).view, v)])
    BY <1>2, ReadIs
  <2> HIDE DEF s
  <2> QED
    BY <1>6, <2>1, <2>2
<1> HIDE DEF s, all
<1>10. s \in Seq(all)
  BY <1>7, <1>8 DEF Enumerates
<1>11. FlattenSeq(<<s>>) = s
  BY <1>10, FlattenOne
<1> QED
  BY <1>7, <1>8, <1>9, <1>11 DEF all

LEMMA EnumeratedSet ==
    ASSUME NEW s, NEW W, Enumerates(s, W)
    PROVE  ToSet(s) = W /\ Len(s) = Cardinality(W)
<1>1. s \in Seq(W) /\ DOMAIN s = 1..Len(s) /\ \A i \in DOMAIN s : s[i] \in W
  BY DEF Enumerates
<1> QED
  BY <1>1 DEF Enumerates, ToSet

-----------------------------------------------------------------------------
(* The order of the runs *)

\* KeyBefore, of what is stored and the coordinates the runs were sorted by.
Ordered(st, by, a, b) ==
    LET k(n, run) == ValueAt(st[by[n]], FirstCell(run))
        Same(n) == \A m \in n..Len(by) : k(m, a) = k(m, b)
        Stored == \E d \in CoordDims : /\ a[d].start < b[d].start
                                       /\ \A e \in 1..(d - 1) : a[e].start = b[e].start
    IN  \/ \E n \in DOMAIN by : k(n, a) < k(n, b) /\ Same(n + 1)
        \/ Same(1) /\ Stored

\* As they are found.
LEMMA FoundInOrder ==
    ASSUME NEW data \in Data, NEW x, NEW i \in 1..Len(MatchRuns(Hits(data, x))),
           NEW j \in 1..Len(MatchRuns(Hits(data, x))), i < j, NEW st
    PROVE  Ordered(st, <<>>, RunOf(AllCells[CoordDims], MatchRuns(Hits(data, x))[i]),
                             RunOf(AllCells[CoordDims], MatchRuns(Hits(data, x))[j]))
<1> DEFINE M == Hits(data, x)
           R == MatchRuns(M)
           a == RunOf(AllCells[CoordDims], R[i])
           b == RunOf(AllCells[CoordDims], R[j])
<1>1. Runs(R, M) /\ M \in SUBSET (1..Cells) /\ i \in 1..Len(R) /\ j \in 1..Len(R)
  BY HitsAre
<1> HIDE DEF M, R
<1>2. /\ R[i][1] \in 1..Cells /\ R[i][2] \in 1..Cells /\ R[j][1] \in 1..Cells /\ R[j][2] \in 1..Cells
      /\ R[i][1] <= R[i][2] /\ R[i][2] < R[j][1]
  <2>1. Maximal(R[i], M) /\ Maximal(R[j], M)
    BY <1>1 DEF Runs
  <2>2. R[i][2] < R[j][1]
    BY <1>1 DEF Runs
  <2>3. R[i][1] \in M /\ R[i][2] \in M /\ R[j][1] \in M /\ R[j][2] \in M /\ R[i][1] <= R[i][2]
    BY <2>1 DEF Maximal
  <2> QED
    BY <1>1, <2>2, <2>3
<1> DEFINE f == R[i][1]
           g == R[j][1]
<1>3. f \in 1..Cells /\ g \in 1..Cells /\ f < g
  <2>1. R[i][1] \in Nat \ {0} /\ R[i][2] \in Nat \ {0} /\ R[j][1] \in Nat \ {0}
    BY <1>2, CoordFacts
  <2> QED
    BY <1>2, <2>1
<1>4. \A d \in CoordDims : a[d].start = D(f, d) /\ b[d].start = D(g, d)
  BY <1>2, RunOfIs
<1> HIDE DEF a, b, f, g
<1>5. PICK d \in CoordDims : /\ D(f, d) < D(g, d)
                             /\ \A e \in CoordDims : e < d => D(f, e) = D(g, e)
  BY <1>3, FirstDifference, CoordFacts DEF D, Cells
<1>6. \A e \in 1..(d - 1) : e \in CoordDims /\ e < d
  <2>1. CoordDims = 1..Rank /\ Rank \in Nat
    BY Sizes
  <2> QED
    BY <2>1
<1>7. a[d].start < b[d].start /\ \A e \in 1..(d - 1) : a[e].start = b[e].start
  BY <1>4, <1>5, <1>6
<1>8. Len(<<>>) = 0 /\ 1..0 = {}
  OBVIOUS
<1>9. Ordered(st, <<>>, a, b)
  <2>1. \A m \in 1..Len(<<>>) : ValueAt(st[<<>>[m]], FirstCell(a)) = ValueAt(st[<<>>[m]], FirstCell(b))
    BY <1>8
  <2> QED
    BY <1>7, <2>1 DEF Ordered
<1> QED
  BY <1>9 DEF a, b, R, M

\* As one sort leaves them.
LEMMA OrderedFurther ==
    ASSUME NEW st, NEW by \in Seq(Coordinates), NEW c \in Coordinates, NEW a, NEW b,
           \/ ValueAt(st[c], FirstCell(a)) < ValueAt(st[c], FirstCell(b))
           \/ /\ ValueAt(st[c], FirstCell(a)) = ValueAt(st[c], FirstCell(b))
              /\ Ordered(st, by, a, b)
    PROVE  Ordered(st, Append(by, c), a, b)
<1> DEFINE L == Len(by)
           new == Append(by, c)
           k(s, n, run) == ValueAt(st[s[n]], FirstCell(run))
           Same(s, n) == \A m \in n..Len(s) : k(s, m, a) = k(s, m, b)
           Stored == \E d \in CoordDims : /\ a[d].start < b[d].start
                                          /\ \A e \in 1..(d - 1) : a[e].start = b[e].start
<1>1. /\ L \in Nat /\ Len(new) = L + 1 /\ DOMAIN new = 1..(L + 1) /\ DOMAIN by = 1..L
      /\ new[L + 1] = c /\ \A n \in 1..L : new[n] = by[n]
  OBVIOUS
<1>2. \A s : Ordered(st, s, a, b) <=>
               \/ \E n \in DOMAIN s : k(s, n, a) < k(s, n, b) /\ Same(s, n + 1)
               \/ Same(s, 1) /\ Stored
  BY DEF Ordered
<1>3. CASE ValueAt(st[c], FirstCell(a)) < ValueAt(st[c], FirstCell(b))
  <2>1. k(new, L + 1, a) < k(new, L + 1, b)
    BY <1>1, <1>3
  <2>2. (L + 1) + 1..Len(new) = {}
    BY <1>1
  <2>3. Same(new, (L + 1) + 1)
    BY <2>2
  <2> HIDE DEF k, Same, new, Stored
  <2>4. L + 1 \in DOMAIN new
    BY <1>1
  <2> QED
    BY <1>2, <2>1, <2>3, <2>4 DEF new
<1>4. CASE ValueAt(st[c], FirstCell(a)) = ValueAt(st[c], FirstCell(b)) /\ Ordered(st, by, a, b)
  <2>1. ASSUME NEW n \in 1..(L + 1), Same(by, n) PROVE Same(new, n)
    <3>1. SUFFICES ASSUME NEW m \in n..(L + 1) PROVE k(new, m, a) = k(new, m, b)
      BY <1>1
    <3>2. CASE m = L + 1
      BY <1>1, <1>4, <3>2
    <3>3. CASE m # L + 1
      <4>1. m \in n..Len(by) /\ m \in 1..L
        BY <1>1, <3>3
      <4>2. k(by, m, a) = k(by, m, b)
        BY <2>1, <4>1
      <4> QED
        BY <1>1, <4>1, <4>2
    <3> QED
      BY <3>2, <3>3
  <2>2. CASE \E n \in DOMAIN by : k(by, n, a) < k(by, n, b) /\ Same(by, n + 1)
    <3>1. PICK n \in 1..L : k(by, n, a) < k(by, n, b) /\ Same(by, n + 1)
      BY <1>1, <2>2
    <3>2. k(new, n, a) < k(new, n, b)
      BY <1>1, <3>1
    <3>3. n + 1 \in 1..(L + 1) /\ n \in DOMAIN new
      BY <1>1
    <3> HIDE DEF k, Same, new, Stored
    <3>4. Same(new, n + 1)
      BY <2>1, <3>1, <3>3
    <3> QED
      BY <1>2, <3>2, <3>3, <3>4 DEF new
  <2>3. CASE Same(by, 1) /\ Stored
    <3>1. 1 \in 1..(L + 1)
      BY <1>1
    <3> HIDE DEF k, Same, new, Stored
    <3>2. Same(new, 1)
      BY <2>1, <2>3, <3>1
    <3> QED
      BY <1>2, <2>3, <3>2 DEF new
  <2> HIDE DEF k, Same, new, Stored
  <2> QED
    BY <1>2, <1>4, <2>2, <2>3
<1> QED
  BY <1>3, <1>4

\* What the sort compares.
Keys(data, runs) == [k \in DOMAIN runs |-> ValueAt(data, CellSeq(Box(runs[k]).view, CoordDims)[1])]

LEMMA KeysAre ==
    ASSUME NEW data \in Data, NEW runs \in Seq(Known), \A k \in DOMAIN runs : HasCells(runs[k])
    PROVE  /\ Keys(data, runs) \in [1..Len(runs) -> Int]
           /\ \A k \in 1..Len(runs) : Keys(data, runs)[k] = ValueAt(data, FirstCell(runs[k]))
<1>1. Len(runs) \in Nat /\ DOMAIN runs = 1..Len(runs) /\ \A k \in 1..Len(runs) : runs[k] \in Known
  OBVIOUS
<1>2. ASSUME NEW k \in 1..Len(runs)
      PROVE  /\ Keys(data, runs)[k] = ValueAt(data, FirstCell(runs[k]))
             /\ Keys(data, runs)[k] \in Int
  <2>1. runs[k] \in Known /\ HasCells(runs[k]) /\ IsRun(runs[k])
    BY <1>1, HasBox DEF HasCells
  <2>2. CellSeq(Box(runs[k]).view, CoordDims)[1] = FirstCell(runs[k])
    BY <2>1, RunFirst
  <2>3. PICK n \in 1..Cells : AllCells[CoordDims][n] = FirstCell(runs[k])
    BY <2>1, RunFirst
  <2>4. ValueAt(data, FirstCell(runs[k])) = data[n]
    <3>1. ValueAt(data, AllCells[CoordDims][n]) = data[n]
      BY ValueOf DEF Cells
    <3> QED
      BY <2>3, <3>1
  <2>5. data[n] \in Int
    BY DEF Data
  <2>6. Keys(data, runs)[k] = ValueAt(data, FirstCell(runs[k]))
    BY <1>1, <2>2 DEF Keys
  <2> QED
    BY <2>4, <2>5, <2>6
<1>3. Keys(data, runs) = [k \in 1..Len(runs) |-> Keys(data, runs)[k]]
  BY <1>1 DEF Keys
<1> QED
  BY <1>2, <1>3

SortedRuns(data, runs) ==
    [k \in DOMAIN StableSort(Keys(data, runs)) |-> runs[StableSort(Keys(data, runs))[k]]]

\* The same runs, in another order.
Reorders(new, runs) ==
    \E o : Permutes(o, Len(runs)) /\ new = [k \in 1..Len(runs) |-> runs[o[k]]]

\* A sort permutes the runs, and puts its key before those of earlier sorts.
LEMMA SortedRunsAre ==
    ASSUME NEW st, NEW c \in Coordinates, st[c] \in Data, NEW runs \in Seq(Known),
           \A k \in DOMAIN runs : HasCells(runs[k])
    PROVE  /\ Reorders(SortedRuns(st[c], runs), runs)
           /\ \A by \in Seq(Coordinates) :
                 (\A i, j \in DOMAIN runs : i < j => Ordered(st, by, runs[i], runs[j]))
                 => \A i, j \in DOMAIN SortedRuns(st[c], runs) : i < j =>
                       Ordered(st, Append(by, c), SortedRuns(st[c], runs)[i], SortedRuns(st[c], runs)[j])
<1> DEFINE m == Len(runs)
           key == Keys(st[c], runs)
           o == StableSort(key)
           new == SortedRuns(st[c], runs)
<1>1. m \in Nat /\ DOMAIN runs = 1..m
  OBVIOUS
<1>2. key \in [1..m -> Int] /\ \A k \in 1..m : key[k] = ValueAt(st[c], FirstCell(runs[k]))
  BY KeysAre
<1> HIDE DEF key, m
<1>3. /\ o \in [1..m -> 1..m]
      /\ \A i, j \in 1..m : i < j => key[o[i]] < key[o[j]] \/ (key[o[i]] = key[o[j]] /\ o[i] < o[j])
      /\ \A x \in 1..m : \E k \in 1..m : o[k] = x
      /\ \A i, j \in 1..m : o[i] = o[j] => i = j
  BY <1>1, <1>2, StableSortIs
<1> HIDE DEF o
<1>4. Permutes(o, m)
  BY <1>3 DEF Permutes
<1>5. new = [k \in 1..m |-> runs[o[k]]]
  <2>1. DOMAIN o = 1..m
    BY <1>3
  <2> QED
    BY <2>1 DEF SortedRuns, o, key
<1> HIDE DEF new
<1>6. ASSUME NEW by \in Seq(Coordinates),
             \A i, j \in DOMAIN runs : i < j => Ordered(st, by, runs[i], runs[j]),
             NEW i \in DOMAIN new, NEW j \in DOMAIN new, i < j
      PROVE  Ordered(st, Append(by, c), new[i], new[j])
  <2> DEFINE a == runs[o[i]]
             b == runs[o[j]]
  <2>1. i \in 1..m /\ j \in 1..m /\ new[i] = a /\ new[j] = b /\ o[i] \in 1..m /\ o[j] \in 1..m
    BY <1>3, <1>5, <1>6
  <2>2. \/ key[o[i]] < key[o[j]]
        \/ key[o[i]] = key[o[j]] /\ o[i] < o[j]
    BY <1>3, <1>6, <2>1
  <2>3. key[o[i]] = ValueAt(st[c], FirstCell(a)) /\ key[o[j]] = ValueAt(st[c], FirstCell(b))
    BY <1>2, <2>1
  <2>4. o[i] < o[j] => Ordered(st, by, a, b)
    BY <1>1, <1>6, <2>1
  <2> HIDE DEF a, b
  <2>5. Ordered(st, Append(by, c), a, b)
    BY <2>2, <2>3, <2>4, OrderedFurther
  <2> QED
    BY <2>1, <2>5
<1>7. Reorders(new, runs)
  BY <1>4, <1>5 DEF Reorders, m
<1> QED
  BY <1>6, <1>7 DEF new

-----------------------------------------------------------------------------
(* What the operations make of the runs *)

\* The runs of a first filter.
FirstRuns(data, x) ==
    [k \in DOMAIN MatchRuns(Hits(data, x)) |-> RunOf(AllCells[CoordDims], MatchRuns(Hits(data, x))[k])]

LEMMA FirstRunsAre ==
    ASSUME NEW data \in Data, NEW x
    PROVE  /\ FirstRuns(data, x) \in Seq(Known) /\ FoundIn(FirstRuns(data, x), data, x)
           /\ FirstRuns(data, x) = <<>> <=> MatchRuns(Hits(data, x)) = <<>>
           /\ \A st : \A i, j \in DOMAIN FirstRuns(data, x) : i < j =>
                 Ordered(st, <<>>, FirstRuns(data, x)[i], FirstRuns(data, x)[j])
<1> DEFINE M == Hits(data, x)
           R == MatchRuns(M)
           m == Len(R)
           runs == FirstRuns(data, x)
           o == [k \in 1..m |-> k]
<1>1. M \in SUBSET (1..Cells) /\ R \in Seq(M \X M)
  BY HitsAre DEF Runs
<1>2. m \in Nat /\ DOMAIN R = 1..m /\ \A k \in 1..m : R[k] \in M \X M
  <2> HIDE DEF R, M
  <2> QED
    BY <1>1
<1>3. runs = [k \in 1..m |-> RunOf(AllCells[CoordDims], R[k])]
  BY <1>2 DEF FirstRuns
<1>4. \A k \in 1..m : RunOf(AllCells[CoordDims], R[k]) \in Known
  <2> TAKE k \in 1..m
  <2>1. R[k][1] \in 1..Cells /\ R[k][2] \in 1..Cells
    <3> HIDE DEF R, M
    <3> QED
      BY <1>1, <1>2
  <2>2. IsRun(RunOf(AllCells[CoordDims], R[k]))
    BY <2>1, RunOfIs
  <2> QED
    BY <2>2 DEF IsRun, Known
<1>5. Permutes(o, m)
  BY DEF Permutes
<1>6. FoundIn(runs, data, x)
  <2>1. runs = [k \in 1..m |-> RunOf(AllCells[CoordDims], R[o[k]])]
    BY <1>3
  <2> HIDE DEF o, runs
  <2> QED
    BY <1>5, <2>1 DEF FoundIn
<1>7. \A st : \A i, j \in DOMAIN runs : i < j => Ordered(st, <<>>, runs[i], runs[j])
  <2> TAKE st
  <2>1. ASSUME NEW i \in 1..m, NEW j \in 1..m, i < j PROVE Ordered(st, <<>>, runs[i], runs[j])
    <3>1. Ordered(st, <<>>, RunOf(AllCells[CoordDims], R[i]), RunOf(AllCells[CoordDims], R[j]))
      BY <2>1, FoundInOrder
    <3> QED
      BY <1>3, <3>1
  <2> HIDE DEF runs, m
  <2> QED
    BY <1>3, <2>1
<1>8. runs \in Seq(Known)
  <2> HIDE DEF R, M, runs, m
  <2> QED
    BY <1>2, <1>3, <1>4
<1>9. runs = <<>> <=> R = <<>>
  <2> HIDE DEF R, M, runs
  <2> QED
    BY <1>1, <1>3, <1>8
<1> QED
  BY <1>6, <1>7, <1>8, <1>9

\* A further filter finds runs without descriptors.
LEMMA InsideAre ==
    ASSUME NEW run \in Known, Box(run).ok, NEW c, NEW x
    PROVE  RunsInside(run, c, x) \in Seq({<<>>})
<1> DEFINE cells == CellSeq(Box(run).view, CoordDims)
           N == Cardinality(Inside(run, CoordDims))
           M == {n \in DOMAIN cells : ValueAt(stored[c], cells[n]) = x}
           found == MatchRuns(M)
<1>1. IsRun(run) /\ CoordDims \in Variables
  BY HasBox, CoordFacts
<1>2. cells = InOrderOf(CoordDims, Inside(run, CoordDims))
  BY <1>1, RunCells
<1>3. DOMAIN cells = 1..N
  BY <1>2 DEF InOrderOf
<1>4. N \in Nat
  <2>1. Inside(run, CoordDims) \in SUBSET (1..Stride(CoordDims, 0))
    BY DEF Inside
  <2>2. IsFiniteSet(Inside(run, CoordDims))
    BY <1>1, <2>1, EnumeratedCells
  <2> QED
    BY <2>2, FS_CardinalityType
<1>5. M \in SUBSET (1..N)
  BY <1>3
<1> HIDE DEF M, N
<1>6. found \in Seq(M \X M)
  <2>1. Runs(found, M)
    BY <1>4, <1>5, MatchRunsAre
  <2> QED
    BY <2>1 DEF Runs
<1>7. Len(found) \in Nat /\ DOMAIN found = 1..Len(found)
  <2> HIDE DEF found
  <2> QED
    BY <1>6
<1>8. RunsInside(run, c, x) = [j \in 1..Len(found) |-> <<>>]
  BY <1>7 DEF RunsInside, NewRun, M
<1> HIDE DEF found
<1> QED
  BY <1>7, <1>8

LEMMA FurtherAre ==
    ASSUME NEW runs \in Seq(Known), \A k \in DOMAIN runs : Box(runs[k]).ok, NEW c, NEW x
    PROVE  FlattenSeq([k \in DOMAIN runs |-> RunsInside(runs[k], c, x)]) \in Seq({<<>>})
<1> DEFINE seqs == [k \in DOMAIN runs |-> RunsInside(runs[k], c, x)]
           n == Len(runs)
<1>1. n \in Nat /\ DOMAIN runs = 1..n /\ \A k \in 1..n : runs[k] \in Known
  OBVIOUS
<1>2. \A k \in 1..n : RunsInside(runs[k], c, x) \in Seq({<<>>})
  BY <1>1, InsideAre
<1>3. seqs \in [1..n -> Seq({<<>>})]
  BY <1>1, <1>2
<1> HIDE DEF seqs, n
<1>4. seqs \in Seq(Seq({<<>>})) /\ Len(seqs) = n
  BY <1>1, <1>3
<1>5. PICK p \in [0..Len(seqs) -> Seq({<<>>})] : FlattenSeq(seqs) = p[Len(seqs)]
  BY <1>4, FlattenParts
<1> QED
  BY <1>1, <1>4, <1>5 DEF seqs

\* Runs that were found, in another order.
LEMMA FoundAgain ==
    ASSUME NEW data \in Data, NEW x, NEW runs, FoundIn(runs, data, x), NEW p, Permutes(p, Len(runs))
    PROVE  FoundIn([k \in 1..Len(runs) |-> runs[p[k]]], data, x)
<1> DEFINE M == Hits(data, x)
           R == MatchRuns(M)
           m == Len(R)
<1>1. PICK o : Permutes(o, m) /\ runs = [k \in 1..m |-> RunOf(AllCells[CoordDims], R[o[k]])]
  BY DEF FoundIn
<1>2. m \in Nat
  <2>1. R \in Seq(M \X M)
    BY HitsAre DEF Runs
  <2> HIDE DEF R, M
  <2> QED
    BY <2>1
<1> DEFINE q == [k \in 1..m |-> o[p[k]]]
<1> HIDE DEF m
<1>3. Len(runs) = m
  BY <1>1, <1>2
<1>4. Permutes(q, m)
  <2>1. o \in [1..m -> 1..m] /\ p \in [1..m -> 1..m]
    BY <1>1, <1>3 DEF Permutes
  <2>2. \A i, j \in 1..m : q[i] = q[j] => i = j
    <3>1. \A i, j \in 1..m : o[i] = o[j] => i = j
      BY <1>1 DEF Permutes
    <3>2. \A i, j \in 1..m : p[i] = p[j] => i = j
      BY <1>3 DEF Permutes
    <3> QED
      BY <2>1, <3>1, <3>2
  <2>3. \A n \in 1..m : \E i \in 1..m : q[i] = n
    <3> TAKE n \in 1..m
    <3>1. PICK i \in 1..m : o[i] = n
      BY <1>1 DEF Permutes
    <3>2. PICK j \in 1..m : p[j] = i
      BY <1>3 DEF Permutes
    <3> QED
      BY <3>1, <3>2
  <2>4. q \in [1..m -> 1..m]
    BY <2>1
  <2> HIDE DEF q
  <2> QED
    BY <2>2, <2>3, <2>4 DEF Permutes
<1>5. [k \in 1..Len(runs) |-> runs[p[k]]] = [k \in 1..m |-> RunOf(AllCells[CoordDims], R[q[k]])]
  <2>1. \A k \in 1..m : p[k] \in 1..m
    BY <1>3 DEF Permutes
  <2> HIDE DEF R
  <2> QED
    BY <1>1, <1>3, <2>1
<1> HIDE DEF q
<1> QED
  BY <1>4, <1>5 DEF FoundIn, m

-----------------------------------------------------------------------------
(* The invariant *)

Kinds == {"ops", "reads", "writes"}

Filters == [by : Coordinates, value : Values]

TypeInv ==
    /\ stored \in Contents
    /\ kept \in Seq(Known)
    /\ cache \in [Coordinates -> Data \cup {Unread}]
    /\ \A c \in Coordinates : cache[c] = Unread \/ \E s \in Contents : cache[c] = s[c]
    /\ filters \in Seq(Filters) /\ keys \in Seq(Coordinates)
    /\ used \in [Kinds -> Nat]

\* The runs of one filter are those of what was read, in some order; those of
\* more have no descriptor.
FilterInv ==
    /\ kept = <<>> <=> filters = <<>>
    /\ kept = <<>> => keys = <<>>
    /\ Len(filters) = 1 =>
          /\ cache[filters[1].by] # Unread
          /\ FoundIn(kept, cache[filters[1].by], filters[1].value)
    /\ Len(filters) > 1 => kept \in Seq({<<>>})

\* An answer is given up when what it was read from changes.
AnswerInv == answer = NoAnswer \/ \E v \in Variables : answer = ReadOf(kept, v)

OrderInv ==
    (Len(filters) = 1 /\ used.writes = 0) =>
        \A i, j \in DOMAIN kept : i < j => Ordered(stored, keys, kept[i], kept[j])

IInv == TypeInv /\ FilterInv /\ AnswerInv /\ OrderInv

LEMMA CountStep ==
    ASSUME used \in [Kinds -> Nat], NEW what \in Kinds, Count(what)
    PROVE  /\ used' \in [Kinds -> Nat]
           /\ what # "writes" => used'.writes = used.writes
           /\ what = "writes" => used'.writes # 0
BY DEF Count, Kinds

LEMMA CachedIs ==
    ASSUME TypeInv, NEW c \in Coordinates
    PROVE  Cached(c) \in Data /\ \E s \in Contents : Cached(c) = s[c]
<1>1. \A s \in Contents : s[c] \in Data
  BY StoredData
<1>2. cache[c] = Unread \/ \E s \in Contents : cache[c] = s[c]
  BY DEF TypeInv
<1>3. CASE cache[c] = Unread
  BY <1>1, <1>3 DEF Cached, TypeInv
<1>4. CASE cache[c] # Unread
  BY <1>1, <1>2, <1>4 DEF Cached
<1> QED
  BY <1>3, <1>4

LEMMA Initially == Init => IInv
<1> SUFFICES ASSUME Init PROVE IInv
  OBVIOUS
<1>1. kept = <<>> /\ filters = <<>> /\ keys = <<>> /\ answer = NoAnswer
  BY DEF Init
<1>2. Len(filters) = 0 /\ DOMAIN kept = {}
  BY <1>1
<1>3. stored \in Contents /\ cache = [c \in Coordinates |-> Unread]
      /\ used = [what \in DOMAIN Limit |-> 0]
  BY DEF Init
<1>4. TypeInv
  <2>1. cache \in [Coordinates -> Data \cup {Unread}] /\ \A c \in Coordinates : cache[c] = Unread
    BY <1>3
  <2>2. used \in [Kinds -> Nat]
    <3>1. DOMAIN Limit = Kinds
      BY LimitAssumption DEF Kinds
    <3> QED
      BY <1>3, <3>1
  <2>3. kept \in Seq(Known) /\ filters \in Seq(Filters) /\ keys \in Seq(Coordinates)
    BY <1>1
  <2> QED
    BY <1>3, <2>1, <2>2, <2>3 DEF TypeInv
<1>5. FilterInv
  BY <1>1, <1>2 DEF FilterInv
<1>6. AnswerInv /\ OrderInv
  BY <1>1, <1>2 DEF AnswerInv, OrderInv
<1> QED
  BY <1>4, <1>5, <1>6 DEF IInv

LEMMA InitRunsKeeps ==
    ASSUME IInv, NEW c \in Coordinates, NEW x \in Values, Count("ops"), InitRuns(c, x),
           answer' = NoAnswer, UNCHANGED <<stored, keys>>
    PROVE  IInv'
<1> DEFINE data == Cached(c)
           runs == FirstRuns(data, x)
           f == [by |-> c, value |-> x]
<1>0. /\ kept = <<>> /\ keys = <<>> /\ keys' = <<>>
      /\ stored' = stored /\ stored \in Contents
      /\ cache' = [cache EXCEPT ![c] = data]
      /\ cache \in [Coordinates -> Data \cup {Unread}]
      /\ \A n \in Coordinates : cache[n] = Unread \/ \E s \in Contents : cache[n] = s[n]
      /\ used \in [Kinds -> Nat]
  BY DEF IInv, TypeInv, FilterInv, InitRuns
<1>1. data \in Data /\ \E s \in Contents : data = s[c]
  BY CachedIs DEF IInv
<1>2. kept' = runs /\ filters' = IF MatchRuns(Hits(data, x)) = <<>> THEN <<>> ELSE <<f>>
  BY DEF InitRuns, FirstRuns, Hits
<1>3. /\ runs \in Seq(Known) /\ FoundIn(runs, data, x)
      /\ runs = <<>> <=> MatchRuns(Hits(data, x)) = <<>>
      /\ \A i, j \in DOMAIN runs : i < j => Ordered(stored, <<>>, runs[i], runs[j])
  BY <1>1, FirstRunsAre
<1>4. f \in Filters /\ f.by = c /\ f.value = x /\ <<f>> # <<>> /\ Len(<<f>>) = 1 /\ <<f>>[1] = f
      /\ <<f>> \in Seq(Filters)
  <2>1. f \in Filters
    BY DEF Filters
  <2> HIDE DEF f
  <2>2. <<f>> # <<>> /\ Len(<<f>>) = 1 /\ <<f>>[1] = f /\ <<f>> \in Seq(Filters)
    BY <2>1
  <2> QED
    BY <2>1, <2>2 DEF f
<1> HIDE DEF f, data, runs
<1>5. data # Unread /\ cache'[c] = data /\ cache' \in [Coordinates -> Data \cup {Unread}]
      /\ \A n \in Coordinates : cache'[n] = Unread \/ \E s \in Contents : cache'[n] = s[n]
  <2>1. data # Unread
    BY <1>1, HitsAre
  <2>2. \A n \in Coordinates : cache'[n] = IF n = c THEN data ELSE cache[n]
    BY <1>0
  <2>3. cache' \in [Coordinates -> Data \cup {Unread}]
    BY <1>0, <1>1
  <2>4. ASSUME NEW n \in Coordinates PROVE cache'[n] = Unread \/ \E s \in Contents : cache'[n] = s[n]
    BY <1>0, <1>1, <2>2
  <2> QED
    BY <2>1, <2>2, <2>3, <2>4
<1>6. filters' = <<>> \/ filters' = <<f>>
  BY <1>2
<1>7. used' \in [Kinds -> Nat]
  BY <1>0, CountStep DEF Kinds
<1>8. TypeInv'
  <2>1. filters' \in Seq(Filters) /\ kept' \in Seq(Known) /\ keys' \in Seq(Coordinates)
    BY <1>0, <1>2, <1>3, <1>4, <1>6
  <2>2. stored' \in Contents
    BY <1>0
  <2> QED
    BY <1>5, <1>7, <2>1, <2>2 DEF TypeInv
<1>9. FilterInv'
  <2>1. kept' = <<>> <=> filters' = <<>>
    BY <1>2, <1>3, <1>4
  <2>2. ~(Len(filters') > 1)
    <3> DEFINE n == Len(filters')
    <3>1. filters' = <<>> => n = 0
      OBVIOUS
    <3>2. filters' = <<f>> => n = 1
      BY <1>4
    <3> HIDE DEF n
    <3>3. ~(n > 1)
      BY <1>6, <3>1, <3>2
    <3> QED
      BY <3>3 DEF n
  <2>3. ASSUME Len(filters') = 1
        PROVE  cache'[filters'[1].by] # Unread /\ FoundIn(kept', cache'[filters'[1].by], filters'[1].value)
    <3>1. filters' = <<f>>
      BY <1>6, <2>3
    <3>2. filters'[1].by = c /\ filters'[1].value = x
      BY <1>4, <3>1
    <3> QED
      BY <1>2, <1>3, <1>5, <3>2
  <2>4. kept' = <<>> => keys' = <<>>
    BY <1>0
  <2> QED
    BY <2>1, <2>2, <2>3, <2>4 DEF FilterInv
<1>10. AnswerInv'
  BY DEF AnswerInv
<1>11. OrderInv'
  <2>1. ASSUME NEW i \in DOMAIN kept', NEW j \in DOMAIN kept', i < j
        PROVE  Ordered(stored', keys', kept'[i], kept'[j])
    BY <1>0, <1>2, <1>3, <2>1
  <2> QED
    BY <2>1 DEF OrderInv
<1> QED
  BY <1>8, <1>9, <1>10, <1>11 DEF IInv

LEMMA AddNewRunKeeps ==
    ASSUME IInv, NEW c \in Coordinates, NEW x \in Values, Count("ops"), AddNewRun(c, x),
           answer' = NoAnswer, UNCHANGED <<stored, keys>>
    PROVE  IInv'
<1> DEFINE runs == FlattenSeq([k \in DOMAIN kept |-> RunsInside(kept[k], c, x)])
           ok == \A k \in DOMAIN kept : Box(kept[k]).ok
           f == [by |-> c, value |-> x]
<1>0. /\ stored' = stored /\ stored \in Contents /\ keys' = keys /\ keys \in Seq(Coordinates)
      /\ cache' = cache /\ kept # <<>> /\ filters # <<>> /\ kept \in Seq(Known)
      /\ filters \in Seq(Filters) /\ used \in [Kinds -> Nat]
  BY DEF IInv, TypeInv, FilterInv, AddNewRun
<1>1. used' \in [Kinds -> Nat] /\ used'.writes = used.writes
  BY <1>0, CountStep DEF Kinds
<1>2. AnswerInv'
  BY DEF AnswerInv
<1>3. CASE kept' = kept /\ filters' = filters
  <2>1. TypeInv'
    BY <1>0, <1>1, <1>3 DEF IInv, TypeInv
  <2>2. FilterInv'
    BY <1>0, <1>3 DEF IInv, FilterInv
  <2>3. OrderInv'
    BY <1>0, <1>1, <1>3 DEF IInv, OrderInv
  <2> QED
    BY <1>2, <2>1, <2>2, <2>3 DEF IInv
<1>4. CASE ok /\ runs # <<>> /\ kept' = runs /\ filters' = Append(filters, f)
  <2>1. runs \in Seq({<<>>})
    BY <1>0, <1>4, FurtherAre
  <2>2. f \in Filters
    BY DEF Filters
  <2> HIDE DEF runs, f, ok
  <2>3. filters' \in Seq(Filters) /\ Len(filters') = Len(filters) + 1 /\ Len(filters) \in Nat
    BY <1>0, <1>4, <2>2
  <2>4. Len(filters) # 0
    BY <1>0
  <2>5. Len(filters') > 1 /\ Len(filters') # 1 /\ filters' # <<>>
    BY <2>3, <2>4
  <2>6. kept' \in Seq({<<>>}) /\ kept' # <<>>
    BY <1>4, <2>1
  <2>7. kept' \in Seq(Known)
    BY <2>6 DEF Known
  <2>8. TypeInv'
    BY <1>0, <1>1, <2>3, <2>7 DEF IInv, TypeInv
  <2>9. FilterInv'
    BY <2>5, <2>6 DEF FilterInv
  <2>10. OrderInv'
    BY <2>5 DEF OrderInv
  <2> QED
    BY <1>2, <2>8, <2>9, <2>10 DEF IInv
<1>5. \/ kept' = kept /\ filters' = filters
      \/ ok /\ runs # <<>> /\ kept' = runs /\ filters' = Append(filters, f)
  <2>1. CASE ok
    BY <2>1 DEF AddNewRun
  <2>2. CASE ~ok
    BY <2>2 DEF AddNewRun
  <2> QED
    BY <2>1, <2>2
<1> QED
  BY <1>3, <1>4, <1>5

LEMMA SortKeeps ==
    ASSUME IInv, SortSelectionByKey
    PROVE  IInv'
<1>1. PICK c \in Coordinates :
        /\ Count("ops")
        /\ \A k \in DOMAIN kept : HasCells(kept[k])
        /\ kept' = SortedRuns(stored[c], kept)
        /\ keys' = IF kept = <<>> THEN keys ELSE Append(keys, c)
  BY DEF SortSelectionByKey, SortedRuns, Keys, KeyOf
<1>2. answer' = NoAnswer /\ stored' = stored /\ cache' = cache /\ filters' = filters
  BY DEF SortSelectionByKey
<1>3. /\ stored \in Contents /\ kept \in Seq(Known) /\ keys \in Seq(Coordinates)
      /\ used \in [Kinds -> Nat] /\ cache \in [Coordinates -> Data \cup {Unread}]
      /\ filters \in Seq(Filters)
  BY DEF IInv, TypeInv
<1>4. stored[c] \in Data
  BY <1>3, StoredData
<1> DEFINE m == Len(kept)
<1>5. m \in Nat /\ DOMAIN kept = 1..m /\ \A k \in 1..m : kept[k] \in Known
  BY <1>3
<1>6. PICK o : Permutes(o, m) /\ kept' = [k \in 1..m |-> kept[o[k]]]
  <2>1. Reorders(SortedRuns(stored[c], kept), kept)
    BY <1>1, <1>3, <1>4, SortedRunsAre
  <2> QED
    BY <1>1, <2>1 DEF Reorders
<1>7. o \in [1..m -> 1..m]
  BY <1>6 DEF Permutes
<1>8. kept' \in Seq(Known) /\ Len(kept') = m /\ \A k \in 1..m : kept'[k] = kept[o[k]] /\ o[k] \in 1..m
  <2> HIDE DEF m
  <2> QED
    BY <1>5, <1>6, <1>7
<1>9. kept' = <<>> <=> kept = <<>>
  BY <1>3, <1>8
<1>10. keys' \in Seq(Coordinates)
  BY <1>1, <1>3
<1>11. used' \in [Kinds -> Nat] /\ used'.writes = used.writes
  BY <1>1, <1>3, CountStep DEF Kinds
<1>12. TypeInv'
  BY <1>2, <1>8, <1>10, <1>11 DEF IInv, TypeInv
<1>13. FilterInv'
  <2>1. kept' = <<>> => keys' = <<>>
    BY <1>1, <1>9 DEF IInv, FilterInv
  <2>2. kept' = <<>> <=> filters' = <<>>
    BY <1>2, <1>9 DEF IInv, FilterInv
  <2>3. ASSUME Len(filters') = 1
        PROVE  cache'[filters'[1].by] # Unread /\ FoundIn(kept', cache'[filters'[1].by], filters'[1].value)
    <3> DEFINE data == cache[filters[1].by]
               x == filters[1].value
    <3>1. data # Unread /\ FoundIn(kept, data, x)
      BY <1>2, <2>3 DEF IInv, FilterInv
    <3>2. data \in Data
      <4>1. filters[1] \in Filters
        <5>1. Len(filters) = 1
          BY <1>2, <2>3
        <5>2. 1 \in 1..Len(filters)
          BY <5>1
        <5> QED
          BY <1>3, <5>2, ElementOfSeq
      <4>2. filters[1].by \in Coordinates
        BY <4>1 DEF Filters
      <4> QED
        BY <1>3, <3>1, <4>2
    <3> HIDE DEF data, x
    <3>3. FoundIn([k \in 1..Len(kept) |-> kept[o[k]]], data, x)
      BY <1>6, <3>1, <3>2, FoundAgain
    <3>4. FoundIn(kept', data, x)
      BY <1>6, <3>3
    <3> QED
      BY <1>2, <3>1, <3>4 DEF data, x
  <2>4. ASSUME Len(filters') > 1 PROVE kept' \in Seq({<<>>})
    <3>1. kept \in Seq({<<>>})
      BY <1>2, <2>4 DEF IInv, FilterInv
    <3>2. \A k \in 1..m : kept[k] = <<>>
      BY <1>5, <3>1
    <3>3. \A k \in 1..m : kept'[k] = <<>>
      BY <1>8, <3>2
    <3> HIDE DEF m
    <3> QED
      BY <1>5, <1>8, <3>3
  <2> QED
    BY <2>1, <2>2, <2>3, <2>4 DEF FilterInv
<1>14. AnswerInv'
  BY <1>2 DEF AnswerInv
<1>15. OrderInv'
  <2> SUFFICES ASSUME Len(filters') = 1, used'.writes = 0,
                      NEW i \in DOMAIN kept', NEW j \in DOMAIN kept', i < j
               PROVE  Ordered(stored', keys', kept'[i], kept'[j])
    BY DEF OrderInv
  <2>1. \A a, b \in DOMAIN kept : a < b => Ordered(stored, keys, kept[a], kept[b])
    BY <1>2, <1>11 DEF IInv, OrderInv
  <2>2. \A a, b \in DOMAIN kept' : a < b => Ordered(stored, Append(keys, c), kept'[a], kept'[b])
    BY <1>1, <1>3, <1>4, <2>1, SortedRunsAre
  <2>3. kept # <<>>
    BY <1>5, <1>8
  <2>4. keys' = Append(keys, c)
    BY <1>1, <2>3
  <2> QED
    BY <1>2, <2>2, <2>4
<1> QED
  BY <1>12, <1>13, <1>14, <1>15 DEF IInv

LEMMA ReadKeeps ==
    ASSUME IInv, ReadSelection
    PROVE  IInv'
<1>1. PICK v \in Variables :
        /\ Count("reads")
        /\ answer' = ReadOf(kept, v)
  BY DEF ReadSelection, ReadOf, Taken, RunsRead
<1>2. UNCHANGED <<stored, kept, cache, filters, keys>>
  BY DEF ReadSelection
<1>3. used' \in [Kinds -> Nat] /\ used'.writes = used.writes
  BY <1>1, CountStep DEF Kinds, IInv, TypeInv
<1>4. TypeInv'
  BY <1>2, <1>3 DEF IInv, TypeInv
<1>5. FilterInv'
  BY <1>2 DEF IInv, FilterInv
<1>6. AnswerInv'
  BY <1>1, <1>2 DEF AnswerInv
<1>7. OrderInv'
  BY <1>2, <1>3 DEF IInv, OrderInv
<1> QED
  BY <1>4, <1>5, <1>6, <1>7 DEF IInv

LEMMA ResetKeeps ==
    ASSUME IInv, Reset
    PROVE  IInv'
<1>1. /\ kept' = <<>> /\ filters' = <<>> /\ keys' = <<>> /\ answer' = NoAnswer
      /\ stored' = stored /\ cache' = cache /\ Count("writes")
  BY DEF Reset
<1>2. used' \in [Kinds -> Nat]
  BY <1>1, CountStep DEF Kinds, IInv, TypeInv
<1>3. Len(filters') = 0
  BY <1>1
<1>4. kept' \in Seq(Known) /\ filters' \in Seq(Filters) /\ keys' \in Seq(Coordinates)
  BY <1>1
<1>5. TypeInv'
  BY <1>1, <1>2, <1>4 DEF IInv, TypeInv
<1>6. FilterInv'
  BY <1>1, <1>3 DEF FilterInv
<1>7. AnswerInv' /\ OrderInv'
  BY <1>1, <1>3 DEF AnswerInv, OrderInv
<1> QED
  BY <1>5, <1>6, <1>7 DEF IInv

LEMMA WriteKeeps ==
    ASSUME IInv, WriteCoordinates
    PROVE  IInv'
<1>1. /\ stored' \in Contents /\ answer' = NoAnswer /\ Count("writes")
      /\ UNCHANGED <<kept, cache, filters, keys>>
  BY RewritesAssumption DEF WriteCoordinates
<1>2. used' \in [Kinds -> Nat] /\ used'.writes # 0
  BY <1>1, CountStep DEF Kinds, IInv, TypeInv
<1>3. TypeInv'
  BY <1>1, <1>2 DEF IInv, TypeInv
<1>4. FilterInv'
  BY <1>1 DEF IInv, FilterInv
<1>5. AnswerInv' /\ OrderInv'
  BY <1>1, <1>2 DEF AnswerInv, OrderInv
<1> QED
  BY <1>3, <1>4, <1>5 DEF IInv

LEMMA Inductive == IInv /\ [Next]_vars => IInv'
<1> SUFFICES ASSUME IInv, [Next]_vars PROVE IInv'
  OBVIOUS
<1>1. CASE FilterByCoordinate
  <2>1. PICK c \in Coordinates, x \in Values :
          /\ Count("ops")
          /\ InitRuns(c, x) \/ AddNewRun(c, x)
          /\ answer' = NoAnswer
          /\ UNCHANGED <<stored, keys>>
    BY <1>1 DEF FilterByCoordinate
  <2> QED
    BY <2>1, InitRunsKeeps, AddNewRunKeeps
<1>2. CASE UNCHANGED vars
  BY <1>2 DEF vars, IInv, TypeInv, FilterInv, AnswerInv, OrderInv
<1> QED
  BY <1>1, <1>2, SortKeeps, ReadKeeps, ResetKeeps, WriteKeeps DEF Next

\* However the calls follow each other, what is kept, cached and answered fit together.
THEOREM InvariantCorrect == Spec => []IInv
BY Initially, Inductive, PTL DEF Spec

LEMMA KnownRun ==
    ASSUME NEW run \in Known, run # <<>>
    PROVE  /\ DOMAIN run = CoordDims
           /\ \A d \in CoordDims : /\ run[d].label = d
                                   /\ run[d].start \in 0..Shape[d]
                                   /\ run[d].stop \in 0..Shape[d]
<1>1. IsRun(run)
  BY DEF Known
<1>2. \A d \in CoordDims : Shape[d] \in Nat
  BY CoordFacts
<1> QED
  BY <1>1, <1>2 DEF IsRun

LEMMA TypeFollows == IInv => TypeOK
<1> SUFFICES ASSUME IInv PROVE TypeOK
  OBVIOUS
<1>1. stored \in Contents /\ kept \in Seq(Known)
  BY DEF IInv, TypeInv
<1>2. ASSUME NEW k \in DOMAIN kept, kept[k] # <<>>
      PROVE  /\ DOMAIN kept[k] = CoordDims
             /\ \A d \in CoordDims : /\ kept[k][d].label = d
                                     /\ kept[k][d].start \in 0..Shape[d]
                                     /\ kept[k][d].stop \in 0..Shape[d]
  <2>1. kept[k] \in Known
    BY <1>1
  <2> QED
    BY <1>2, <2>1, KnownRun
<1>3. \A c \in Coordinates : cache[c] = Unread \/ cache[c] \in {s[c] : s \in Contents}
  BY DEF IInv, TypeInv
<1>4. /\ answer.ok \in BOOLEAN /\ answer.var \in Variables \cup {{}}
      /\ \A i \in DOMAIN answer.cells : answer.cells[i] \in ToSet(AllCells[answer.var])
  <2>1. CASE answer = NoAnswer
    <3>1. NoAnswer.ok \in BOOLEAN /\ NoAnswer.var = {} /\ NoAnswer.cells = <<>>
      BY DEF NoAnswer
    <3> QED
      BY <2>1, <3>1
  <2>2. ASSUME NEW v \in Variables, answer = ReadOf(kept, v)
        PROVE  /\ answer.ok \in BOOLEAN /\ answer.var = v
               /\ \A i \in DOMAIN answer.cells : answer.cells[i] \in ToSet(AllCells[v])
    <3>1. ReadOf(kept, v).ok \in BOOLEAN /\ ReadOf(kept, v).var = v
      BY ReadIs
    <3>2. \A i \in DOMAIN ReadOf(kept, v).cells : ReadOf(kept, v).cells[i] \in ToSet(AllCells[v])
      BY <1>1, ReadType
    <3> QED
      BY <2>2, <3>1, <3>2
  <2> QED
    BY <2>1, <2>2 DEF IInv, AnswerInv
<1> QED
  BY <1>1, <1>2, <1>3, <1>4 DEF TypeOK

\* Where the values of a coordinate that is filtered are in the cache, they are read
\* from there, and a run of what was not found has no samples.
LEMMA FoundSome ==
    ASSUME NEW data \in Data, NEW x, NEW runs, runs # <<>>, FoundIn(runs, data, x)
    PROVE  Hits(data, x) # {}
<1> DEFINE M == Hits(data, x)
           R == MatchRuns(M)
<1>1. R \in Seq(M \X M)
  BY HitsAre DEF Runs
<1>2. PICK o : runs = [k \in 1..Len(R) |-> RunOf(AllCells[CoordDims], R[o[k]])]
  BY DEF FoundIn
<1> SUFFICES ASSUME M = {} PROVE FALSE
  OBVIOUS
<1> HIDE DEF R, M
<1>3. Len(R) # 0
  <2>1. SUFFICES ASSUME Len(R) = 0 PROVE runs = <<>>
    OBVIOUS
  <2> QED
    BY <1>2, <2>1
<1>4. Len(R) \in Nat
  BY <1>1
<1>5. R[1] \in M \X M
  BY <1>1, <1>3, <1>4
<1> QED
  BY <1>5

LEMMA OneFilter ==
    ASSUME IInv, Supported, Len(filters) = 1
    PROVE  \E data \in Data, x \in Values : \E side :
              /\ kept # <<>> /\ FoundIn(kept, data, x)
              /\ Matching(1) = CellsOf(CoordDims, Hits(data, x))
              /\ Boxed(Hits(data, x), side)
<1> DEFINE c == filters[1].by
           x == filters[1].value
           data == cache[c]
<1>1. /\ filters \in Seq(Filters) /\ stored \in Contents
      /\ cache[c] # Unread /\ FoundIn(kept, data, x)
      /\ kept = <<>> <=> filters = <<>>
  BY DEF IInv, TypeInv, FilterInv
<1>2. c \in Coordinates /\ x \in Values
  <2>1. 1 \in 1..Len(filters)
    OBVIOUS
  <2>2. filters[1] \in Filters
    BY <1>1, <2>1, ElementOfSeq
  <2> QED
    BY <2>2 DEF Filters
<1>3. kept # <<>> /\ IsHyperRectangle(Matching(1)) /\ data = stored[c]
  BY <1>1, <1>2 DEF Supported
<1>4. data \in Data
  BY <1>1, <1>2, <1>3, StoredData
<1> HIDE DEF data, c, x
<1>5. Matching(1) = CellsOf(CoordDims, Hits(data, x))
  <2>1. Matching(1) = {cell \in ToSet(AllCells[CoordDims]) : ValueAt(stored[c], cell) = x}
    <3>1. \A i \in 1..1 : i = 1
      OBVIOUS
    <3>2. 1 \in 1..1
      OBVIOUS
    <3> QED
      BY <3>1, <3>2 DEF Matching, c, x
  <2> QED
    BY <1>3, <1>4, <2>1, HitCells
<1>6. Hits(data, x) # {}
  BY <1>1, <1>3, <1>4, FoundSome
<1>7. PICK side : Boxed(Hits(data, x), side)
  BY <1>3, <1>4, <1>5, <1>6, SidesAre
<1> QED
  BY <1>1, <1>2, <1>3, <1>4, <1>5, <1>7

LEMMA ReadFollows == IInv => MatchesReadOnce
<1> SUFFICES ASSUME IInv, answer.ok, Supported PROVE MatchesReadOnce
  BY DEF MatchesReadOnce
<1>1. PICK v \in Variables : answer = ReadOf(kept, v)
  <2>1. NoAnswer.ok = FALSE
    BY DEF NoAnswer
  <2>2. answer # NoAnswer
    BY <2>1
  <2> QED
    BY <2>2 DEF IInv, AnswerInv
<1>2. answer.var = v /\ answer.cells = ReadOf(kept, v).cells /\ ReadOf(kept, v).ok
  BY <1>1, ReadIs
<1>3. /\ kept \in Seq(Known) /\ Len(filters) \in Nat /\ Len(filters) # 0
      /\ kept # <<>>
  <2>1. filters \in Seq(Filters) /\ filters # <<>> /\ kept \in Seq(Known)
    BY DEF IInv, TypeInv, Supported
  <2>2. kept # <<>>
    BY <2>1 DEF IInv, FilterInv
  <2> QED
    BY <2>1, <2>2
<1>4. Len(filters) = 1
  <2> DEFINE n == Len(filters)
  <2>1. ~(n > 1)
    <3>1. SUFFICES ASSUME n > 1 PROVE FALSE
      OBVIOUS
    <3>2. kept \in Seq({<<>>})
      BY <3>1 DEF IInv, FilterInv
    <3> QED
      BY <1>2, <1>3, <3>2, ReadNone
  <2>2. n \in Nat /\ n # 0
    BY <1>3
  <2> HIDE DEF n
  <2>3. n = 1
    BY <2>1, <2>2
  <2> QED
    BY <2>3 DEF n
<1>5. PICK data \in Data, x \in Values : \E side :
        /\ FoundIn(kept, data, x)
        /\ Matching(1) = CellsOf(CoordDims, Hits(data, x))
        /\ Boxed(Hits(data, x), side)
  BY <1>4, OneFilter
<1>11. PICK side : Boxed(Hits(data, x), side)
  BY <1>5
<1> DEFINE cells == ReadOf(kept, v).cells
           all == ToSet(AllCells[v])
           chosen == Selected(v)
<1>6. chosen = {c \in all : Restrict(c, CoordDims) \in CellsOf(CoordDims, Hits(data, x))}
  <2>1. Matching(Len(filters)) = CellsOf(CoordDims, Hits(data, x))
    BY <1>4, <1>5
  <2> QED
    BY <2>1 DEF Selected
<1>7. CoordDims \subseteq v => ToSet(cells) = chosen /\ Len(cells) = Cardinality(chosen)
  <2>1. SUFFICES ASSUME CoordDims \subseteq v
                 PROVE  ToSet(cells) = chosen /\ Len(cells) = Cardinality(chosen)
    OBVIOUS
  <2>2. Enumerates(ReadOf(kept, v).cells,
                   {c \in ToSet(AllCells[v]) : Restrict(c, CoordDims) \in CellsOf(CoordDims, Hits(data, x))})
    BY <1>5, <1>11, <2>1, ReadFound
  <2>3. Enumerates(cells, chosen)
    BY <1>6, <2>2
  <2> HIDE DEF cells, chosen
  <2> QED
    BY <2>3, EnumeratedSet
<1>8. Cardinality(v) = 1 /\ v \cap CoordDims = {} =>
        ToSet(cells) = all /\ Len(cells) = Cardinality(all)
  <2>1. SUFFICES ASSUME Cardinality(v) = 1, v \cap CoordDims = {}
                 PROVE  ToSet(cells) = all /\ Len(cells) = Cardinality(all)
    OBVIOUS
  <2>2. Enumerates(cells, all)
    BY <1>2, <1>3, <2>1, ReadApart
  <2> HIDE DEF cells, all
  <2> QED
    BY <2>2, EnumeratedSet
<1>9. v \cap CoordDims = {} => ~(CoordDims \subseteq v)
  <2>1. 1 \in CoordDims
    BY Sizes DEF CoordDims
  <2> QED
    BY <2>1
<1> HIDE DEF all, chosen
<1>10. LET spans  == CoordDims \subseteq v
           wanted == IF spans THEN Selected(v) ELSE ToSet(AllCells[v])
           apart  == Cardinality(v) = 1 /\ v \cap CoordDims = {}
       IN  /\ spans => ToSet(answer.cells) \subseteq wanted
           /\ (Len(filters) = 1 /\ (spans \/ apart)) =>
                 ToSet(answer.cells) = wanted /\ Len(answer.cells) = Cardinality(wanted)
  <2>1. CASE CoordDims \subseteq v
    <3>1. ~(Cardinality(v) = 1 /\ v \cap CoordDims = {})
      BY <1>9, <2>1
    <3> QED
      BY <1>2, <1>7, <2>1, <3>1 DEF chosen
  <2>2. CASE ~(CoordDims \subseteq v)
    BY <1>2, <1>8, <2>2 DEF all
  <2> QED
    BY <2>1, <2>2
<1> QED
  BY <1>2, <1>10 DEF MatchesReadOnce

LEMMA OrderFollows == IInv => RunsInKeyOrder
BY DEF IInv, OrderInv, RunsInKeyOrder, Ordered, KeyBefore

-----------------------------------------------------------------------------
(* The theorems *)

\* Each run has one descriptor per dimension of the coordinates, inside the
\* shape, or none at all; the cache holds what was once stored; and a read
\* gives samples that its variable has (kept_runs_, cached_variables_ and
\* readSelection).
THEOREM TypeCorrect == Spec => []TypeOK
<1>1. IInv => TypeOK
  BY TypeFollows
<1> QED
  BY <1>1, InvariantCorrect, PTL

\* filterByCoordinate, sortSelectionByKey, readSelection and reset in any order:
\* what a successful read of a hyper-rectangle gives are the samples the filter
\* asked for, each once; and no sample that fails a filter, of however many.
THEOREM ReadCorrect == Spec => []MatchesReadOnce
<1>1. IInv => MatchesReadOnce
  BY ReadFollows
<1> QED
  BY <1>1, InvariantCorrect, PTL

\* Sorts by one key after another (std::stable_sort in sortSelectionByKey) leave
\* the runs of a filter in the lexicographic order of the keys, the last first,
\* and in stored order where all are equal.
THEOREM OrderCorrect == Spec => []RunsInKeyOrder
<1>1. IInv => RunsInKeyOrder
  BY OrderFollows
<1> QED
  BY <1>1, InvariantCorrect, PTL
=============================================================================
