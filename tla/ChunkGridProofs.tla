-------------------------- MODULE ChunkGridProofs --------------------------
(***************************************************************************)
(* For every rank, every domain and every chunk shape: the loop over a     *)
(* ChunkRange never leaves the domain (InsideCorrect), never gives the     *)
(* body a cell twice (OnceCorrect), has given it every cell when the       *)
(* increment wraps (WrapCorrect), and ends only then (DoneCorrect). The    *)
(* last is about the linear index, which has to be the row-major number of *)
(* the chunk: an induction over the dimensions, done by least              *)
(* counterexample.                                                         *)
(***************************************************************************)
EXTENDS ChunkGrid, WellFoundedInduction, TLAPS

Positive == \A i \in Dims : shape[i] > 0 /\ chunk[i] > 0

\* The chunk indices of the grid, and their row-major order.
Grid == {a \in [Dims -> Nat] : \A i \in Dims : a[i] < PerDimension[i]}

\* a is b or comes before it: wherever it is larger, it is smaller in an earlier
\* dimension.
AtOrBefore(a, b) ==
    \A k \in Dims : a[k] > b[k] => \E j \in Dims : j < k /\ a[j] < b[j]

UpTo(b)   == {a \in Grid : AtOrBefore(a, b)}
Before(b) == UpTo(b) \ {b}

BoxesOf(S) == {BoxOf(a) : a \in S}

\* The types of what the boxes depend on. total_chunks_ and the linear index come
\* later.
Typed ==
    /\ origin \in [Dims -> Int] /\ shape \in [Dims -> Int] /\ chunk \in [Dims -> Int]
    /\ idx \in [Dims -> Nat]
    /\ box \in [origin : [Dims -> Int], shape : [Dims -> Int]]
    /\ visited \subseteq [origin : [Dims -> Int], shape : [Dims -> Int]]

\* Just before it is incremented, the iterator has been at every chunk up to its
\* own.
IInv ==
    /\ Typed
    /\ pc \in {"create", "range"} => visited = {} /\ idx = Zero
    /\ pc \in {"body", "advance"} => Positive /\ idx \in Grid /\ box = BoxOf(idx)
    /\ pc = "body" => visited = BoxesOf(Before(idx))
    /\ pc = "advance" => visited = BoxesOf(UpTo(idx))

-----------------------------------------------------------------------------
(* Arithmetic *)

\* The ceiling of a quotient, by its bounds.
LEMMA CeilingBounds ==
    ASSUME NEW n \in Int, NEW c \in Int, n > 0, c > 0
    PROVE  /\ (n + c - 1) \div c \in Nat \ {0}
           /\ ((n + c - 1) \div c - 1) * c < n
           /\ n <= ((n + c - 1) \div c) * c
<1> DEFINE m == n + c - 1
<1> DEFINE q == m \div c
<1>1. m \in Nat /\ m >= c
  OBVIOUS
<1>2. q \in Int /\ q * c <= m /\ m < (q + 1) * c
  BY <1>1
<1> QED
  BY <1>1, <1>2

LEMMA ProductMonotonic ==
    ASSUME NEW a \in Int, NEW b \in Int, NEW c \in Int, a <= b, c > 0
    PROVE  a * c <= b * c
OBVIOUS

LEMMA Distribute ==
    ASSUME NEW a \in Int, NEW b \in Int
    PROVE  (a + 1) * b = a * b + b
OBVIOUS

\* The quotient that gives the chunk of an offset d in a domain of size n.
LEMMA ChunkOfOffset ==
    ASSUME NEW n \in Int, NEW c \in Int, NEW d \in Int, c > 0, 0 <= d, d < n
    PROVE  /\ d \div c \in Nat
           /\ (d \div c) * c <= d
           /\ d < (d \div c) * c + c
           /\ d \div c < (n + c - 1) \div c
<1> DEFINE q == d \div c
<1> DEFINE p == (n + c - 1) \div c
<1>1. q \in Int /\ q * c <= d /\ d < (q + 1) * c
  OBVIOUS
<1>2. q \in Nat
  BY <1>1
<1>3. p \in Nat /\ n <= p * c
  BY CeilingBounds
<1>4. q < p
  <2>1. SUFFICES ASSUME p <= q PROVE FALSE
    BY <1>1, <1>3
  <2>2. p * c <= q * c
    BY <1>1, <1>3, <2>1, ProductMonotonic
  <2> QED
    BY <1>1, <1>3, <2>2
<1> QED
  BY <1>1, <1>2, <1>4

-----------------------------------------------------------------------------
(* Row-major order *)

LEMMA DimsType == Dims \subseteq Int
BY RankAssumption DEF Dims

LEMMA SameFunction ==
    ASSUME NEW a \in [Dims -> Nat], NEW b \in [Dims -> Nat], \A i \in Dims : a[i] = b[i]
    PROVE  a = b
OBVIOUS

\* Nothing comes before the first index.
LEMMA NothingBeforeZero ==
    ASSUME NEW a \in [Dims -> Nat], AtOrBefore(a, Zero)
    PROVE  a = Zero
BY DEF AtOrBefore, Zero

\* The indices up to idx are those before the next one.
LEMMA NextIsNext ==
    ASSUME Typed, Positive, NEW k \in Dims, Steps(k), idx \in Grid,
           NEW a \in Grid
    PROVE  AtOrBefore(a, idx) <=> AtOrBefore(a, NextIndex(k)) /\ a # NextIndex(k)
<1> DEFINE n == NextIndex(k)
<1>1. /\ a \in [Dims -> Nat] /\ idx \in [Dims -> Nat] /\ n \in [Dims -> Nat]
      /\ Dims \subseteq Int
  BY DimsType DEF Grid, NextIndex, Typed
<1>2. /\ \A j \in Dims : j < k => n[j] = idx[j]
      /\ n[k] = idx[k] + 1
      /\ \A j \in Dims : j > k => n[j] = 0
  BY DimsType DEF NextIndex
<1>3. \A j \in Dims : j > k => a[j] <= idx[j]
  <2> SUFFICES ASSUME NEW j \in Dims, j > k PROVE a[j] <= idx[j]
    OBVIOUS
  <2>1. a[j] < PerDimension[j]
    BY DEF Grid
  <2>2. ~(idx[j] + 1 < PerDimension[j])
    BY DEF Steps, CanStep
  <2>3. PerDimension[j] \in Int
    BY CeilingBounds DEF PerDimension, Typed, Positive
  <2> QED
    BY <1>1, <2>1, <2>2, <2>3
<1> HIDE DEF n
<1>4. ASSUME AtOrBefore(a, idx) PROVE AtOrBefore(a, n) /\ a # n
  <2>1. ASSUME a[k] > idx[k] PROVE \E j \in Dims : j < k /\ a[j] < n[j]
    BY <1>1, <1>2, <1>4, <2>1 DEF AtOrBefore
  <2>2. a # n
    BY <1>1, <1>2, <2>1
  <2>3. ASSUME NEW m \in Dims, a[m] > n[m]
        PROVE  \E j \in Dims : j < m /\ a[j] < n[j]
    <3>1. CASE m < k
      BY <1>1, <1>2, <1>4, <2>3, <3>1 DEF AtOrBefore
    <3>2. CASE m = k
      BY <1>1, <1>2, <2>1, <2>3, <3>2
    <3>3. CASE m > k
      BY <1>1, <1>2, <2>1, <2>3, <3>3
    <3> QED
      BY <1>1, <3>1, <3>2, <3>3
  <2> QED
    BY <2>2, <2>3 DEF AtOrBefore
<1>5. ASSUME AtOrBefore(a, n), a # n PROVE AtOrBefore(a, idx)
  <2>1. ASSUME a[k] > idx[k] PROVE \E j \in Dims : j < k /\ a[j] < idx[j]
    <3>1. SUFFICES ASSUME \A j \in Dims : j < k => a[j] >= n[j] PROVE FALSE
      BY <1>1, <1>2
    <3>2. \A j \in Dims : j <= k => ~(a[j] < n[j])
      BY <1>1, <1>2, <2>1, <3>1
    <3>3. \A j \in Dims : ~(a[j] < n[j])
      BY <1>1, <1>2, <3>2
    <3>4. \A j \in Dims : a[j] = n[j]
      BY <1>1, <1>5, <3>3 DEF AtOrBefore
    <3>5. a = n
      BY <1>1, <3>4, SameFunction
    <3> QED
      BY <1>5, <3>5
  <2>2. ASSUME NEW m \in Dims, a[m] > idx[m]
        PROVE  \E j \in Dims : j < m /\ a[j] < idx[j]
    <3>1. CASE m < k
      BY <1>1, <1>2, <1>5, <2>2, <3>1 DEF AtOrBefore
    <3>2. CASE m = k
      BY <2>1, <2>2, <3>2
    <3>3. CASE m > k
      BY <1>1, <1>3, <2>2, <3>3
    <3> QED
      BY <1>1, <3>1, <3>2, <3>3
  <2> QED
    BY <2>2 DEF AtOrBefore
<1> QED
  BY <1>4, <1>5 DEF n

-----------------------------------------------------------------------------
(* Boxes *)

\* Every chunk has a box that is not empty and inside the domain.
LEMMA BoxInDomain ==
    ASSUME Typed, Positive, NEW a \in Grid, NEW i \in Dims
    PROVE  /\ BoxOf(a).origin[i] \in Int /\ BoxOf(a).shape[i] \in Int
           /\ BoxOf(a).origin[i] = origin[i] + a[i] * chunk[i]
           /\ BoxOf(a).shape[i] > 0
           /\ origin[i] <= BoxOf(a).origin[i]
           /\ BoxOf(a).origin[i] + BoxOf(a).shape[i] <= origin[i] + shape[i]
           /\ BoxOf(a).origin[i] + BoxOf(a).shape[i] <= origin[i] + a[i] * chunk[i] + chunk[i]
<1> DEFINE p == PerDimension[i]
<1>1. /\ origin[i] \in Int /\ shape[i] \in Int /\ chunk[i] \in Int
      /\ shape[i] > 0 /\ chunk[i] > 0 /\ a[i] \in Nat
  BY DEF Typed, Positive, Grid
<1>2. p \in Nat /\ (p - 1) * chunk[i] < shape[i]
  BY <1>1, CeilingBounds DEF PerDimension
<1>3. a[i] <= p - 1
  BY <1>1, <1>2 DEF Grid
<1> HIDE DEF p
<1>4. a[i] * chunk[i] <= (p - 1) * chunk[i]
  BY <1>1, <1>2, <1>3, ProductMonotonic
<1>5. a[i] * chunk[i] \in Int /\ 0 <= a[i] * chunk[i] /\ a[i] * chunk[i] < shape[i]
  BY <1>1, <1>2, <1>4
<1> DEFINE s == a[i] * chunk[i]
<1>6. /\ BoxOf(a).origin[i] = origin[i] + s
      /\ BoxOf(a).shape[i] = MinOf(origin[i] + s + chunk[i], origin[i] + shape[i]) - (origin[i] + s)
  BY DEF BoxOf, Start, Stop
<1> HIDE DEF s
<1> QED
  BY <1>1, <1>5, <1>6 DEF MinOf, s

\* The boxes of different chunks have no cell in common.
LEMMA BoxesDisjoint ==
    ASSUME Typed, Positive, NEW a \in Grid, NEW b \in Grid, a # b,
           NEW x \in Cells, InBox(x, BoxOf(a)), InBox(x, BoxOf(b))
    PROVE  FALSE
<1>1. ASSUME NEW c \in Grid, NEW d \in Grid, NEW i \in Dims, c[i] < d[i],
             InBox(x, BoxOf(c)), InBox(x, BoxOf(d))
      PROVE  FALSE
  <2>1. /\ chunk[i] \in Int /\ chunk[i] > 0 /\ c[i] \in Nat /\ d[i] \in Nat
        /\ origin[i] \in Int
    BY DEF Typed, Positive, Grid
  <2>2. x[i] \in Int
    BY DEF Cells, Typed
  <2>3. (c[i] + 1) * chunk[i] <= d[i] * chunk[i]
    BY <1>1, <2>1, ProductMonotonic
  <2>4. c[i] * chunk[i] + chunk[i] <= d[i] * chunk[i]
    BY <2>1, <2>3
  <2>5. x[i] < origin[i] + c[i] * chunk[i] + chunk[i]
    BY <1>1, <2>1, <2>2, BoxInDomain DEF InBox
  <2>6. origin[i] + d[i] * chunk[i] <= x[i]
    BY <1>1, BoxInDomain DEF InBox
  <2> QED
    BY <2>1, <2>2, <2>4, <2>5, <2>6
<1>2. PICK i \in Dims : a[i] # b[i]
  BY DEF Grid
<1>3. a[i] \in Nat /\ b[i] \in Nat
  BY DEF Grid
<1> QED
  BY <1>1, <1>2, <1>3

\* Every cell of the domain is in the box of some chunk.
LEMMA BoxesCover ==
    ASSUME Typed, Positive, NEW x \in Cells
    PROVE  \E a \in Grid : InBox(x, BoxOf(a))
<1> DEFINE a == [i \in Dims |-> (x[i] - origin[i]) \div chunk[i]]
<1>1. ASSUME NEW i \in Dims
      PROVE  /\ a[i] \in Nat
             /\ a[i] < PerDimension[i]
             /\ a[i] * chunk[i] <= x[i] - origin[i]
             /\ x[i] - origin[i] < a[i] * chunk[i] + chunk[i]
             /\ x[i] \in Int /\ x[i] < origin[i] + shape[i]
  <2>1. /\ origin[i] \in Int /\ shape[i] \in Int /\ chunk[i] \in Int /\ chunk[i] > 0
    BY DEF Typed, Positive
  <2>2. x[i] \in Int /\ origin[i] <= x[i] /\ x[i] < origin[i] + shape[i]
    BY DEF Cells, Typed
  <2>3. x[i] - origin[i] \in Int /\ 0 <= x[i] - origin[i] /\ x[i] - origin[i] < shape[i]
    BY <2>1, <2>2
  <2> QED
    BY <2>1, <2>2, <2>3, ChunkOfOffset DEF PerDimension
<1>2. a \in Grid
  BY <1>1 DEF Grid
<1> HIDE DEF a
<1>3. ASSUME NEW i \in Dims
      PROVE  BoxOf(a).origin[i] <= x[i] /\ x[i] < BoxOf(a).origin[i] + BoxOf(a).shape[i]
  <2>1. /\ origin[i] \in Int /\ shape[i] \in Int /\ chunk[i] \in Int
    BY DEF Typed
  <2>2. a[i] * chunk[i] \in Int
    BY <1>1, <2>1
  <2> DEFINE s == a[i] * chunk[i]
  <2>3. /\ BoxOf(a).origin[i] = origin[i] + s
        /\ BoxOf(a).shape[i] = MinOf(origin[i] + s + chunk[i], origin[i] + shape[i]) - (origin[i] + s)
    BY DEF BoxOf, Start, Stop
  <2>4. s <= x[i] - origin[i] /\ x[i] - origin[i] < s + chunk[i] /\ s \in Int
    BY <1>1, <2>2
  <2> HIDE DEF s
  <2> QED
    BY <1>1, <2>1, <2>3, <2>4 DEF MinOf
<1> QED
  BY <1>2, <1>3 DEF InBox

-----------------------------------------------------------------------------
(* The invariant *)

\* The first dimension-wise facts of a grid that is not empty.
LEMMA ZeroInGrid == ASSUME Typed, Positive PROVE Zero \in Grid
<1>1. ASSUME NEW i \in Dims PROVE PerDimension[i] \in Nat /\ 0 < PerDimension[i]
  BY CeilingBounds DEF Typed, Positive, PerDimension
<1> QED
  BY <1>1 DEF Grid, Zero

LEMMA NextInGrid ==
    ASSUME Typed, Positive, idx \in Grid, NEW k \in Dims, Steps(k)
    PROVE  NextIndex(k) \in Grid
<1>1. ASSUME NEW i \in Dims PROVE PerDimension[i] \in Nat /\ 0 < PerDimension[i]
  BY CeilingBounds DEF Typed, Positive, PerDimension
<1>2. /\ idx \in [Dims -> Nat] /\ \A i \in Dims : idx[i] < PerDimension[i]
      /\ idx[k] + 1 < PerDimension[k] /\ Dims \subseteq Int
  BY DimsType DEF Grid, Steps, CanStep
<1>3. NextIndex(k) \in [Dims -> Nat]
  BY <1>2 DEF NextIndex
<1>4. ASSUME NEW i \in Dims PROVE NextIndex(k)[i] < PerDimension[i]
  BY <1>1, <1>2 DEF NextIndex
<1> QED
  BY <1>3, <1>4 DEF Grid

LEMMA BoxType == ASSUME Typed, NEW a \in [Dims -> Nat]
                 PROVE  BoxOf(a) \in [origin : [Dims -> Int], shape : [Dims -> Int]]
BY DEF BoxOf, Start, Stop, MinOf, Typed

LEMMA InitInvariant == Init => IInv
<1> SUFFICES ASSUME Init PROVE IInv
  OBVIOUS
<1>1. Typed
  <2>1. origin \in [Dims -> Int] /\ shape \in [Dims -> Int] /\ chunk \in [Dims -> Int]
    BY InputsAssumption DEF Init
  <2>2. Zero \in [Dims -> Nat] /\ Zero \in [Dims -> Int]
    BY DEF Zero
  <2> QED
    BY <2>1, <2>2 DEF Init, Typed
<1> QED
  BY <1>1 DEF Init, IInv

LEMMA SameGrid ==
    ASSUME UNCHANGED <<origin, shape, chunk>>
    PROVE  /\ Grid' = Grid /\ (Positive' <=> Positive)
           /\ \A a : BoxOf(a)' = BoxOf(a)
BY DEF Grid, PerDimension, Positive, BoxOf, Start, Stop, MinOf

LEMMA StepInvariant == IInv /\ [Next]_vars => IInv'
<1> SUFFICES ASSUME IInv, [Next]_vars PROVE IInv'
  OBVIOUS
<1>1. CASE NoneNamed \/ Refuse
  BY <1>1 DEF IInv, NoneNamed, Refuse, Typed
<1>2. CASE Project
  <2>1. chunk' \in [Dims -> Int]
    BY <1>2 DEF Project, Projected, IInv, Typed
  <2> QED
    BY <1>2, <2>1 DEF Project, IInv, Typed, Zero
<1>3. CASE Begin
  <2>1. Positive /\ Typed /\ visited = {} /\ idx = Zero
    BY <1>3 DEF Begin, IInv, Positive
  <2>2. Grid' = Grid /\ Positive' /\ \A a : BoxOf(a)' = BoxOf(a)
    BY <1>3, <2>1, SameGrid DEF Begin
  <2>3. box' = BoxOf(idx) /\ idx' = idx /\ visited' = visited /\ pc' = "body"
    BY <1>3 DEF Begin
  <2>4. idx \in Grid
    BY <2>1, ZeroInGrid
  <2>5. Typed'
    <3>1. BoxOf(idx) \in [origin : [Dims -> Int], shape : [Dims -> Int]]
      BY <2>1, BoxType DEF Typed
    <3> QED
      BY <1>3, <2>1, <2>3, <3>1 DEF Typed, Begin
  <2>6. Before(idx)' = {}
    <3>1. SUFFICES ASSUME NEW a \in Grid, AtOrBefore(a, Zero), a # Zero PROVE FALSE
      BY <2>1, <2>2, <2>3 DEF Before, UpTo, AtOrBefore
    <3> QED
      BY <3>1, NothingBeforeZero DEF Grid
  <2>7. visited' = BoxesOf(Before(idx))'
    BY <2>1, <2>3, <2>6 DEF BoxesOf
  <2> QED
    BY <2>2, <2>3, <2>4, <2>5, <2>7 DEF IInv
<1>4. CASE Body
  <2>1. Positive /\ Typed /\ idx \in Grid /\ box = BoxOf(idx) /\ visited = BoxesOf(Before(idx))
    BY <1>4 DEF Body, IInv
  <2>2. Grid' = Grid /\ Positive' /\ \A a : BoxOf(a)' = BoxOf(a)
    BY <1>4, <2>1, SameGrid DEF Body
  <2>3. visited' = visited \cup {BoxOf(idx)} /\ idx' = idx /\ box' = box /\ pc' = "advance"
    BY <1>4, <2>1 DEF Body
  <2>4. Typed'
    BY <1>4, <2>1 DEF Typed, Body
  <2>5. UpTo(idx)' = UpTo(idx)
    BY <2>2, <2>3 DEF UpTo, AtOrBefore
  <2>6. idx \in UpTo(idx)
    BY <2>1, DimsType DEF UpTo, AtOrBefore, Grid
  <2>7. BoxesOf(UpTo(idx)) = BoxesOf(Before(idx)) \cup {BoxOf(idx)}
    BY <2>6 DEF BoxesOf, Before
  <2>8. visited' = BoxesOf(UpTo(idx))'
    BY <2>1, <2>2, <2>3, <2>5, <2>7 DEF BoxesOf
  <2> QED
    BY <2>1, <2>2, <2>3, <2>4, <2>8 DEF IInv
<1>5. ASSUME NEW k \in Dims, Advance(k) PROVE IInv'
  <2>1. Positive /\ Typed /\ idx \in Grid /\ visited = BoxesOf(UpTo(idx)) /\ Steps(k)
    BY <1>5 DEF Advance, IInv
  <2>2. Grid' = Grid /\ Positive' /\ \A a : BoxOf(a)' = BoxOf(a)
    BY <1>5, <2>1, SameGrid DEF Advance
  <2>3. idx' = NextIndex(k) /\ box' = BoxOf(idx') /\ visited' = visited /\ pc' \in {"body", "done"}
    BY <1>5 DEF Advance, AdvanceTo
  <2>4. idx' \in Grid
    BY <2>1, <2>3, NextInGrid
  <2>5. Typed'
    <3>1. idx' \in [Dims -> Nat]
      BY <2>4 DEF Grid
    <3>2. BoxOf(idx') \in [origin : [Dims -> Int], shape : [Dims -> Int]]
      BY <2>1, <3>1, BoxType
    <3> QED
      BY <1>5, <2>1, <2>3, <3>1, <3>2 DEF Typed, Advance
  <2>6. \A a \in Grid : AtOrBefore(a, idx) <=> AtOrBefore(a, NextIndex(k)) /\ a # NextIndex(k)
    BY <2>1, NextIsNext
  <2>7. Before(idx)' = UpTo(idx)
    BY <2>2, <2>3, <2>6 DEF Before, UpTo, AtOrBefore
  <2>8. visited' = BoxesOf(Before(idx))'
    BY <2>1, <2>2, <2>3, <2>7 DEF BoxesOf
  <2> QED
    BY <2>2, <2>3, <2>4, <2>5, <2>8 DEF IInv
<1>6. CASE Wrap
  <2>1. pc' = "done"
    BY <1>6 DEF Wrap, AdvanceTo
  <2>2. Typed'
    BY <1>6 DEF Wrap, IInv, Typed, Zero
  <2> QED
    BY <2>1, <2>2 DEF IInv
<1>7. CASE UNCHANGED vars
  <2>1. /\ Grid' = Grid /\ (Positive' <=> Positive) /\ \A a : BoxOf(a)' = BoxOf(a)
        /\ idx' = idx /\ visited' = visited /\ box' = box /\ pc' = pc
    BY <1>7, SameGrid DEF vars
  <2>2. UpTo(idx)' = UpTo(idx) /\ Before(idx)' = Before(idx)
    BY <2>1 DEF UpTo, Before, AtOrBefore
  <2>3. BoxesOf(UpTo(idx))' = BoxesOf(UpTo(idx)) /\ BoxesOf(Before(idx))' = BoxesOf(Before(idx))
    BY <2>1, <2>2 DEF BoxesOf
  <2>4. Typed'
    BY <1>7 DEF IInv, Typed, vars
  <2> QED
    BY <2>1, <2>3, <2>4 DEF IInv, Zero
<1> QED
  BY <1>1, <1>2, <1>3, <1>4, <1>5, <1>6, <1>7 DEF Next

\* The boxes visited are exactly those of the chunks up to the iterator's.
THEOREM InvariantCorrect == Spec => []IInv
BY InitInvariant, StepInvariant, PTL DEF Spec

-----------------------------------------------------------------------------
(* What it implies *)

\* The body of the loop is never given an index outside the domain, nor an empty
\* box (ChunkIterator::SetBoxForCurrentIndices clamps at the edge).
THEOREM InsideCorrect == Spec => []BoxInside
<1>1. IInv => BoxInside
  <2> SUFFICES ASSUME IInv, pc = "body", NEW i \in Dims
               PROVE  /\ box.shape[i] > 0
                      /\ origin[i] <= box.origin[i]
                      /\ box.origin[i] + box.shape[i] <= origin[i] + shape[i]
    BY DEF BoxInside
  <2>1. Typed /\ Positive /\ idx \in Grid /\ box = BoxOf(idx)
    BY DEF IInv
  <2> QED
    BY <2>1, BoxInDomain
<1> QED
  BY <1>1, InvariantCorrect, PTL

\* The body of the loop is never given a cell of the domain twice.
THEOREM OnceCorrect == Spec => []NoCellTwice
<1>1. IInv => NoCellTwice
  <2> SUFFICES ASSUME IInv, pc = "body", NEW b \in visited, NEW x \in Cells,
                      InBox(x, box), InBox(x, b)
               PROVE  FALSE
    BY DEF NoCellTwice
  <2>1. Typed /\ Positive /\ idx \in Grid /\ box = BoxOf(idx) /\ visited = BoxesOf(Before(idx))
    BY DEF IInv
  <2>2. PICK a \in Grid : b = BoxOf(a) /\ a # idx
    BY <2>1 DEF BoxesOf, Before, UpTo
  <2> QED
    BY <2>1, <2>2, BoxesDisjoint
<1> QED
  BY <1>1, InvariantCorrect, PTL

\* BodyGetsNewCells (Variable::chunks, ChunkIterator): each box given to the body
\* of the loop is inside the domain, not empty, and shares no cell with an earlier one.
THEOREM NewCellsCorrect == Spec => []BodyGetsNewCells
BY InsideCorrect, OnceCorrect, PTL DEF BodyGetsNewCells

\* When no dimension has a chunk left, so that ++it becomes the end iterator, the
\* body was given every cell of the domain.
WrapCovers ==
    pc = "advance" /\ (\A i \in Dims : ~CanStep(i)) =>
        \A x \in Cells : \E b \in visited : InBox(x, b)

THEOREM WrapCorrect == Spec => []WrapCovers
<1>1. IInv => WrapCovers
  <2> SUFFICES ASSUME IInv, pc = "advance", \A i \in Dims : ~CanStep(i), NEW x \in Cells
               PROVE  \E b \in visited : InBox(x, b)
    BY DEF WrapCovers
  <2>1. Typed /\ Positive /\ idx \in Grid /\ visited = BoxesOf(UpTo(idx))
    BY DEF IInv
  <2>2. PICK a \in Grid : InBox(x, BoxOf(a))
    BY <2>1, BoxesCover
  <2>3. ASSUME NEW i \in Dims PROVE ~(a[i] > idx[i])
    <3>1. PerDimension[i] \in Int
      BY <2>1, CeilingBounds DEF PerDimension, Typed, Positive
    <3>2. a[i] \in Nat /\ idx[i] \in Nat /\ a[i] < PerDimension[i] /\ ~(idx[i] + 1 < PerDimension[i])
      BY <2>1 DEF Grid, CanStep
    <3> QED
      BY <3>1, <3>2
  <2>4. a \in UpTo(idx)
    BY <2>3 DEF UpTo, AtOrBefore
  <2> QED
    BY <2>1, <2>2, <2>4 DEF BoxesOf
<1> QED
  BY <1>1, InvariantCorrect, PTL

-----------------------------------------------------------------------------
(* Induction over the dimensions *)

LEMMA Least ==
    ASSUME NEW T, T \subseteq Nat, T # {}
    PROVE  \E x \in T : \A y \in T : x <= y
<1> DEFINE R == {ss \in Nat \X Nat : ss[1] < ss[2]}
<1>1. IsWellFoundedOn(R, Nat)
  BY NatLessThanWellFounded DEF OpToRel
<1>2. PICK x \in T : \A y \in T : ~(<<y, x>> \in R)
  <2> HIDE DEF R
  <2> QED
    BY <1>1, WFMin
<1>3. ASSUME NEW y \in T PROVE x <= y
  <2>1. x \in Nat /\ y \in Nat /\ ~(<<y, x>> \in R)
    BY <1>2
  <2> QED
    BY <2>1
<1> QED
  BY <1>3

\* A set that has 0, and with the predecessor each number up to n.
LEMMA Upwards ==
    ASSUME NEW n \in Nat, NEW T, 0 \in T, \A i \in 1..n : i - 1 \in T => i \in T
    PROVE  \A i \in 0..n : i \in T
<1> DEFINE Bad == (0..n) \ T
<1>1. SUFFICES ASSUME Bad # {} PROVE FALSE
  OBVIOUS
<1>2. PICK x \in Bad : \A y \in Bad : x <= y
  <2> HIDE DEF Bad
  <2>1. Bad \subseteq Nat
    BY DEF Bad
  <2> QED
    BY <1>1, <2>1, Least
<1>3. x \in 1..n /\ x - 1 \in 0..n
  BY <1>2
<1>4. x - 1 \in T
  BY <1>2, <1>3
<1> QED
  BY <1>2, <1>3, <1>4

\* g starts at x and goes on by a product and a sum in each dimension.
Recurs(g, x, f, a) ==
    /\ g \in [0..Rank -> Int] /\ g[0] = x
    /\ \A i \in Dims : g[i] = g[i - 1] * f[i] + a[i]

LEMMA RecurrenceExists ==
    ASSUME NEW f \in [Dims -> Int], NEW a \in [Dims -> Int], NEW x \in Int
    PROVE  \E g : Recurs(g, x, f, a)
<1> USE RankAssumption
<1> DEFINE Part(g, n) == /\ g \in [0..n -> Int] /\ g[0] = x
                         /\ \A i \in 1..n : g[i] = g[i - 1] * f[i] + a[i]
           T == {n \in 0..Rank : \E g : Part(g, n)}
<1>1. 0 \in T
  <2> DEFINE g == [i \in 0..0 |-> x]
  <2>1. Part(g, 0)
    OBVIOUS
  <2> HIDE DEF g
  <2> QED
    BY <2>1
<1>2. ASSUME NEW n \in 1..Rank, n - 1 \in T PROVE n \in T
  <2>1. PICK g : Part(g, n - 1)
    BY <1>2
  <2> DEFINE h == [i \in 0..n |-> IF i = n THEN g[n - 1] * f[n] + a[n] ELSE g[i]]
  <2>2. g[n - 1] \in Int /\ f[n] \in Int /\ a[n] \in Int
    BY <2>1 DEF Dims
  <2>3. h \in [0..n -> Int] /\ h[0] = x
    BY <2>1, <2>2
  <2>4. ASSUME NEW i \in 1..n PROVE h[i] = h[i - 1] * f[i] + a[i]
    <3>1. CASE i = n
      BY <3>1
    <3>2. CASE i # n
      <4>1. i \in 1..(n - 1) /\ i - 1 \in 0..n /\ i - 1 # n /\ i \in 0..n
        BY <3>2
      <4>2. h[i] = g[i] /\ h[i - 1] = g[i - 1]
        BY <3>2, <4>1
      <4> QED
        BY <2>1, <4>1, <4>2
    <3> QED
      BY <3>1, <3>2
  <2>5. Part(h, n)
    BY <2>3, <2>4
  <2> HIDE DEF h, Part
  <2> QED
    BY <2>5
<1>3. Rank \in T
  <2> HIDE DEF T
  <2> QED
    BY <1>1, <1>2, Upwards
<1> QED
  BY <1>3 DEF Recurs, Dims

\* Product(f) is the last of the products of the entries of f.
LEMMA ProductRecurs ==
    ASSUME NEW f \in [Dims -> Int]
    PROVE  \E p : Recurs(p, 1, f, Zero) /\ Product(f) = p[Rank]
<1> USE RankAssumption
<1>1. Zero \in [Dims -> Int]
  BY DEF Zero
<1>2. PICK g : Recurs(g, 1, f, Zero)
  BY <1>1, RecurrenceExists
<1> DEFINE Def(h) == h = [i \in 0..Rank |-> IF i = 0 THEN 1 ELSE h[i - 1] * f[i]]
<1> DEFINE p == CHOOSE h : Def(h)
<1>3. Def(g)
  <2>1. ASSUME NEW i \in 0..Rank PROVE g[i] = IF i = 0 THEN 1 ELSE g[i - 1] * f[i]
    BY <1>2 DEF Recurs, Zero, Dims
  <2>2. g = [i \in 0..Rank |-> g[i]]
    BY <1>2 DEF Recurs
  <2> QED
    BY <2>1, <2>2
<1>4. Def(p)
  BY <1>3
<1>5. Product(f) = p[Rank]
  BY DEF Product
<1> HIDE DEF p
<1>6. /\ DOMAIN p = 0..Rank /\ p[0] = 1
      /\ \A i \in Dims : p[i] = p[i - 1] * f[i]
  BY <1>4 DEF Dims
<1> DEFINE T == {i \in 0..Rank : p[i] \in Int}
<1>7. \A i \in 0..Rank : i \in T
  <2>1. 0 \in T
    BY <1>6
  <2>2. ASSUME NEW i \in 1..Rank, i - 1 \in T PROVE i \in T
    BY <1>6, <2>2 DEF Dims
  <2> HIDE DEF T
  <2> QED
    BY <2>1, <2>2, Upwards
<1>8. p \in [0..Rank -> Int]
  BY <1>4, <1>7
<1>9. \A i \in Dims : p[i] = p[i - 1] * f[i] + Zero[i]
  BY <1>6, <1>8 DEF Zero, Dims
<1> QED
  BY <1>5, <1>6, <1>8, <1>9 DEF Recurs

-----------------------------------------------------------------------------
(* The linear index *)

\* v[Rank] is the row-major number of the chunk with the indices a.
Numbers(v, a) == Recurs(v, 0, PerDimension, a)

LEMMA PerDimensionType ==
    ASSUME Typed, Positive
    PROVE  PerDimension \in [Dims -> Nat \ {0}]
<1>1. ASSUME NEW i \in Dims PROVE (shape[i] + chunk[i] - 1) \div chunk[i] \in Nat \ {0}
  BY CeilingBounds DEF Typed, Positive
<1> QED
  BY <1>1 DEF PerDimension

\* One step of the bound below.
LEMMA DigitBound ==
    ASSUME NEW v \in Int, NEW p \in Int, NEW n \in Nat \ {0}, NEW d \in Nat, 0 <= v, v < p, d < n
    PROVE  0 <= v * n + d /\ v * n + d < p * n
<1>1. v * n <= (p - 1) * n
  BY ProductMonotonic
<1>2. 0 * n <= v * n
  BY ProductMonotonic
<1>3. (p - 1) * n = p * n - n
  OBVIOUS
<1> QED
  BY <1>1, <1>2, <1>3

\* The chunks of the grid have numbers below the number of chunks.
LEMMA NumberBelowTotal ==
    ASSUME Typed, Positive, NEW a \in Grid, NEW v, Numbers(v, a)
    PROVE  v[Rank] \in Nat /\ v[Rank] < Product(PerDimension) /\ Product(PerDimension) \in Nat
<1> USE RankAssumption
<1>1. PerDimension \in [Dims -> Nat \ {0}]
  BY PerDimensionType
<1>2. PICK p : Recurs(p, 1, PerDimension, Zero) /\ Product(PerDimension) = p[Rank]
  BY <1>1, ProductRecurs
<1> DEFINE T == {i \in 0..Rank : 0 <= v[i] /\ v[i] < p[i]}
<1>3. 0 \in T
  BY <1>2 DEF Recurs, Numbers
<1>4. ASSUME NEW i \in 1..Rank, i - 1 \in T PROVE i \in T
  <2>1. v[i - 1] \in Int /\ p[i - 1] \in Int /\ 0 <= v[i - 1] /\ v[i - 1] < p[i - 1]
    BY <1>2, <1>4 DEF Recurs, Numbers
  <2>2. PerDimension[i] \in Nat \ {0} /\ a[i] \in Nat /\ a[i] < PerDimension[i]
    BY <1>1 DEF Grid, Dims
  <2>3. v[i] = v[i - 1] * PerDimension[i] + a[i] /\ p[i] = p[i - 1] * PerDimension[i]
    BY <1>2, <2>1, <2>2 DEF Recurs, Numbers, Dims, Zero
  <2> QED
    BY <2>1, <2>2, <2>3, DigitBound
<1>5. \A i \in 0..Rank : i \in T
  <2> HIDE DEF T
  <2> QED
    BY <1>3, <1>4, Upwards
<1> QED
  BY <1>2, <1>5 DEF Recurs, Numbers

\* The increment gives the next index the next number: the dimensions that start
\* again were at their last chunk.
LEMMA NextNumber ==
    ASSUME Typed, Positive, idx \in Grid, NEW k \in Dims, Steps(k),
           NEW v, Numbers(v, idx), NEW w, Numbers(w, NextIndex(k))
    PROVE  w[Rank] = v[Rank] + 1
<1> USE RankAssumption
<1>1. PerDimension \in [Dims -> Nat \ {0}]
  BY PerDimensionType
<1> DEFINE T == {i \in 0..Rank : w[i] = IF i < k THEN v[i] ELSE v[i] + 1}
<1>2. 0 \in T
  BY DEF Numbers, Recurs, Dims
<1>3. ASSUME NEW i \in 1..Rank, i - 1 \in T PROVE i \in T
  <2>1. /\ v[i - 1] \in Int /\ w[i - 1] \in Int /\ v[i] \in Int
        /\ v[i] = v[i - 1] * PerDimension[i] + idx[i]
        /\ w[i] = w[i - 1] * PerDimension[i] + NextIndex(k)[i]
    BY DEF Numbers, Recurs, Dims
  <2>2. /\ PerDimension[i] \in Nat \ {0} /\ idx[i] \in Nat /\ idx[i] < PerDimension[i]
        /\ k \in 1..Rank
    BY <1>1 DEF Grid, Dims
  <2>3. CASE i < k
    <3>1. NextIndex(k)[i] = idx[i] /\ w[i - 1] = v[i - 1]
      BY <1>3, <2>2, <2>3 DEF NextIndex, Dims
    <3> QED
      BY <2>1, <2>3, <3>1
  <2>4. CASE i = k
    <3>1. NextIndex(k)[i] = idx[i] + 1 /\ w[i - 1] = v[i - 1]
      BY <1>3, <2>2, <2>4 DEF NextIndex, Dims
    <3> QED
      BY <2>1, <2>2, <2>4, <3>1
  <2>5. CASE i > k
    <3>1. NextIndex(k)[i] = 0 /\ w[i - 1] = v[i - 1] + 1
      BY <1>3, <2>2, <2>5 DEF NextIndex, Dims
    <3>2. idx[i] = PerDimension[i] - 1
      BY <2>2, <2>5 DEF Steps, CanStep, Dims
    <3>3. w[i] = (v[i - 1] + 1) * PerDimension[i]
      BY <2>1, <2>2, <3>1
    <3>4. w[i] = v[i - 1] * PerDimension[i] + PerDimension[i]
      BY <2>1, <2>2, <3>3, Distribute
    <3> QED
      BY <2>1, <2>2, <2>5, <3>2, <3>4
  <2> QED
    BY <2>2, <2>3, <2>4, <2>5
<1>4. \A i \in 0..Rank : i \in T
  <2> HIDE DEF T
  <2> QED
    BY <1>2, <1>3, Upwards
<1> QED
  BY <1>4 DEF Dims

\* The linear index is the number of the chunk, and total_chunks_ counts them;
\* so the loop ends by a wrap.
CountInv ==
    /\ TypeOK
    /\ pc \in {"create", "range"} => linear = 0
    /\ pc \in {"body", "advance"} =>
          /\ total = Product(PerDimension)
          /\ \E v : Numbers(v, idx) /\ linear = v[Rank]
    /\ DoneCovers

LEMMA InitCount == Init => CountInv
<1> SUFFICES ASSUME Init PROVE CountInv
  OBVIOUS
<1>1. origin \in [Dims -> Int] /\ shape \in [Dims -> Int] /\ chunk \in [Dims -> Int]
  BY InputsAssumption DEF Init
<1>2. Zero \in [Dims -> Nat] /\ Zero \in [Dims -> Int]
  BY DEF Zero
<1>3. TypeOK
  BY <1>1, <1>2 DEF Init, TypeOK
<1> QED
  BY <1>3 DEF Init, CountInv, DoneCovers

LEMMA StepCount == IInv /\ WrapCovers /\ CountInv /\ [Next]_vars => CountInv'
<1> SUFFICES ASSUME IInv, WrapCovers, CountInv, [Next]_vars PROVE CountInv'
  OBVIOUS
<1>1. TypeOK /\ Typed
  BY DEF CountInv, IInv
<1>2. CASE NoneNamed \/ Refuse
  BY <1>1, <1>2 DEF CountInv, TypeOK, DoneCovers, NoneNamed, Refuse
<1>3. CASE Project
  <2>1. chunk' \in [Dims -> Int]
    BY <1>1, <1>3 DEF Project, Projected, Typed
  <2> QED
    BY <1>1, <1>3, <2>1 DEF Project, CountInv, TypeOK, DoneCovers
<1>4. CASE Begin
  <2>1. Positive /\ idx = Zero /\ linear = 0 /\ total' = Product(PerDimension) /\ pc' = "body"
    BY <1>4 DEF Begin, IInv, Positive, CountInv
  <2>2. Zero \in Grid /\ Zero \in [Dims -> Int] /\ PerDimension \in [Dims -> Int]
    BY <1>1, <2>1, ZeroInGrid, PerDimensionType DEF Zero
  <2>3. PICK v : Numbers(v, idx)
    BY <2>1, <2>2, RecurrenceExists DEF Numbers
  <2>4. total' \in Nat
    BY <1>1, <2>1, <2>2, <2>3, NumberBelowTotal
  <2>5. v[Rank] = 0
    <3> USE RankAssumption
    <3> DEFINE T == {i \in 0..Rank : v[i] = 0}
    <3>1. 0 \in T
      BY <2>3 DEF Numbers, Recurs
    <3>2. ASSUME NEW i \in 1..Rank, i - 1 \in T PROVE i \in T
      <4>1. v[i] = v[i - 1] * PerDimension[i] + 0 /\ PerDimension[i] \in Int /\ v[i - 1] = 0
        BY <2>1, <2>2, <2>3, <3>2 DEF Numbers, Recurs, Zero, Dims
      <4> QED
        BY <4>1
    <3>3. \A i \in 0..Rank : i \in T
      <4> HIDE DEF T
      <4> QED
        BY <3>1, <3>2, Upwards
    <3> QED
      BY <3>3
  <2>6. PerDimension' = PerDimension /\ idx' = idx /\ linear' = linear
    BY <1>4 DEF Begin, PerDimension
  <2>7. /\ Product(PerDimension)' = Product(PerDimension)
        /\ Numbers(v, idx)'
    BY <2>3, <2>6 DEF Product, Numbers, Recurs
  <2>8. box' \in [origin : [Dims -> Int], shape : [Dims -> Int]]
    BY <1>1, <1>4, BoxType DEF Begin, Typed
  <2>9. TypeOK'
    BY <1>1, <1>4, <2>1, <2>4, <2>8 DEF TypeOK, Begin
  <2> QED
    BY <2>1, <2>5, <2>6, <2>7, <2>9 DEF CountInv, DoneCovers
<1>5. CASE Body
  <2>1. PerDimension' = PerDimension /\ UNCHANGED <<idx, linear, total>> /\ pc = "body" /\ pc' = "advance"
    BY <1>5 DEF Body, PerDimension
  <2>2. Product(PerDimension)' = Product(PerDimension) /\ \A v : Numbers(v, idx)' <=> Numbers(v, idx)
    BY <2>1 DEF Product, Numbers, Recurs
  <2>3. TypeOK'
    BY <1>1, <1>5 DEF TypeOK, Body
  <2> QED
    BY <2>1, <2>2, <2>3 DEF CountInv, DoneCovers
<1>6. ASSUME NEW k \in Dims, Advance(k) PROVE CountInv'
  <2>1. /\ Positive /\ idx \in Grid /\ Steps(k) /\ idx' = NextIndex(k) /\ linear' = linear + 1
        /\ PerDimension' = PerDimension /\ total' = total /\ pc' = AdvanceTo(linear')
    BY <1>6 DEF Advance, IInv, PerDimension
  <2>2. PICK v : Numbers(v, idx) /\ linear = v[Rank]
    BY <1>6 DEF Advance, CountInv
  <2>3. idx' \in Grid /\ idx' \in [Dims -> Nat] /\ PerDimension \in [Dims -> Int]
    BY <1>1, <2>1, NextInGrid, PerDimensionType DEF Grid
  <2>4. PICK w : Numbers(w, idx')
    BY <2>3, RecurrenceExists DEF Numbers
  <2>5. w[Rank] = linear'
    BY <1>1, <2>1, <2>2, <2>4, NextNumber
  <2>6. total = Product(PerDimension)
    BY <1>6 DEF Advance, CountInv
  <2>7. linear' \in Nat /\ linear' < total /\ total \in Nat
    BY <1>1, <2>1, <2>3, <2>4, <2>5, <2>6, NumberBelowTotal
  <2>8. pc' = "body"
    BY <2>1, <2>7 DEF AdvanceTo
  <2>9. Product(PerDimension)' = Product(PerDimension) /\ Numbers(w, idx)'
    BY <2>1, <2>4 DEF Product, Numbers, Recurs
  <2>10. box' \in [origin : [Dims -> Int], shape : [Dims -> Int]]
    <3>1. BoxOf(idx') \in [origin : [Dims -> Int], shape : [Dims -> Int]]
      BY <1>1, <2>3, BoxType
    <3> QED
      BY <1>6, <3>1 DEF Advance
  <2>11. TypeOK'
    BY <1>1, <1>6, <2>3, <2>7, <2>8, <2>10 DEF TypeOK, Advance
  <2> QED
    BY <2>1, <2>5, <2>6, <2>8, <2>9, <2>11 DEF CountInv, DoneCovers
<1>7. CASE Wrap
  <2>1. pc' = "done" /\ UNCHANGED <<origin, shape, visited>>
    BY <1>7 DEF Wrap, AdvanceTo
  <2>2. \A x \in Cells : \E b \in visited : InBox(x, b)
    BY <1>7 DEF Wrap, WrapCovers
  <2>3. Cells' = Cells
    BY <2>1 DEF Cells
  <2>4. DoneCovers'
    BY <2>1, <2>2, <2>3 DEF DoneCovers, InBox
  <2>5. TypeOK'
    BY <1>1, <1>7, <2>1 DEF TypeOK, Wrap, Zero
  <2> QED
    BY <2>1, <2>4, <2>5 DEF CountInv
<1>8. CASE UNCHANGED vars
  <2>1. PerDimension' = PerDimension /\ UNCHANGED <<idx, linear, total, pc>>
    BY <1>8 DEF vars, PerDimension
  <2>2. Product(PerDimension)' = Product(PerDimension) /\ \A v : Numbers(v, idx)' <=> Numbers(v, idx)
    BY <2>1 DEF Product, Numbers, Recurs
  <2>3. TypeOK'
    BY <1>1, <1>8 DEF TypeOK, vars
  <2>4. DoneCovers'
    BY <1>8 DEF vars, DoneCovers, CountInv, Cells, InBox
  <2> QED
    BY <2>1, <2>2, <2>3, <2>4 DEF CountInv
<1> QED
  BY <1>2, <1>3, <1>4, <1>5, <1>6, <1>7, <1>8 DEF Next

LEMMA CountCorrect == Spec => []CountInv
BY InitCount, StepCount, InvariantCorrect, WrapCorrect, PTL DEF Spec

\* Every state of the loop is well typed: the linear index and total_chunks_ are
\* natural numbers.
THEOREM TypeCorrect == Spec => []TypeOK
<1>1. CountInv => TypeOK
  BY DEF CountInv
<1> QED
  BY <1>1, CountCorrect, PTL

\* A loop over a ChunkRange that ends, which it does where the linear index equals
\* total_chunks_, has given its body every cell of the domain.
THEOREM DoneCorrect == Spec => []DoneCovers
<1>1. CountInv => DoneCovers
  BY DEF CountInv
<1> QED
  BY <1>1, CountCorrect, PTL

=============================================================================
