----------------------------- MODULE ChunkGrid -----------------------------
(***************************************************************************)
(* Variable::chunks() and chunks(dims) (variable.h) and the range they     *)
(* return, in the loop it is made for (chunk_iterator.h):                  *)
(*                                                                         *)
(*     for (const auto& chunk : chunks) { ... }                            *)
(*                                                                         *)
(* The sums and products of the code are taken to fit an Index.            *)
(***************************************************************************)
EXTENDS Integers, FiniteSets

CONSTANTS
    Rank,          \* dimensions of the domain
    Origins,       \* origins a dimension may have (a slice keeps its own)
    Sizes,         \* sizes a dimension may have
    ChunkSizes     \* chunk sizes the store may give for a dimension

ASSUME RankAssumption   == Rank \in Nat
ASSUME InputsAssumption ==
    Origins \subseteq Int /\ Sizes \subseteq Int /\ ChunkSizes \subseteq Int

Dims == 1..Rank

VARIABLES
    origin, shape,   \* the domain: dimension -> first index, size
    chunk,           \* dimension -> chunk size, projected on the named ones
    idx,             \* current_indices_
    linear,          \* linear_index_
    total,           \* total_chunks_
    box,             \* box_: its origin and its shape
    pc,              \* "create", "range", "body", "advance", "done" or "invalid"
    named,           \* the dimensions the grid is projected on
    visited          \* observer: the boxes the body of the loop was given

vars == <<origin, shape, chunk, idx, linear, total, box, pc, named, visited>>

-----------------------------------------------------------------------------
(* The arithmetic of the grid *)

MinOf(x, y) == IF x <= y THEN x ELSE y

FloorPerDimension == [i \in Dims |-> IF shape[i] < chunk[i] THEN 1 ELSE shape[i] \div chunk[i]]

\* chunks_per_dimension_: ceil(shape / chunk).
PerDimension == [i \in Dims |-> (shape[i] + chunk[i] - 1) \div chunk[i]]

\* The product of the entries of a function on Dims.
Product(f) ==
    LET upTo[i \in 0..Rank] == IF i = 0 THEN 1 ELSE upTo[i - 1] * f[i]
    IN  upTo[Rank]

Start(a, i) == origin[i] + a[i] * chunk[i]
Stop(a, i)  == MinOf(Start(a, i) + chunk[i], origin[i] + shape[i])
\* The box of chunk a, clamped at the edge of the domain.
BoxOf(a) == [origin |-> [i \in Dims |-> Start(a, i)],
             shape  |-> [i \in Dims |-> Stop(a, i) - Start(a, i)]]

-----------------------------------------------------------------------------
Zero == [i \in Dims |-> 0]

Init ==
    /\ origin \in [Dims -> Origins]
    /\ shape \in [Dims -> Sizes]
    /\ chunk \in [Dims -> ChunkSizes]
    /\ named \in SUBSET Dims
    /\ idx = Zero /\ linear = 0 /\ total = 0
    /\ box = [origin |-> Zero, shape |-> Zero]
    /\ pc = "create" /\ visited = {}

\* chunks() is the grid over all dimensions; chunks(dims) covers those it does
\* not name at full extent.
Projected(names) == [i \in Dims |-> IF i \in names THEN chunk[i] ELSE shape[i]]

\* chunks(dims) refuses to name no dimension; here chunks() names them all. (A
\* dimension named twice or unknown, and a chunk shape of another rank, are
\* refused before anything is built and not modelled.)
NoneNamed ==
    /\ pc = "create"
    /\ named = {} /\ Dims # {}
    /\ pc' = "invalid"
    /\ UNCHANGED <<origin, shape, chunk, idx, linear, total, box, named, visited>>

Project ==
    /\ pc = "create"
    /\ named # {} \/ Dims = {}
    /\ chunk' = Projected(named)
    /\ pc' = "range"
    /\ UNCHANGED <<origin, shape, idx, linear, total, box, named, visited>>

\* ChunkRange::Create refuses sizes that are not positive ...
Refuse ==
    /\ pc = "range"
    /\ \E i \in Dims : shape[i] <= 0 \/ chunk[i] <= 0
    /\ pc' = "invalid"
    /\ UNCHANGED <<origin, shape, chunk, idx, linear, total, box, named, visited>>

\* ... and begin() is at the first chunk. There always is one, so that the
\* loop's first test against end() passes.
Begin ==
    /\ pc = "range"
    /\ \A i \in Dims : shape[i] > 0 /\ chunk[i] > 0
    /\ total' = Product(PerDimension)
    /\ box' = BoxOf(idx)
    /\ pc' = "body"
    /\ UNCHANGED <<origin, shape, chunk, idx, linear, named, visited>>

\* The loop's body is given *it.
Body ==
    /\ pc = "body"
    /\ visited' = visited \cup {box}
    /\ pc' = "advance"
    /\ UNCHANGED <<origin, shape, chunk, idx, linear, total, box, named>>

\* The dimension that is incremented: the last one with a chunk left.
CanStep(i) == idx[i] + 1 < PerDimension[i]
Steps(k) == CanStep(k) /\ \A j \in Dims : j > k => ~CanStep(j)

NextIndexBefore(k) == [i \in Dims |-> IF i < k THEN idx[i] ELSE IF i = k THEN idx[i] + 1 ELSE -1]
NextIndexOfOne(k) == [i \in Dims |-> IF i = k THEN idx[i] + 1 ELSE 0]

\* Those behind it start again.
NextIndex(k) == [i \in Dims |-> IF i < k THEN idx[i] ELSE IF i = k THEN idx[i] + 1 ELSE 0]

AdvanceNever(l) == "body"

\* ++it, then it != end(), which compares the linear indices.
AdvanceTo(l) == IF l = total THEN "done" ELSE "body"

Advance(k) ==
    /\ pc = "advance" /\ Steps(k)
    /\ idx' = NextIndex(k)
    /\ linear' = linear + 1
    /\ box' = BoxOf(idx')
    /\ pc' = AdvanceTo(linear')
    /\ UNCHANGED <<origin, shape, chunk, total, named, visited>>

\* Past the last chunk: box_ stays what it was.
Wrap ==
    /\ pc = "advance" /\ \A i \in Dims : ~CanStep(i)
    /\ idx' = Zero
    /\ linear' = total
    /\ pc' = AdvanceTo(linear')
    /\ UNCHANGED <<origin, shape, chunk, total, box, named, visited>>

Next == NoneNamed \/ Project \/ Refuse \/ Begin \/ Body \/ (\E k \in Dims : Advance(k)) \/ Wrap

Spec == Init /\ [][Next]_vars /\ WF_vars(Next)

-----------------------------------------------------------------------------
(* Properties *)

\* The cells of the domain, and those of a box.
Cells ==
    {x \in [Dims -> UNION {origin[i] .. (origin[i] + shape[i] - 1) : i \in Dims}] :
        \A i \in Dims : origin[i] <= x[i] /\ x[i] < origin[i] + shape[i]}

InBox(x, b) == \A i \in Dims : b.origin[i] <= x[i] /\ x[i] < b.origin[i] + b.shape[i]

\* Every variable has a value of its kind.
TypeOK ==
    /\ origin \in [Dims -> Int] /\ shape \in [Dims -> Int] /\ chunk \in [Dims -> Int]
    /\ idx \in [Dims -> Nat] /\ linear \in Nat /\ total \in Nat
    /\ box \in [origin : [Dims -> Int], shape : [Dims -> Int]]
    /\ pc \in {"create", "range", "body", "advance", "done", "invalid"}
    /\ named \in SUBSET Dims
    /\ visited \subseteq [origin : [Dims -> Int], shape : [Dims -> Int]]

\* The loop never sees an index outside the domain, nor an empty box
\* (chunk_iterator.h: "no index ever falls outside the domain").
BoxInside ==
    pc = "body" =>
        \A i \in Dims :
            /\ box.shape[i] > 0
            /\ origin[i] <= box.origin[i]
            /\ box.origin[i] + box.shape[i] <= origin[i] + shape[i]

\* No cell is given to the body twice: the box it is about to be given has no
\* cell in common with those it was given.
NoCellTwice ==
    pc = "body" => \A b \in visited, x \in Cells : ~(InBox(x, box) /\ InBox(x, b))

\* What the body is given is inside and new.
BodyGetsNewCells == BoxInside /\ NoCellTwice

\* When the loop ends, the body was given every cell of the domain.
DoneCovers ==
    pc = "done" => \A x \in Cells : \E b \in visited : InBox(x, b)

\* The loop ends.
Terminates == <>(pc \in {"done", "invalid"})

=============================================================================
