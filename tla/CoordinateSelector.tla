------------------------- MODULE CoordinateSelector -------------------------
(***************************************************************************)
(* CoordinateSelector (coordinate_selector.h): filters of a coordinate of  *)
(* several dimensions kept as runs, each a box of the dataset; runs sorted *)
(* by a key; variables read run after run through Dataset::isel.           *)
(*                                                                         *)
(* The coordinates span the first Rank dimensions. The dataset is whole,   *)
(* so its indices are the positions of the arrays; a cell of a variable is *)
(* a function from its dimensions to indices, and what is read is known by *)
(* the sequence of cells.                                                  *)
(***************************************************************************)
EXTENDS Slicing, FiniteSetsExt, Functions

CONSTANTS
    Shape,        \* the size of each dimension, a sequence
    Rank,         \* the dimensions of the coordinates are 1..Rank
    Coordinates,  \* the names of the coordinates
    Contents,     \* the data explored: coordinate -> cell number -> value
    Values,       \* the values filtered for
    Rewrites,     \* what a program writes over them
    Limit         \* bound: filters and sorts, reads, and writes and resets

CoordDims == 1..Rank

ASSUME ShapeAssumption == Shape \in [Dims -> Nat \ {0}] /\ Rank \in Dims
ASSUME ValuesAssumption == Values \subseteq Int
ASSUME RewritesAssumption == Rewrites \subseteq Contents
ASSUME CoordinatesAssumption == CoordDims \in Variables
ASSUME LimitAssumption == Limit \in [{"ops", "reads", "writes"} -> Nat]

VARIABLES
    stored,    \* coordinate -> its data in the store
    kept,      \* kept_runs_: a sequence of runs, each a sequence of descriptors
    cache,     \* cached_variables_: coordinate -> the data that was read, or Unread
    filters,   \* observer: the filters that succeeded since kept was empty
    keys,      \* observer: the coordinates the runs were sorted by since then
    answer,    \* the last call, if it was a read: did it succeed, what it read
    used       \* how much of each bound is used

vars == <<stored, kept, cache, filters, keys, answer, used>>

Whole == [v \in Variables |->
            [d \in v |-> [origin |-> 0, cells |-> [i \in 1..Shape[d] |-> i - 1]]]]

-----------------------------------------------------------------------------
(* Row-major order *)

\* The cells of v for one step of dimension d; in all, for d = 0.
Stride(v, d) == FoldFunctionOnSet(LAMBDA a, b : a * b, 1, Shape, {e \in v : e > d})

\* What is stored of a coordinate has a value for each of its cells.
ASSUME ContentsAssumption ==
    \A c \in Contents : /\ DOMAIN c = Coordinates
                        /\ \A n \in Coordinates : c[n] \in [1..Stride(CoordDims, 0) -> Int]

\* The cells of each variable: a cell maps each dimension to a position.
AllCells ==
    [v \in Variables |->
        [n \in 1..Stride(v, 0) |->
            [d \in v |-> ((n - 1) \div Stride(v, d)) % Shape[d]]]]

\* Those of a contiguous part of the dataset, in the same order.
CellSeq(w, v) ==
    LET Within(c) == \A d \in v : w[v][d].origin <= c[d] /\ c[d] < Upper(w[v][d])
        at == Sorted({n \in DOMAIN AllCells[v] : Within(AllCells[v][n])})
    IN  [k \in DOMAIN at |-> AllCells[v][at[k]]]

\* A coordinate's value at a cell of any variable that has its dimensions.
ValueAt(data, cell) ==
    data[1 + MapThenSumSet(LAMBDA d : cell[d] * Stride(CoordDims, d), CoordDims)]

Unread == <<>>

NoAnswer == [ok |-> FALSE, var |-> {}, cells |-> <<>>]

Init ==
    /\ stored \in Contents
    /\ kept = <<>> /\ cache = [c \in Coordinates |-> Unread]
    /\ filters = <<>> /\ keys = <<>> /\ answer = NoAnswer
    /\ used = [what \in DOMAIN Limit |-> 0]

-----------------------------------------------------------------------------
(* Filters *)

\* The maximal runs <<first, last>> of the samples that match.
MatchRuns(matches) ==
    LET Starts == {i \in matches : i - 1 \notin matches}
        End(i) == Max({j \in matches : i..j \subseteq matches})
    IN  InOrder({<<i, End(i)>> : i \in Starts}, LAMBDA r, t : r[1] < t[1])

\* (mutant: a run ends at the number of its last sample in every dimension)
RunOfNumbers(cells, r) == [d \in CoordDims |-> Descriptor(d, cells[r[1]][d], r[2])]

\* (mutant: the end taken one sample late, where the odometer stands by then)
RunOfLate(cells, r) ==
    [d \in CoordDims |->
        Descriptor(d, cells[r[1]][d],
                   IF r[2] = Len(cells) THEN Shape[d] ELSE cells[r[2] + 1][d] + 1)]

\* The box of a run: from where it starts to where it ends, in each dimension
\* by itself. The end of a run that reaches the last sample is never set: it
\* keeps the end of every dimension.
RunOf(cells, r) ==
    [d \in CoordDims |->
        Descriptor(d, cells[r[1]][d],
                   IF r[2] = Len(cells) THEN Shape[d] ELSE cells[r[2]][d] + 1)]

\* The data a filter of an empty selection looks at: it is read once for all.
Cached(c) == IF cache[c] = Unread THEN stored[c] ELSE cache[c]

\* _init_runs. When nothing matches, the cache keeps what was read.
InitRuns(c, x) ==
    LET data == Cached(c)
        runs == MatchRuns({n \in DOMAIN data : data[n] = x})
    IN  /\ kept = <<>>
        /\ cache' = [cache EXCEPT ![c] = data]
        /\ kept' = [k \in DOMAIN runs |-> RunOf(AllCells[CoordDims], runs[k])]
        /\ filters' = IF runs = <<>> THEN <<>> ELSE <<[by |-> c, value |-> x]>>

Box(run) == IselVector(Whole, run)

\* current_pos is copied from intervals, which was moved from and is empty: a
\* run found by a further filter has no descriptor.
NewRun(cells, r) == <<>>

\* What a further filter finds inside a run, where it reads the coordinate.
RunsInside(run, c, x) ==
    LET cells == CellSeq(Box(run).view, CoordDims)
        found == MatchRuns({n \in DOMAIN cells : ValueAt(stored[c], cells[n]) = x})
    IN  [j \in DOMAIN found |-> NewRun(cells, found[j])]

\* _add_new_run. A run no slice can be made of, or nothing found, is an error.
AddNewRun(c, x) ==
    /\ kept # <<>>
    /\ LET ok   == \A k \in DOMAIN kept : Box(kept[k]).ok
           runs == IF ok THEN FlattenSeq([k \in DOMAIN kept |-> RunsInside(kept[k], c, x)])
                   ELSE <<>>
       IN  IF runs # <<>>
           THEN kept' = runs /\ filters' = Append(filters, [by |-> c, value |-> x])
           ELSE UNCHANGED <<kept, filters>>
    /\ UNCHANGED cache

Count(what) ==
    /\ used[what] < Limit[what]
    /\ used' = [used EXCEPT ![what] = @ + 1]

FilterByCoordinate == \E c \in Coordinates, x \in Values :
    /\ Count("ops")
    /\ InitRuns(c, x) \/ AddNewRun(c, x)
    /\ answer' = NoAnswer
    /\ UNCHANGED <<stored, keys>>

-----------------------------------------------------------------------------
(* Sorting and reading *)

\* The key of a run is that of its first cell.
KeyOf(c, run) == ValueAt(stored[c], CellSeq(Box(run).view, CoordDims)[1])

\* (mutant: runs of equal keys in reverse)
StableReversed(key) ==
    InOrder(DOMAIN key, LAMBDA i, j : key[i] < key[j] \/ (key[i] = key[j] /\ i > j))

\* std::stable_sort of the runs.
StableSort(key) ==
    InOrder(DOMAIN key, LAMBDA i, j : key[i] < key[j] \/ (key[i] = key[j] /\ i < j))

\* The first cell of a run without cells is outside the buffer: the model
\* takes an error for what is undefined.
HasCells(run) == Box(run).ok /\ CellSeq(Box(run).view, CoordDims) # <<>>

SortSelectionByKey == \E c \in Coordinates :
    /\ Count("ops")
    /\ \A k \in DOMAIN kept : HasCells(kept[k])
    /\ LET order == StableSort([k \in DOMAIN kept |-> KeyOf(c, kept[k])])
       IN  kept' = [k \in DOMAIN order |-> kept[order[k]]]
    /\ keys' = IF kept = <<>> THEN keys ELSE Append(keys, c)
    /\ answer' = NoAnswer
    /\ UNCHANGED <<stored, cache, filters>>

\* A variable of one dimension is read for the first run alone.
RunsRead(v) == IF Cardinality(v) = 1 /\ kept # <<>> THEN <<kept[1]>> ELSE kept

ReadSelection == \E v \in Variables :
    /\ Count("reads")
    /\ LET runs == RunsRead(v)
           ok   == \A k \in DOMAIN runs : Box(runs[k]).ok
       IN  answer' = [ok    |-> ok, var |-> v,
                      cells |-> IF ok
                                THEN FlattenSeq([k \in DOMAIN runs |-> CellSeq(Box(runs[k]).view, v)])
                                ELSE <<>>]
    /\ UNCHANGED <<stored, kept, cache, filters, keys>>

\* reset() forgets the runs and keeps the cache.
Reset ==
    /\ kept # <<>> /\ Count("writes")
    /\ kept' = <<>> /\ filters' = <<>> /\ keys' = <<>> /\ answer' = NoAnswer
    /\ UNCHANGED <<stored, cache>>

\* The program writes to the coordinates through the dataset.
WriteCoordinates ==
    /\ Count("writes")
    /\ stored' \in Rewrites
    /\ answer' = NoAnswer
    /\ UNCHANGED <<kept, cache, filters, keys>>

\* ReadDataVariables is filters and sorts, in any order, and then reads; it
\* stops at the first error, where the caller here may go on.
Next == FilterByCoordinate \/ SortSelectionByKey \/ ReadSelection \/ Reset \/ WriteCoordinates

Spec == Init /\ [][Next]_vars

-----------------------------------------------------------------------------
(* Properties *)

TypeOK ==
    /\ stored \in Contents
    /\ \A k \in DOMAIN kept : kept[k] = <<>> \/
         /\ DOMAIN kept[k] = CoordDims
         /\ \A d \in CoordDims : /\ kept[k][d].label = d
                                 /\ kept[k][d].start \in 0..Shape[d]
                                 /\ kept[k][d].stop \in 0..Shape[d]
    /\ \A c \in Coordinates : cache[c] = Unread \/ cache[c] \in {s[c] : s \in Contents}
    /\ answer.ok \in BOOLEAN /\ answer.var \in Variables \cup {{}}
    /\ \A i \in DOMAIN answer.cells : answer.cells[i] \in ToSet(AllCells[answer.var])

\* The cells of the coordinates that pass the first n filters, by what is stored.
Matching(n) ==
    {c \in ToSet(AllCells[CoordDims]) :
        \A i \in 1..n : ValueAt(stored[filters[i].by], c) = filters[i].value}

\* A set of cells that is the product of its projections, each an interval.
IsHyperRectangle(cells) ==
    LET Side(d) == {c[d] : c \in cells}
    IN  /\ \A d \in CoordDims : Side(d) = Min(Side(d))..Max(Side(d))
        /\ cells = {c \in ToSet(AllCells[CoordDims]) : \A d \in CoordDims : c[d] \in Side(d)}

\* The class's condition for the first filter, and nothing written under it.
Supported ==
    /\ filters # <<>> /\ IsHyperRectangle(Matching(1))
    /\ \A c \in Coordinates : cache[c] \in {Unread, stored[c]}

Selected(v) == {c \in ToSet(AllCells[v]) : Restrict(c, CoordDims) \in Matching(Len(filters))}

\* However often the selection is filtered again, a read that succeeds never
\* gives a sample that fails one of the filters. With one filter, whose matches
\* form a hyper-rectangle as the class asks, it gives each sample of the
\* matching cells, and each once, also after sorts; a variable of one dimension
\* that is none of the coordinate's is read once, however many runs there are.
MatchesReadOnce ==
    (answer.ok /\ Supported) =>
        LET spans  == CoordDims \subseteq answer.var
            wanted == IF spans THEN Selected(answer.var) ELSE ToSet(AllCells[answer.var])
            apart  == Cardinality(answer.var) = 1 /\ answer.var \cap CoordDims = {}
        IN  /\ spans => ToSet(answer.cells) \subseteq wanted
            /\ (Len(filters) = 1 /\ (spans \/ apart)) =>
                  ToSet(answer.cells) = wanted /\ Len(answer.cells) = Cardinality(wanted)

FirstCell(run) == [d \in CoordDims |-> run[d].start]

KeyBefore(a, b) ==
    LET k(n, run) == ValueAt(stored[keys[n]], FirstCell(run))
        Same(n) == \A m \in n..Len(keys) : k(m, a) = k(m, b)
        Stored == \E d \in CoordDims : /\ a[d].start < b[d].start
                                       /\ \A e \in 1..(d - 1) : a[e].start = b[e].start
    IN  \/ \E n \in DOMAIN keys : k(n, a) < k(n, b) /\ Same(n + 1)
        \/ Same(1) /\ Stored

\* The runs are in the order of the last sort, among equal keys in the order of
\* the sort before it, and so on to the order in which they are stored: the
\* runs of one filter are disjoint, and each starts where its first cell is.
RunsInKeyOrder ==
    (Supported /\ Len(filters) = 1 /\ used.writes = 0) =>
        \A i, j \in DOMAIN kept : i < j => KeyBefore(kept[i], kept[j])

=============================================================================
