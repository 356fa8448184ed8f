----------------------------- MODULE StatsMerge -----------------------------
(***************************************************************************)
(* The statistics of a variable: ComputeStats (variable.h), which turns    *)
(* samples into a statsV1, and MergeStats (stats.h), which combines the    *)
(* statsV1 of parts of the variable that distributed callers computed, in  *)
(* whatever order they arrive.                                             *)
(*                                                                         *)
(* Samples are integers, and bin centers are integers in units of          *)
(* 1 / (2 * BinCount), in which default centers are exact: the rounding of *)
(* float32 is left out, its range is MaxFloat. sumSquares is left out: it  *)
(* is accumulated, checked and merged as sum is.                           *)
(***************************************************************************)
EXTENDS Integers, Sequences, FiniteSets, FiniteSetsExt

CONSTANTS
    Cells,        \* the positions of the variable
    Parts,        \* the callers, each with a part of the positions
    Values,       \* the samples: integers
    NaN,          \* a missing sample
    Centers,      \* the bin centers callers agree on, as samples
    BinCount,     \* kDefaultHistogramBinCount
    MaxCount,     \* the largest int32
    MaxFloat,     \* the largest float32
    Modes         \* how a caller bins: see Histogram

ASSUME SamplesAssumption == Values \subseteq Int /\ NaN \notin Values /\ IsFiniteSet(Cells)
ASSUME CentersAssumption ==
    /\ Centers \in Seq(Int) /\ Centers # <<>>
    /\ \A i \in 1..(Len(Centers) - 1) : Centers[i] < Centers[i + 1]
ASSUME LimitsAssumption  == BinCount \in Nat \ {0} /\ MaxCount \in Nat /\ MaxFloat \in Nat
ASSUME ModesAssumption   == Modes \subseteq {"centers", "default", "edges", "none"}

VARIABLES
    data,      \* position -> sample
    owner,     \* position -> the caller that has it
    mode,      \* caller -> how it bins
    todo,      \* the partials MergeStats has not seen yet
    acc,       \* the locals of MergeStats
    outcome    \* "merging", "ok" or "error"

vars == <<data, owner, mode, todo, acc, outcome>>

-----------------------------------------------------------------------------
(* ComputeStats *)

Scaled(x) == 2 * BinCount * x

\* Midpoints of neighbours, in units of 1 / (4 * BinCount).
BinUpperEdges(centers) == [i \in 1..(Len(centers) - 1) |-> centers[i] + centers[i + 1]]

\* As if a sample on an edge stayed in the lower bin.
BinIndexBelow(x, edges) == 1 + Cardinality({i \in DOMAIN edges : edges[i] < 2 * Scaled(x)})

\* std::upper_bound: a sample on an edge goes to the higher bin.
BinIndexForValue(x, edges) == 1 + Cardinality({i \in DOMAIN edges : edges[i] <= 2 * Scaled(x)})

UniformBinCenters(lo, hi) == [i \in 1..BinCount |-> Scaled(lo) + (2 * i - 1) * (hi - lo)]

\* Missing samples are no samples.
Samples(cells) == {c \in cells : data[c] # NaN}

CountsOf(cells, centers) ==
    LET edges == BinUpperEdges(centers)
    IN  [i \in DOMAIN centers |-> Cardinality({c \in cells : BinIndexForValue(data[c], edges) = i})]

NoHistogram == [kind |-> "centers", bins |-> <<>>, counts |-> <<>>]

\* The explicit centers; centers derived from the range of the samples, a
\* single one if they are all equal; a histogram with edges another program
\* made; and none, as mdio-python has it.
Histogram(cells, how) ==
    LET lo   == Min({data[c] : c \in cells})
        hi   == Max({data[c] : c \in cells})
        bins == CASE how = "default" /\ lo = hi -> <<Scaled(lo)>>
                  [] how = "default" /\ lo # hi -> UniformBinCenters(lo, hi)
                  [] OTHER -> [i \in DOMAIN Centers |-> Scaled(Centers[i])]
    IN  IF how = "none" THEN NoHistogram
        ELSE [kind |-> IF how = "edges" THEN "edges" ELSE "centers", bins |-> bins,
              counts |-> CountsOf(cells, bins)]

Empty == [count |-> 0, sum |-> 0, min |-> 0, max |-> 0, histogram |-> NoHistogram]

\* The statsV1 of a set of positions.
ComputeStats(positions, how) ==
    LET cells == Samples(positions)
    IN  IF cells = {} THEN Empty
        ELSE [count |-> Cardinality(cells), sum |-> MapThenSumSet(LAMBDA c : data[c], cells),
              min |-> Min({data[c] : c \in cells}), max |-> Max({data[c] : c \in cells}),
              histogram |-> Histogram(cells, how)]

\* CheckedFloat of the sum, and the int32 of the count.
Fits(stats) == stats.count <= MaxCount /\ stats.sum \in -MaxFloat..MaxFloat

PositionsOf(p) == {c \in Cells : owner[c] = p}

Partial(p) == ComputeStats(PositionsOf(p), mode[p])

-----------------------------------------------------------------------------
(* MergeStats *)

Begin == [stats |-> Empty, haveHistogram |-> FALSE]

\* No caller failed to compute its partial. One without samples adds an empty
\* partial, which stands for one that adds none.
Init ==
    /\ data \in [Cells -> Values \cup {NaN}] /\ owner \in [Cells -> Parts]
    /\ mode \in [Parts -> Modes]
    /\ todo = Parts /\ \A p \in Parts : Fits(Partial(p))
    /\ acc = Begin /\ outcome = "merging"

\* The zeroes of an empty partial taken for samples.
IsNeutralNever(s) == FALSE

IsNeutral(s) == s.count = 0

SkipNeutral(p) ==
    /\ IsNeutral(Partial(p))
    /\ UNCHANGED <<acc, outcome>>

FoldScalars(a, s) ==
    LET first == a.count = 0 IN
    [count |-> a.count + s.count, sum |-> a.sum + s.sum,
     min |-> IF first \/ s.min < a.min THEN s.min ELSE a.min,
     max |-> IF first \/ s.max > a.max THEN s.max ELSE a.max,
     histogram |-> a.histogram]

\* A partial without a histogram after one that has one is an error.
FoldBare(p) ==
    LET s == Partial(p) IN
    /\ ~IsNeutral(s) /\ s.histogram.bins = <<>>
    /\ acc' = [acc EXCEPT !.stats = FoldScalars(@, s)]
    /\ outcome' = IF acc.haveHistogram THEN "error" ELSE outcome

\* The first histogram is the reference.
FoldFirstHistogram(p) ==
    LET s == Partial(p) IN
    /\ ~IsNeutral(s) /\ s.histogram.bins # <<>> /\ ~acc.haveHistogram
    /\ acc' = [stats |-> [FoldScalars(acc.stats, s) EXCEPT !.histogram = s.histogram],
               haveHistogram |-> TRUE]
    /\ UNCHANGED outcome

\* Histograms with as many bins.
SameLength(h, g) == Len(h.bins) = Len(g.bins)

SameBinning(h, g) == h.kind = g.kind /\ h.bins = g.bins

AddCounts(h, g) == [h EXCEPT !.counts = [i \in DOMAIN h.counts |-> h.counts[i] + g.counts[i]]]

FoldHistogram(p) ==
    LET s == Partial(p)
        reference == acc.stats.histogram
    IN
    /\ ~IsNeutral(s) /\ s.histogram.bins # <<>> /\ acc.haveHistogram
    /\ IF SameBinning(s.histogram, reference)
       THEN /\ acc' = [acc EXCEPT !.stats = [FoldScalars(acc.stats, s) EXCEPT
                                               !.histogram = AddCounts(reference, s.histogram)]]
            /\ UNCHANGED outcome
       ELSE /\ acc' = [acc EXCEPT !.stats = FoldScalars(@, s)]
            /\ outcome' = "error"

MergePartial(p) ==
    /\ outcome = "merging" /\ p \in todo
    /\ todo' = todo \ {p}
    /\ SkipNeutral(p) \/ FoldBare(p) \/ FoldFirstHistogram(p) \/ FoldHistogram(p)
    /\ UNCHANGED <<data, owner, mode>>

\* The total is checked only at the end, where 64 bits still hold it.
Finish ==
    /\ outcome = "merging" /\ todo = {}
    /\ outcome' = IF Fits(acc.stats) THEN "ok" ELSE "error"
    /\ UNCHANGED <<data, owner, mode, todo, acc>>

Next == (\E p \in Parts : MergePartial(p)) \/ Finish

Spec == Init /\ [][Next]_vars

-----------------------------------------------------------------------------
(* Properties *)

Scalars(s) == <<s.count, s.sum, s.min, s.max>>

HasHistogram(p) == Samples(PositionsOf(p)) # {} /\ mode[p] # "none"

SameBins(p, q) ==
    LET h == Partial(p).histogram
        g == Partial(q).histogram
    IN  h.kind = g.kind /\ h.bins = g.bins

\* What MergeStats returns is about the whole variable, in any order of the
\* partials, with empty partials and missing samples among them: count, sum,
\* min and max are what ComputeStats returns for it and fit their fields;
\* histograms were added only where each partial means the same by a bin, and
\* every sample of a partial with a histogram is in one bin of the merged one.
MergeIsWhole ==
    outcome = "ok" =>
        /\ Scalars(acc.stats) = Scalars(ComputeStats(Cells, "none"))
        /\ Fits(acc.stats)
        /\ \A p, q \in {r \in Parts : HasHistogram(r)} : SameBins(p, q)
        /\ MapThenSumSet(LAMBDA i : acc.stats.histogram.counts[i], DOMAIN acc.stats.histogram.counts)
             = Cardinality({c \in Samples(Cells) : mode[owner[c]] # "none"})

\* Callers that agree on bin centers get the histogram of the whole variable,
\* and an error only if a total does not fit ("partials computed with the same
\* explicit bin centers can be combined with MergeStats", stats.h:962).
AgreedCentersMerge ==
    (\A p \in Parts : mode[p] = "centers") /\ outcome # "merging" =>
        LET whole == ComputeStats(Cells, "centers")
        IN  IF Fits(whole) THEN outcome = "ok" /\ acc.stats = whole ELSE outcome = "error"

Distance(x, y) == IF x < y THEN y - x ELSE x - y

\* A sample is counted in the bin whose center is nearest, in the higher one if
\* two are, also outside the range of the centers (stats.h:957).
NearestBin ==
    \A p \in {q \in Parts : HasHistogram(q)} :
        LET h == Partial(p).histogram
            Nearest(c, i) == \A j \in DOMAIN h.bins :
                LET at == Scaled(data[c]) IN
                IF j > i THEN Distance(at, h.bins[i]) < Distance(at, h.bins[j])
                         ELSE Distance(at, h.bins[i]) <= Distance(at, h.bins[j])
        IN  \A i \in DOMAIN h.bins :
               h.counts[i] = Cardinality({c \in Samples(PositionsOf(p)) : Nearest(c, i)})

=============================================================================
