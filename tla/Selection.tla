----------------------------- MODULE Selection -----------------------------
(***************************************************************************)
(* Selection from a dataset by index, Dataset::isel, and by coordinate     *)
(* value, Dataset::sel (dataset.h), one call on the result of another.     *)
(***************************************************************************)
EXTENDS Slicing, FiniteSetsExt

CONSTANTS
    Size,         \* the size of each dimension, a sequence
    Values,       \* coordinate values, integers
    NaN,          \* the coordinate value that is not a number
    Coordinates,  \* the coordinates explored, for each dimension sequences of values
    Ranges,       \* the <<start, stop>> of isel's descriptors
    MaxDescs,     \* bound: descriptors of all calls, a list counting its values
    MaxCalls      \* bound: calls

ASSUME SizeAssumption == Size \in [Dims -> Nat]
ASSUME DimensionCoordinatesAssumption == \A d \in Dims : {d} \in Variables
ASSUME ValuesAssumption == Values \subseteq Int /\ NaN \notin Values
ASSUME CoordinatesAssumption ==
    /\ Coordinates \subseteq [Dims -> Seq(Values \cup {NaN})]
    /\ \A c \in Coordinates : \A d \in Dims : Len(c[d]) = Size[d]
ASSUME RangesAssumption == Ranges \subseteq Int \X Int
ASSUME BoundsAssumption == MaxDescs \in Nat /\ MaxCalls \in Nat

VARIABLES
    coord,     \* dimension -> the stored values of its coordinate
    view,      \* the dataset in the caller's hand: variable -> domain
    call       \* the last call: what, its descriptors, its result, the dataset before

vars == <<coord, view, call>>

\* (mutant: positions counted from one)
WholeFromOne(d) == [origin |-> 0, cells |-> [i \in 1..Size[d] |-> i]]

Whole(d) == [origin |-> 0, cells |-> [i \in 1..Size[d] |-> i - 1]]

Full == [v \in Variables |-> [d \in v |-> Whole(d)]]

Init ==
    /\ coord \in Coordinates
    /\ view = Full
    /\ call = [op |-> "none", args |-> <<>>, ok |-> TRUE, before |-> Full,
                calls |-> 0, descs |-> 0]

-----------------------------------------------------------------------------
(* The coordinate as sel reads it, through the dataset in hand *)

Axis(w, d) == w[{d}][d]

ReadCoordinate(w, d) ==
    [i \in DOMAIN Axis(w, d).cells |-> coord[d][Axis(w, d).cells[i] + 1]]

\* (mutant: samples counted from zero in a sliced dataset)
IndexFromZero(w, d, i) == i - 1

\* The domain index of the i-th sample: get_flattened_offset is added.
IndexOfSample(w, d, i) == Axis(w, d).origin + i - 1

Occurrences(c, x) == {i \in DOMAIN c : c[i] = x}

\* RangeDescriptor(label, i, i + 1) for each of a sequence of samples.
Points(w, d, samples) ==
    [k \in DOMAIN samples |->
        Descriptor(d, IndexOfSample(w, d, samples[k]), IndexOfSample(w, d, samples[k]) + 1)]

\* label_to_indices is a map, so its entries come in the order of labels.
ByLabel(args, SlicesOf(_)) ==
    LET Entry(d) == LET mine == Of(d, args) IN
                    IF mine = <<>> THEN <<>> ELSE SlicesOf(mine[1])
    IN  FlattenSeq([d \in Dims |-> Entry(d)])

\* Every label is a variable of rank one and occurs once. (Labels of
\* coordinates that are no dimension are left out.)
ValidLabels(args) ==
    /\ \A i \in DOMAIN args : args[i].label \in Dims
    /\ \A i, j \in DOMAIN args : args[i].label = args[j].label => i = j

-----------------------------------------------------------------------------
(* Values and lists *)

\* A value that does not occur adds no entry for its label.
ValueSlices(w, a) ==
    LET c == ReadCoordinate(w, a.label)
    IN  Points(w, a.label, Sorted(Occurrences(c, a.value)))

\* No value is repeated, neither in the list nor on the axis, and all occur.
ListOk(w, a) ==
    LET c == ReadCoordinate(w, a.label) IN
    /\ IsInjective(a.values)
    /\ \A k \in DOMAIN a.values : Cardinality(Occurrences(c, a.values[k])) = 1

ListSlices(w, a) ==
    LET c == ReadCoordinate(w, a.label)
    IN  FlattenSeq([k \in DOMAIN a.values |->
            Points(w, a.label, Sorted(Occurrences(c, a.values[k])))])

-----------------------------------------------------------------------------
(* Ranges *)

Ascending(c)  == \A i, j \in DOMAIN c : i < j => c[i] <= c[j]
Descending(c) == \A i, j \in DOMAIN c : i < j => c[i] >= c[j]

\* classify_coordinate_order.
OrderOf(c) == CASE Ascending(c) -> "ascending"
                [] ~Ascending(c) /\ Descending(c) -> "descending"
                [] OTHER -> "unordered"

\* std::lower_bound and std::upper_bound: the samples before the position.
NearestStart(c, order, x) ==
    1 + Cardinality({i \in DOMAIN c : IF order = "ascending" THEN c[i] < x ELSE c[i] > x})

\* (mutant: lower_bound for the stop as well)
NearestStopBelow(c, order, x) ==
    Cardinality({i \in DOMAIN c : IF order = "ascending" THEN c[i] < x ELSE c[i] > x})

NearestStop(c, order, x) ==
    Cardinality({i \in DOMAIN c : IF order = "ascending" THEN c[i] <= x ELSE c[i] >= x})

\* nearest_contained_index of both endpoints: neither is outside the axis.
MonotonicEnds(c, a) ==
    LET first == NearestStart(c, OrderOf(c), a.start)
        last  == NearestStop(c, OrderOf(c), a.stop)
    IN  IF first \in DOMAIN c /\ last \in DOMAIN c THEN {<<first, last>>} ELSE {}

\* resolve_exact_endpoints: both occur once.
ExactEnds(c, a) ==
    IF \A x \in {a.start, a.stop} : Cardinality(Occurrences(c, x)) = 1
    THEN Occurrences(c, a.start) \X Occurrences(c, a.stop)
    ELSE {}

\* resolve_range_endpoints: the samples <<first, last>>, or none on an error.
Ends(c, a) ==
    {e \in IF OrderOf(c) = "unordered" THEN ExactEnds(c, a) ELSE MonotonicEnds(c, a) :
        e[1] <= e[2]}

\* A NaN on the axis is refused.
RangeOk(w, a) ==
    LET c == ReadCoordinate(w, a.label) IN
    /\ a.start # a.stop
    /\ \A i \in DOMAIN c : c[i] # NaN
    /\ Ends(c, a) # {}

RangeSlices(w, a) ==
    LET ends == CHOOSE e \in Ends(ReadCoordinate(w, a.label), a) : TRUE
    IN  <<Descriptor(a.label, IndexOfSample(w, a.label, ends[1]),
                     IndexOfSample(w, a.label, ends[2]) + 1)>>

-----------------------------------------------------------------------------
(* The calls. A call that fails leaves the caller with the dataset it had. *)

Call(op, args, cost, result) ==
    /\ call.calls < MaxCalls /\ call.descs + cost <= MaxDescs
    /\ view' = IF result.ok THEN result.view ELSE view
    /\ call' = [op |-> op, args |-> args, ok |-> result.ok, before |-> view,
                calls |-> call.calls + 1, descs |-> call.descs + cost]
    /\ UNCHANGED coord

Error == [ok |-> FALSE, view |-> view]

UpTo(n, S) == UNION {[1..k -> S] : k \in 1..n}

\* The descriptors of a call, as many as the bound leaves.
Args(S) == UpTo(MaxDescs - call.descs, S)

\* More descriptors of sel than dimensions must be an error: see ValidLabels.
SelArgs(S) == UpTo(Min({MaxDescs - call.descs, NumDims}), S)

Labelled(args, Ok(_, _), SlicesOf(_, _)) ==
    IF ValidLabels(args) /\ \A i \in DOMAIN args : Ok(view, args[i])
    THEN IselVector(view, ByLabel(args, LAMBDA a : SlicesOf(view, a)))
    ELSE Error

IselDescriptors == {Descriptor(d, r[1], r[2]) : d \in Labels, r \in Ranges}

DoIsel == \E descs \in Args(IselDescriptors) :
    Call("isel", descs, Len(descs),
         IF IselOk(view, descs) THEN [ok |-> TRUE, view |-> Isel(view, descs)] ELSE Error)

DoIselVector == \E descs \in Args(IselDescriptors) :
    Call("iselVector", descs, Len(descs), IselVector(view, descs))

SelValue == \E args \in SelArgs([label : Labels, value : Values]) :
    Call("value", args, Len(args), Labelled(args, LAMBDA w, a : TRUE, ValueSlices))

\* One list, or lists of one value.
ListCost(args) == IF Len(args) = 1 THEN Len(args[1].values) ELSE Len(args)

SelList ==
    \E args \in UpTo(1, [label : Labels, values : Args(Values)])
                    \cup SelArgs([label : Labels, values : UpTo(1, Values)]) :
        Call("list", args, ListCost(args), Labelled(args, ListOk, ListSlices))

SelRange == \E args \in SelArgs([label : Labels, start : Values, stop : Values]) :
    Call("range", args, Len(args), Labelled(args, RangeOk, RangeSlices))

Next == DoIsel \/ DoIselVector \/ SelValue \/ SelList \/ SelRange

Spec == Init /\ [][Next]_vars

-----------------------------------------------------------------------------
(* Properties *)

\* Every variable has an axis for each of its dimensions, whose indices read
\* positions of the stored array.
TypeOK ==
    /\ coord \in Coordinates
    /\ \A v \in Variables :
        /\ DOMAIN view[v] = v
        /\ \A d \in v : /\ view[v][d].origin \in Nat
                        /\ view[v][d].cells \in Seq(0..(Size[d] - 1))
    /\ call.op \in {"none", "isel", "iselVector", "value", "list", "range"}
    /\ call.ok \in BOOLEAN /\ call.calls \in 0..MaxCalls /\ call.descs \in 0..MaxDescs

\* All variables read the same positions along a dimension they share.
Agree(w) == \A v \in Variables : \A d \in v : w[v][d] = Axis(w, d)

OnePerLabel(args) == \A i, j \in DOMAIN args : args[i].label = args[j].label => i = j

\* What an axis reads at each index of its domain.
Reads(axis) == [i \in axis.origin..(Upper(axis) - 1) |-> axis.cells[i - axis.origin + 1]]

\* Slicing by index, once per dimension, keeps the indices of the domain that
\* are in the range, those and no other, for every variable, and each index
\* still reads the position it read before: a slice of a slice is given in
\* the indices of the first.
IselIntersects ==
    (call.op \in {"isel", "iselVector"} /\ call.ok /\ OnePerLabel(call.args)) =>
        \A v \in Variables : \A d \in v :
            LET before == Reads(call.before[v][d])
                ranges == {call.args[i].start..(call.args[i].stop - 1) :
                              i \in {i \in DOMAIN call.args : call.args[i].label = d}}
                kept   == {i \in DOMAIN before : \A r \in ranges : i \in r}
            IN  Reads(view[v][d]) = [i \in kept |-> before[i]]

\* Calls that slice a label at a time, sel and isel of a vector, and calls that
\* give one descriptor a label, leave variables whose common dimensions agree:
\* a trace and its header are of the same inline.
VariablesAgree ==
    Agree(call.before) /\ (call.op = "isel" => OnePerLabel(call.args)) => Agree(view)

\* The guide's promise for slices of a dataset, whatever the descriptors:
\* "This will ensure consistent dimensions across your entire dataset."
DimensionsStayConsistent == Agree(view)

\* What was asked for of dimension d: the first descriptor that names it.
Asked(d) == {call.args[i] : i \in {i \in DOMAIN call.args : call.args[i].label = d}}

\* Selecting values, all of which occur and at most kMaxNumSlices times, leaves
\* all their occurrences and nothing else; selecting a list leaves its values,
\* once each and in its order; a dimension that is not named stays whole. This
\* holds on a dataset that was sliced before, whose indices are not from zero.
SelExact ==
    LET c(d) == ReadCoordinate(call.before, d)
        Few(d, a) == call.op = "value" => Cardinality(Occurrences(c(d), a.value)) \in 1..MaxSlices
        Short(d, a) == call.op = "list" => Len(a.values) <= MaxSlices
    IN  (/\ call.op \in {"value", "list"} /\ call.ok
         /\ \A d \in Dims : \A a \in Asked(d) : Few(d, a) /\ Short(d, a)) =>
            \A d \in Dims :
                IF Asked(d) = {} THEN Axis(view, d).cells = Axis(call.before, d).cells
                ELSE \A a \in Asked(d) :
                       IF call.op = "list" THEN ReadCoordinate(view, d) = a.values
                       ELSE LET hits == Sorted(Occurrences(c(d), a.value))
                            IN  Axis(view, d).cells =
                                  [k \in DOMAIN hits |-> Axis(call.before, d).cells[hits[k]]]

\* Is the coordinate value x asked for by the range, on an axis of that order?
Contained(order, a, x) ==
    IF order = "ascending" THEN a.start <= x /\ x <= a.stop ELSE a.stop <= x /\ x <= a.start

\* A range of an increasing or decreasing axis selects exactly the samples
\* whose values lie between its endpoints, both included. It is an error when
\* there are none, and only then if the variables agree.
RangeContained ==
    (call.op = "range" /\ ValidLabels(call.args)) =>
        LET c(d) == ReadCoordinate(call.before, d)
            Monotonic(d) == /\ \A i \in DOMAIN c(d) : c(d)[i] # NaN
                            /\ OrderOf(c(d)) # "unordered"
            Between(d, a) == {i \in DOMAIN c(d) : Contained(OrderOf(c(d)), a, c(d)[i])}
            Wanted == {d \in Dims : Asked(d) # {}}
        IN  (\A d \in Wanted : Monotonic(d) /\ \A a \in Asked(d) : a.start # a.stop) =>
                /\ (Agree(call.before) /\ \A d \in Wanted : \A a \in Asked(d) : Between(d, a) # {})
                      => call.ok
                /\ call.ok => \A d \in Wanted : \A a \in Asked(d) :
                       /\ Between(d, a) # {}
                       /\ {Axis(view, d).cells[i] : i \in DOMAIN Axis(view, d).cells}
                            = {Axis(call.before, d).cells[i] : i \in Between(d, a)}

=============================================================================
