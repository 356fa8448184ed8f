------------------------------ MODULE Slicing ------------------------------
(***************************************************************************)
(* Slicing by index: Variable::slice (variable.h) and the two overloads of *)
(* Dataset::isel (dataset.h), as operators on what a dataset shows.        *)
(*                                                                         *)
(* A dimension is a number, in the order std::map gives its label; a       *)
(* variable is known by its set of dimensions, and {d} is the coordinate   *)
(* of d. An axis has the domain [origin, origin + Len(cells)), and cells   *)
(* says which position of the stored array each of its indices reads. The  *)
(* padding with kInertSliceKey, which no variable has, is left out, as are *)
(* descriptors by axis number and steps, which must be 1.                  *)
(***************************************************************************)
EXTENDS Integers, Sequences, FiniteSets, SequencesExt

CONSTANTS
    NumDims,      \* dimensions of the dataset
    Variables,    \* its variables, as sets of dimensions
    MaxSlices     \* kMaxNumSlices

ASSUME DimsAssumption   == NumDims \in Nat \ {0}
ASSUME SlicesAssumption == MaxSlices \in Nat \ {0}

Dims == 1..NumDims

\* What a descriptor may name: the last label is no dimension of the dataset.
Labels == 1..(NumDims + 1)

ASSUME VariablesAssumption == Variables \subseteq (SUBSET Dims) \ {{}}

Descriptor(d, from, to) == [label |-> d, start |-> from, stop |-> to]

InOrder(S, Less(_, _)) ==
    [i \in 1..Cardinality(S) |-> CHOOSE x \in S : Cardinality({y \in S : Less(y, x)}) = i - 1]

\* The numbers of a set, increasing.
Sorted(S) == InOrder(S, LAMBDA i, j : i < j)

-----------------------------------------------------------------------------
(* One variable: domain is a function from its dimensions to axes *)

Upper(axis) == axis.origin + Len(axis.cells)

\* (mutant: the shape taken for the upper bound, as if every domain began at 0)
SliceInRangeOfShape(desc, domain) ==
    IF desc.label \notin DOMAIN domain THEN desc
    ELSE LET axis == domain[desc.label] IN
         [desc EXCEPT !.start = IF @ < axis.origin THEN axis.origin ELSE @,
                      !.stop  = IF @ > Len(axis.cells) THEN Len(axis.cells) ELSE @]

SliceInRange(desc, domain) ==
    IF desc.label \notin DOMAIN domain THEN desc
    ELSE LET axis == domain[desc.label] IN
         [desc EXCEPT !.start = IF @ < axis.origin THEN axis.origin ELSE @,
                      !.stop  = IF @ > Upper(axis) THEN Upper(axis) ELSE @]

\* Also for labels the variable does not have.
Refused(domain, descs) ==
    \E i \in DOMAIN descs :
        LET r == SliceInRange(descs[i], domain) IN r.start > r.stop

\* The descriptors of dimension d, in the order given.
Of(d, descs) ==
    LET at == Sorted({i \in DOMAIN descs : descs[i].label = d})
    IN  [k \in DOMAIN at |-> descs[at[k]]]

HalfOpenInterval(axis, r) ==
    [origin |-> r.start,
     cells  |-> SubSeq(axis.cells, r.start - axis.origin + 1, r.stop - axis.origin)]

\* The pieces follow each other from the origin of the first.
Concat(pieces) ==
    [origin |-> pieces[1].origin,
     cells  |-> FlattenSeq([i \in DOMAIN pieces |-> pieces[i].cells])]

\* The dimensions of the variable that have several descriptors.
Repeated(domain, descs) == {d \in DOMAIN domain : Len(Of(d, descs)) > 1}

\* Slices a dimension by all of its descriptors.
SliceOne(domain, d, descs) ==
    LET rs == Of(d, descs) IN
    [domain EXCEPT ![d] = Concat([i \in DOMAIN rs |->
                                     HalfOpenInterval(@, SliceInRange(rs[i], domain))])]

\* All dimensions at once when no label is repeated; else only the first
\* repeated one, and the descriptors of the others are dropped.
Slice(domain, descs) ==
    LET repeated == Repeated(domain, descs) IN
    IF repeated # {}
    THEN SliceOne(domain, CHOOSE d \in repeated : \A e \in repeated : d <= e, descs)
    ELSE [d \in DOMAIN domain |->
            IF Of(d, descs) = <<>> THEN domain[d] ELSE SliceOne(domain, d, descs)[d]]

-----------------------------------------------------------------------------
(* A dataset: view is a function from variables to domains *)

IselOk(view, descs) == \A v \in Variables : ~Refused(view[v], descs)

Isel(view, descs) == [v \in Variables |-> Slice(view[v], descs)]

Windowed(descs) ==
    [k \in 1..((Len(descs) + MaxSlices - 1) \div MaxSlices) |->
        SubSeq(descs, (k - 1) * MaxSlices + 1,
               IF k * MaxSlices < Len(descs) THEN k * MaxSlices ELSE Len(descs))]

\* (mutant: the vector is handed over as it is)
WindowsNone(descs) == <<descs>>

\* Grouped by label, each group cut into windows of kMaxNumSlices.
Windows(descs) == FlattenSeq([d \in Labels |-> Windowed(Of(d, descs))])

\* The overload for a vector: window after window, each on what the one
\* before left.
ApplyWindow(r, window) ==
    IF r.ok /\ IselOk(r.view, window)
    THEN [ok |-> TRUE, view |-> Isel(r.view, window)]
    ELSE [ok |-> FALSE, view |-> r.view]

IselVector(view, descs) ==
    LET windows == Windows(descs)
        after[k \in 0..Len(windows)] ==
            IF k = 0 THEN [ok |-> descs # <<>>, view |-> view]
            ELSE ApplyWindow(after[k - 1], windows[k])
    IN  after[Len(windows)]

=============================================================================
