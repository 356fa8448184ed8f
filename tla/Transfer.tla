------------------------------ MODULE Transfer ------------------------------
(***************************************************************************)
(* Reading and writing whole variables of an open dataset: SelectField,    *)
(* which replaces a variable of the collection by a view of one field, and *)
(* TransformVariable, which reads one variable, transforms it element by   *)
(* element and writes another. Both return a future and go on in callbacks *)
(* of the store's threads, several at once.                                *)
(*                                                                         *)
(* An array has a shape, a sequence of fields (one if it is scalar), and   *)
(* at each index a value for each field; a field is one byte wide. A view  *)
(* is what a Variable stands for: [array, kind, fields, box]. The void     *)
(* view of a structured array has the bytes of a record as an additional   *)
(* dimension. TensorStore reads and writes chunks, here the indexes with   *)
(* the same first component, each in one step.                             *)
(***************************************************************************)
EXTENDS Integers, Sequences, FiniteSets, Functions, SequencesExt

CONSTANTS
    Arrays,        \* the arrays of the dataset; a variable has the name of its array
    Shape,         \* the shape of each
    Extent,        \* the largest dimension
    Structure,     \* the fields of each; scalar ones have one field
    Scalar,        \* the arrays that are not structured
    Windows,       \* ranges of the first dimension a caller slices to
    Parted,        \* the arrays a caller transfers in parts
    Values,        \* values are 0..Values-1
    InitialValue(_, _, _),  \* of an array, at an index, in a field
    MaxTransfers,  \* bound: calls of TransformVariable, and
    MaxCalls       \* of it, isel and SelectField together

ASSUME SizesAssumption ==
    /\ Scalar \subseteq Arrays /\ Parted \subseteq Arrays
    /\ Extent \in Nat /\ Values \in Nat \ {0} /\ MaxTransfers \in Nat /\ MaxCalls \in Nat

\* A record has two bytes or more, and its fields have names.
ASSUME ArraysAssumption ==
    \A a \in Arrays :
        /\ Shape[a] \in Seq(1..Extent) /\ Shape[a] # <<>>
        /\ Structure[a] \in Seq(Range(Structure[a])) /\ IsInjective(Structure[a])
        /\ "" \notin Range(Structure[a])
        /\ IF a \in Scalar THEN Len(Structure[a]) = 1 ELSE Len(Structure[a]) > 1

ASSUME WindowsAssumption ==
    \A window \in Windows : \E lo, hi \in 0..Extent : lo < hi /\ window = <<lo, hi>>

Transfers == 1..MaxTransfers

VARIABLES
    data,        \* what is on the store
    collection,  \* Dataset::variables
    selection,   \* the last call of SelectField
    transfers,   \* the calls of TransformVariable
    alive,       \* FALSE once an exception left a callback
    calls

vars == <<data, collection, selection, transfers, alive, calls>>

-----------------------------------------------------------------------------
(* Views *)

Whole(a) == [d \in DOMAIN Shape[a] |-> <<0, Shape[a][d]>>]

\* A structured array opens as void unless a field is named.
Open(a, field) ==
    IF a \in Scalar THEN [array |-> a, kind |-> "scalar", fields |-> Structure[a], box |-> Whole(a)]
    ELSE IF field = "" THEN [array |-> a, kind |-> "void", fields |-> Structure[a], box |-> Whole(a)]
    ELSE [array |-> a, kind |-> "field", fields |-> <<field>>, box |-> Whole(a)]

\* get_intervals: the dimensions of the Variable, with the byte dimension.
Intervals(view) ==
    IF view.kind = "void" THEN Append(view.box, <<0, Len(view.fields)>>) ELSE view.box

\* (mutant: the stop of a range is included)
SliceViewClosed(view, slices) ==
    [view EXCEPT !.box = [d \in DOMAIN @ |-> IF d \in DOMAIN slices THEN <<slices[d][1], slices[d][2] + 1>> ELSE @[d]]]

\* slice: by the labels of the given ranges; other dimensions stay.
SliceView(view, slices) ==
    [view EXCEPT !.box = [d \in DOMAIN @ |-> IF d \in DOMAIN slices THEN slices[d] ELSE @[d]]]

Sizes(view) == [d \in DOMAIN Intervals(view) |-> Intervals(view)[d][2] - Intervals(view)[d][1]]

Indexes(a)   == {x \in [DOMAIN Shape[a] -> 0..(Extent - 1)] : \A d \in DOMAIN x : x[d] < Shape[a][d]}

ASSUME InitialAssumption ==
    \A a \in Arrays : \A x \in Indexes(a), f \in Range(Structure[a]) :
        InitialValue(a, x, f) \in 0..(Values - 1)

Window(view) == {x \in Indexes(view.array) :
                    \A d \in DOMAIN x : view.box[d][1] <= x[d] /\ x[d] < view.box[d][2]}
Chunks(view) == {x[1] : x \in Window(view)}

\* The element of a view at an index.
Element(view, record) == [k \in DOMAIN view.fields |-> record[view.fields[k]]]

\* (mutant: a field is written over its record)
ReplacedWhole(view, record, element) == [k \in Range(view.fields) |-> element[1]]

\* A record with the element of a view replaced.
Replaced(view, record, element) ==
    [f \in DOMAIN record |->
        IF \E k \in DOMAIN view.fields : view.fields[k] = f
        THEN element[CHOOSE k \in DOMAIN view.fields : view.fields[k] = f] ELSE record[f]]

-----------------------------------------------------------------------------
\* Of a call that is over only how it ended is kept.
Ended(state) == [state |-> state]

Init ==
    /\ data = [a \in Arrays |-> [x \in Indexes(a) |->
                  [f \in Range(Structure[a]) |-> InitialValue(a, x, f)]]]
    /\ collection = [a \in Arrays |-> Open(a, "")]
    /\ selection = Ended("none")
    /\ transfers = [t \in Transfers |-> Ended("none")]
    /\ alive = TRUE
    /\ calls = 0

Call == alive /\ calls < MaxCalls /\ calls' = calls + 1

\* ds = ds.isel({rows, lo, hi}): clamped to what each variable has of the rows.
Isel(window) ==
    LET Clamped(view) == <<IF window[1] > view.box[1][1] THEN window[1] ELSE view.box[1][1],
                           IF window[2] < view.box[1][2] THEN window[2] ELSE view.box[1][2]>>
    IN  /\ Call
        /\ \A a \in Arrays : Clamped(collection[a])[1] < Clamped(collection[a])[2]
        /\ collection' = [a \in Arrays |-> SliceView(collection[a], <<Clamped(collection[a])>>)]
        /\ UNCHANGED <<data, selection, transfers, alive>>

-----------------------------------------------------------------------------
(* SelectField *)

\* A field view is no void view, but its array still has its fields.
Refused(view, field) ==
    view.array \in Scalar \/ (field # "" /\ field \notin Range(Structure[view.array]))

\* The last interval is taken for the byte dimension.
SelectField(a, field) ==
    /\ Call
    /\ selection.state # "opening"
    /\ selection' = IF Refused(collection[a], field) THEN Ended("error")
                    ELSE [state |-> "opening", asked |-> collection[a], field |-> field,
                          slices |-> Front(Intervals(collection[a]))]
    /\ UNCHANGED <<data, collection, transfers, alive>>

\* (mutant: what was just opened is handed out)
SelectedOpened(call) == Open(call.asked.array, call.field)

Selected(call) == SliceView(Open(call.asked.array, call.field), call.slices)

\* The continuation. The result is sliced again, the collection gets the whole
\* variable. For no slices, reserve(size() - 1) asks for more than there can be.
FieldOpened ==
    /\ alive /\ selection.state = "opening"
    /\ IF selection.slices = <<>>
       THEN alive' = FALSE /\ UNCHANGED <<collection, selection>>
       ELSE /\ selection' = [state |-> "ok", asked |-> selection.asked, field |-> selection.field,
                               result |-> Selected(selection)]
            /\ collection' = [collection EXCEPT ![selection.asked.array] =
                                 Open(selection.asked.array, selection.field)]
            /\ alive' = alive
    /\ UNCHANGED <<data, transfers, calls>>

FieldOpenFails ==
    /\ alive /\ selection.state = "opening"
    /\ selection' = Ended("error")
    /\ UNCHANGED <<data, collection, transfers, alive, calls>>

-----------------------------------------------------------------------------
(* TransformVariable *)

\* CheckTransformCompatibility: same rank, same sizes, as many elements.
Compatible(src, dst) ==
    /\ Len(Intervals(src)) = Len(Intervals(dst))
    /\ \A d \in DOMAIN Intervals(src) : Sizes(src)[d] = Sizes(dst)[d]
    /\ Cardinality(Window(src)) = Cardinality(Window(dst))

\* Element transforms: one that works, one that refuses a zero, one that reports
\* a byte too few for the last value.
ElementTransforms == {"next", "nonzero", "short"}

Has(element, value) == \E k \in DOMAIN element : element[k] = value

Refuses(fn, element)  == fn = "nonzero" /\ Has(element, 0)
Reported(fn, element) == IF fn = "short" /\ Has(element, Values - 1) THEN Len(element) - 1 ELSE Len(element)
Transformed(element) == [k \in DOMAIN element |-> (element[k] + 1) % Values]

Held == {collection[a] : a \in Arrays} \cup (IF selection.state = "ok" THEN {selection.result} ELSE {})

\* What a caller holds, or has sliced for a transfer in parts.
Views == Held \cup UNION {{SliceView(view, <<window>>) : window \in Windows} :
                           view \in {v \in Held : v.array \in Parted /\ v.box[1] = <<0, Extent>>}}

\* start and undisturbed are for the properties: the contents of the source at
\* the call, and whether no other transfer wrote into source or destination.
TransformVariable(t, src, dst) ==
    /\ Call
    /\ transfers[t].state = "none" /\ \A u \in Transfers : u < t => transfers[u].state # "none"
    /\ transfers' = [transfers EXCEPT ![t] =
          IF ~Compatible(src, dst) THEN Ended("invalid")
          ELSE [state |-> "reading", src |-> src, dst |-> dst, fn |-> "next",
                left  |-> Chunks(src), buffer |-> <<>>,
                start |-> [x \in Window(src) |-> Element(src, data[src.array][x])],
                undisturbed |-> TRUE]]
    /\ UNCHANGED <<data, collection, selection, alive>>

\* What an operation has read, with one chunk more.
ReadPart(op, c) ==
    [x \in DOMAIN op.buffer \cup {y \in Window(op.src) : y[1] = c} |->
        IF x \in DOMAIN op.buffer THEN op.buffer[x] ELSE Element(op.src, data[op.src.array][x])]

\* (mutant: the byte counts are not compared)
ApplyElementTransformUncounted(dst, fn, buffer) ==
    \A x \in DOMAIN buffer : ~Refuses(fn, buffer[x])

\* The first element that is refused, or of which another number of bytes is
\* reported than the destination has, ends the pass.
ApplyElementTransform(dst, fn, buffer) ==
    \A x \in DOMAIN buffer :
        ~Refuses(fn, buffer[x]) /\ Reported(fn, buffer[x]) = Len(dst.fields)

\* (mutant: the promise is left without a result)
AfterReadSilent(op, fn, buffer) ==
    IF ApplyElementTransform(op.dst, fn, buffer)
    THEN [op EXCEPT !.state = "writing", !.fn = fn, !.left = Chunks(op.dst), !.buffer = buffer]
    ELSE [op EXCEPT !.left = {}, !.buffer = buffer]

\* TransformAndWrite, in the callback of the read.
AfterRead(op, fn, buffer) ==
    IF ApplyElementTransform(op.dst, fn, buffer)
    THEN [op EXCEPT !.state = "writing", !.fn = fn, !.left = Chunks(op.dst), !.buffer = buffer]
    ELSE Ended("refused")

\* Which transform the caller gave shows at its first use, after the last read.
ReadChunk(t, c) ==
    /\ alive /\ transfers[t].state = "reading" /\ c \in transfers[t].left
    /\ LET op     == transfers[t]
           buffer == ReadPart(op, c)
       IN  \/ /\ op.left = {c}
              /\ \E fn \in ElementTransforms :
                    transfers' = [transfers EXCEPT ![t] = AfterRead(op, fn, buffer)]
           \/ /\ op.left # {c}
              /\ transfers' = [transfers EXCEPT ![t].left = @ \ {c}, ![t].buffer = buffer]
    /\ UNCHANGED <<data, collection, selection, alive, calls>>

ReadFails(t) ==
    /\ alive /\ transfers[t].state = "reading" /\ transfers[t].left # {}
    /\ transfers' = [transfers EXCEPT ![t] = Ended("read_failed")]
    /\ UNCHANGED <<data, collection, selection, alive, calls>>

\* The buffers are paired element by element in row-major order.
SourceIndex(op, x) == [d \in DOMAIN x |-> x[d] - op.dst.box[d][1] + op.src.box[d][1]]

Touches(view, a, fields, indexes) ==
    view.array = a /\ Range(view.fields) \cap fields # {} /\ Window(view) \cap indexes # {}

\* A chunk is read, changed and written under its generation: other fields and
\* other indexes keep what is there. A failed write may still store chunks.
WriteChunk(t, c) ==
    /\ alive /\ transfers[t].state \in {"writing", "failing"} /\ c \in transfers[t].left
    /\ LET op      == transfers[t]
           indexes == {x \in Window(op.dst) : x[1] = c}
           Hit(u)  == /\ u # t /\ transfers[u].state \in {"reading", "writing"}
                      /\ \E view \in {transfers[u].src, transfers[u].dst} :
                            Touches(view, op.dst.array, Range(op.dst.fields), indexes)
       IN  /\ data' = [data EXCEPT ![op.dst.array] = [x \in DOMAIN @ |->
                          IF x \in indexes
                          THEN Replaced(op.dst, @[x], Transformed(op.buffer[SourceIndex(op, x)]))
                          ELSE @[x]]]
           /\ transfers' = [u \in Transfers |->
                 IF u = t
                 THEN IF op.left # {c} THEN [op EXCEPT !.left = @ \ {c}]
                      ELSE Ended(IF op.state = "writing" THEN "ok" ELSE "write_failed")
                 ELSE IF Hit(u) THEN [transfers[u] EXCEPT !.undisturbed = FALSE] ELSE transfers[u]]
    /\ UNCHANGED <<collection, selection, alive, calls>>

WriteFails(t) ==
    /\ alive /\ transfers[t].state = "writing"
    /\ transfers' = [transfers EXCEPT ![t].state = "failing", ![t].start = <<>>, ![t].undisturbed = FALSE]
    /\ UNCHANGED <<data, collection, selection, alive, calls>>

-----------------------------------------------------------------------------
Next ==
    \/ \E window \in Windows : Isel(window)
    \/ \E a \in Arrays, field \in {""} \cup UNION {Range(Structure[b]) : b \in Arrays} : SelectField(a, field)
    \/ FieldOpened \/ FieldOpenFails
    \/ \E t \in Transfers, src, dst \in Views : TransformVariable(t, src, dst)
    \/ \E t \in Transfers, c \in 0..(Extent - 1) : ReadChunk(t, c) \/ WriteChunk(t, c)
    \/ \E t \in Transfers : ReadFails(t) \/ WriteFails(t)

\* The store answers each request, with the data or an error.
StoreStep(t) == \E c \in 0..(Extent - 1) : ReadChunk(t, c) \/ WriteChunk(t, c)

Spec ==
    /\ Init /\ [][Next]_vars
    /\ \A t \in Transfers : WF_vars(StoreStep(t))
    /\ WF_vars(FieldOpened)

-----------------------------------------------------------------------------
(* Properties *)

ViewOK(view) ==
    /\ view.array \in Arrays /\ Range(view.fields) \subseteq Range(Structure[view.array])
    /\ DOMAIN view.box = DOMAIN Shape[view.array]
    /\ \A d \in DOMAIN view.box :
          0 <= view.box[d][1] /\ view.box[d][1] < view.box[d][2] /\ view.box[d][2] <= Shape[view.array][d]

\* Every view is within its array; the store has a value for every field.
TypeOK ==
    /\ \A a \in Arrays : ViewOK(collection[a]) /\ collection[a].array = a
    /\ selection.state = "ok" => ViewOK(selection.result)
    /\ \A a \in Arrays :
          data[a] \in [Indexes(a) -> [Range(Structure[a]) -> 0..(Values - 1)]]
    /\ \A t \in Transfers : transfers[t].state \in
          {"none", "invalid", "reading", "refused", "read_failed", "writing", "failing", "write_failed", "ok"}

\* The field of a variable that was not selected from before comes with the
\* slice the variable had at the call, whatever was done to the dataset since.
SelectedIsSliced ==
    selection.state = "ok" /\ selection.asked.kind = "void" =>
        /\ selection.result.box = selection.asked.box
        /\ selection.field # "" => selection.result.fields = <<selection.field>>

\* The store changes only by a transform that was applied to every element of
\* the source without an error; after any error before, nothing is written.
OnlyWholeTransformsWrite ==
    [][data' # data =>
        \E t \in Transfers :
            /\ transfers[t].state \in {"writing", "failing"}
            /\ DOMAIN transfers[t].buffer = Window(transfers[t].src)
            /\ \A x \in DOMAIN transfers[t].buffer :
                  ~\/ transfers[t].fn = "nonzero" /\ Has(transfers[t].buffer[x], 0)
                   \/ transfers[t].fn = "short" /\ Has(transfers[t].buffer[x], Values - 1)]_vars

\* A transfer that reports success, and that no other wrote into, leaves in the
\* destination the transform of what the source held at the call, element by
\* element; source and destination may overlap.
TransferIsFaithful ==
    [][\A t \in Transfers :
        transfers'[t].state = "ok" /\ transfers[t].state = "writing" /\ transfers[t].undisturbed =>
            \A x \in Window(transfers[t].dst) :
                Element(transfers[t].dst, data'[transfers[t].dst.array][x])
                  = Transformed(transfers[t].start[[d \in DOMAIN x |->
                        transfers[t].src.box[d][1] + (x[d] - transfers[t].dst.box[d][1])]])]_vars

Pending == selection.state = "opening" \/ \E t \in Transfers : transfers[t].state \in {"reading", "writing"}

\* Every future gets a result, unless an exception ended the process.
FuturesResolve == Pending ~> (~Pending \/ ~alive)
=============================================================================
