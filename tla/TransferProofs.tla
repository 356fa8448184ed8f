------------------------- MODULE TransferProofs -------------------------
(***************************************************************************)
(* For all arrays, views, values and windows and any number of transfers:  *)
(* the views of a dataset stay within their arrays, SelectField hands out  *)
(* the slice of the call, nothing is written before a transform was        *)
(* applied to the whole source without an error, and a transfer that       *)
(* reports success is the transform of what the source held at the call.   *)
(***************************************************************************)
EXTENDS Transfer, FiniteSetTheorems, SequenceTheorems, TLAPS

-----------------------------------------------------------------------------
(* The inductive invariant *)

Fields    == UNION {Range(Structure[a]) : a \in Arrays}
Element0  == 0..(Values - 1)

ViewType ==
    [array : Arrays, kind : {"scalar", "void", "field"}, fields : Seq(Fields),
     box : Seq((0..Extent) \X (0..Extent))]

\* The box of a view is a part of its array, and not empty.
Within(box, a) ==
    /\ DOMAIN box = DOMAIN Shape[a]
    /\ \A d \in DOMAIN box : box[d][1] < box[d][2] /\ box[d][2] <= Shape[a][d]

\* The fields of a view are those of its kind.
OfKind(view) ==
    IF view.kind = "field"
    THEN view.array \notin Scalar /\ \E f \in Range(Structure[view.array]) : view.fields = <<f>>
    ELSE /\ view.fields = Structure[view.array]
         /\ view.kind = "scalar" <=> view.array \in Scalar

SoundView(view) == view \in ViewType /\ Within(view.box, view.array) /\ OfKind(view)

CollectionInv ==
    /\ collection = [a \in Arrays |-> collection[a]]
    /\ \A a \in Arrays : SoundView(collection[a]) /\ collection[a].array = a

DataInv ==
    /\ data = [a \in Arrays |-> data[a]]
    /\ \A a \in Arrays : data[a] \in [Indexes(a) -> [Range(Structure[a]) -> Element0]]

\* What SelectField takes for a structured array: a field of it, or the empty name.
Selectable(a, field) == field = "" \/ field \in Range(Structure[a])

\* The slices of a selection are those the variable had at the call, but for
\* the last dimension if it was a field.
SelectionInv ==
    /\ selection.state \in {"opening", "ok"} =>
          /\ SoundView(selection.asked) /\ selection.asked.array \notin Scalar
          /\ Selectable(selection.asked.array, selection.field)
    /\ selection.state = "opening" => selection.slices = Front(Intervals(selection.asked))
    /\ selection.state = "ok" => SoundView(selection.result)
    /\ SelectedIsSliced

\* What is kept of a transfer that is under way.
Operation(op) ==
    op = [state |-> op.state, src |-> op.src, dst |-> op.dst, fn |-> op.fn, left |-> op.left,
          buffer |-> op.buffer, start |-> op.start, undisturbed |-> op.undisturbed]

Elements(view) == [DOMAIN view.fields -> Element0]

\* A transfer between two views that fit.
Fitting(op) ==
    /\ Operation(op) /\ op.undisturbed \in BOOLEAN
    /\ SoundView(op.src) /\ SoundView(op.dst) /\ Compatible(op.src, op.dst)

\* The chunks read are in the buffer. Of an undisturbed transfer, these are as at the
\* call, and so are the others on the store.
ReadingInv(op, store) ==
    /\ op.buffer \in [{x \in Window(op.src) : x[1] \notin op.left} -> Elements(op.src)]
    /\ op.undisturbed =>
          /\ op.start \in [Window(op.src) -> Elements(op.src)]
          /\ \A x \in Window(op.src) :
                op.start[x] = IF x[1] \in op.left THEN Element(op.src, store[op.src.array][x])
                                                  ELSE op.buffer[x]

\* No element of the source was refused or of a wrong size.
Clean(op) ==
    \A x \in DOMAIN op.buffer :
        ~\/ op.fn = "nonzero" /\ Has(op.buffer[x], 0)
         \/ op.fn = "short" /\ Has(op.buffer[x], Values - 1)

\* The buffer is the whole source. Of an undisturbed transfer, it is as at the call,
\* and the chunks written are on the store.
WritingInv(op, store) ==
    /\ op.buffer \in [Window(op.src) -> Elements(op.src)]
    /\ Clean(op)
    /\ op.undisturbed =>
          /\ op.start = op.buffer
          /\ \A x \in Window(op.dst) :
                x[1] \notin op.left =>
                    Element(op.dst, store[op.dst.array][x])
                      = Transformed(op.buffer[SourceIndex(op, x)])

States == {"none", "invalid", "reading", "refused", "read_failed", "writing", "failing",
           "write_failed", "ok"}

TransferInv(op, store) ==
    /\ op.state \in States
    /\ op.state \in {"reading", "writing", "failing"} => Fitting(op)
    /\ op.state = "reading" => ReadingInv(op, store)
    /\ op.state \in {"writing", "failing"} => WritingInv(op, store)
    /\ op.state = "failing" => ~op.undisturbed

TransfersInv ==
    /\ transfers = [t \in Transfers |-> transfers[t]]
    /\ \A t \in Transfers : TransferInv(transfers[t], data)

TInv == CollectionInv /\ DataInv /\ SelectionInv /\ TransfersInv

-----------------------------------------------------------------------------
(* Views *)

LEMMA SeqFacts ==
    ASSUME NEW S, NEW s \in Seq(S)
    PROVE  /\ Len(s) \in Nat /\ DOMAIN s = 1..Len(s)
           /\ \A d \in DOMAIN s : s[d] \in S
           /\ s # <<>> => Len(s) \in Nat \ {0}
           /\ s = [d \in DOMAIN s |-> s[d]]
BY LenProperties, EmptySeq

LEMMA FrontFacts ==
    ASSUME NEW S, NEW s \in Seq(S), s # <<>>
    PROVE  /\ DOMAIN Front(s) \subseteq DOMAIN s
           /\ \A d \in DOMAIN Front(s) : Front(s)[d] = s[d]
<1>1. Len(s) \in Nat \ {0} /\ DOMAIN s = 1..Len(s)
  BY SeqFacts
<1>2. \A d \in 1..(Len(s) - 1) : d \in 1..Len(s)
  BY <1>1
<1>3. Front(s) = SubSeq(s, 1, Len(s) - 1)
  BY DEF Front
<1>4. DOMAIN Front(s) = 1..(Len(s) - 1) /\ \A d \in 1..(Len(s) - 1) : Front(s)[d] = s[d]
  BY <1>1, <1>2, <1>3, SubSeqProperties
<1> QED
  BY <1>1, <1>2, <1>4

LEMMA SameLength ==
    ASSUME NEW S, NEW s \in Seq(S), NEW T, NEW t \in Seq(T), DOMAIN s = DOMAIN t
    PROVE  Len(s) = Len(t)
<1>1. 1..Len(s) = 1..Len(t) /\ Len(s) \in Nat /\ Len(t) \in Nat
  BY SeqFacts
<1>2. Len(s) <= Len(t)
  <2>1. Len(s) > 0 => Len(s) \in 1..Len(t)
    BY <1>1
  <2> QED
    BY <1>1, <2>1
<1>3. Len(t) <= Len(s)
  <2>1. Len(t) > 0 => Len(t) \in 1..Len(s)
    BY <1>1
  <2> QED
    BY <1>1, <2>1
<1> QED
  BY <1>1, <1>2, <1>3

LEMMA FunctionIsSeq ==
    ASSUME NEW S, NEW s \in Seq(S), NEW T, NEW f \in [DOMAIN s -> T]
    PROVE  f \in Seq(T)
BY SeqFacts, IsASeq

LEMMA Single ==
    ASSUME NEW S, NEW e \in S
    PROVE  <<e>> \in Seq(S)
OBVIOUS

LEMMA ArrayFacts ==
    ASSUME NEW a \in Arrays
    PROVE  /\ Shape[a] \in Seq(1..Extent) /\ Len(Shape[a]) \in Nat \ {0}
           /\ DOMAIN Shape[a] = 1..Len(Shape[a])
           /\ \A d \in DOMAIN Shape[a] : Shape[a][d] \in 1..Extent
           /\ Structure[a] \in Seq(Fields) /\ Len(Structure[a]) \in Nat \ {0}
           /\ DOMAIN Structure[a] = 1..Len(Structure[a])
           /\ \A f \in Range(Structure[a]) : f \in Fields /\ f # ""
<1>1. /\ Shape[a] \in Seq(1..Extent) /\ Shape[a] # <<>>
      /\ Structure[a] \in Seq(Range(Structure[a]))
      /\ "" \notin Range(Structure[a])
  BY ArraysAssumption
<1>2. Range(Structure[a]) \subseteq Fields
  BY DEF Fields
<1>3. Structure[a] \in Seq(Fields)
  BY <1>1, <1>2, SeqMonotonic
<1>4. Structure[a] # <<>>
  <2>1. Len(Structure[a]) = 1 \/ Len(Structure[a]) > 1
    BY ArraysAssumption
  <2> QED
    BY <2>1
<1>5. /\ Len(Structure[a]) \in Nat \ {0} /\ DOMAIN Structure[a] = 1..Len(Structure[a])
  BY <1>3, <1>4, SeqFacts
<1>6. /\ Len(Shape[a]) \in Nat \ {0} /\ DOMAIN Shape[a] = 1..Len(Shape[a])
      /\ \A d \in DOMAIN Shape[a] : Shape[a][d] \in 1..Extent
  BY <1>1, SeqFacts
<1>7. \A f \in Range(Structure[a]) : f \in Fields /\ f # ""
  BY <1>1, <1>2
<1> QED
  BY <1>1, <1>3, <1>5, <1>6, <1>7

LEMMA SoundFacts ==
    ASSUME NEW view, SoundView(view)
    PROVE  /\ view.array \in Arrays /\ view.kind \in {"scalar", "void", "field"}
           /\ view.box \in Seq((0..Extent) \X (0..Extent))
           /\ Len(view.box) = Len(Shape[view.array]) /\ Len(view.box) \in Nat \ {0}
           /\ DOMAIN view.box = 1..Len(view.box) /\ view.box = [d \in DOMAIN view.box |-> view.box[d]]
           /\ \A d \in DOMAIN view.box :
                 /\ view.box[d] \in (0..Extent) \X (0..Extent)
                 /\ view.box[d] = <<view.box[d][1], view.box[d][2]>>
                 /\ view.box[d][1] \in 0..Extent /\ view.box[d][2] \in 0..Extent
                 /\ view.box[d][1] < view.box[d][2] /\ view.box[d][2] <= Shape[view.array][d]
           /\ view.fields \in Seq(Fields) /\ Len(view.fields) \in Nat \ {0}
           /\ DOMAIN view.fields = 1..Len(view.fields)
           /\ IF view.kind = "void" THEN Len(view.fields) > 1 ELSE Len(view.fields) = 1
           /\ \A k \in DOMAIN view.fields : view.fields[k] \in Range(Structure[view.array])
           /\ IsInjective(view.fields)
<1>1. view \in ViewType /\ Within(view.box, view.array) /\ OfKind(view)
  BY DEF SoundView
<1>2. /\ view.array \in Arrays /\ view.kind \in {"scalar", "void", "field"}
      /\ view.box \in Seq((0..Extent) \X (0..Extent)) /\ view.fields \in Seq(Fields)
  BY <1>1 DEF ViewType
<1>3. DOMAIN view.box = 1..Len(view.box) /\ view.box = [d \in DOMAIN view.box |-> view.box[d]]
  <2> DEFINE Pair == (0..Extent) \X (0..Extent)
  <2>1. view.box \in Seq(Pair)
    BY <1>2
  <2> HIDE DEF Pair
  <2> QED
    BY <2>1, SeqFacts
<1>4. Len(view.box) = Len(Shape[view.array]) /\ Len(view.box) \in Nat \ {0}
  <2>1. DOMAIN view.box = DOMAIN Shape[view.array]
    BY <1>1 DEF Within
  <2>2. Shape[view.array] \in Seq(1..Extent) /\ Len(Shape[view.array]) \in Nat \ {0}
    BY <1>2, ArrayFacts
  <2>3. Len(view.box) = Len(Shape[view.array])
    BY <1>2, <2>1, <2>2, SameLength
  <2> QED
    BY <2>2, <2>3
<1>5. ASSUME NEW d \in DOMAIN view.box
      PROVE  /\ view.box[d] \in (0..Extent) \X (0..Extent)
             /\ view.box[d] = <<view.box[d][1], view.box[d][2]>>
             /\ view.box[d][1] \in 0..Extent /\ view.box[d][2] \in 0..Extent
             /\ view.box[d][1] < view.box[d][2] /\ view.box[d][2] <= Shape[view.array][d]
  <2>1. view.box[d] \in (0..Extent) \X (0..Extent)
    BY <1>2, <1>5
  <2> QED
    BY <1>1, <2>1 DEF Within
<1>6. CASE view.kind = "field"
  <2>1. PICK f \in Range(Structure[view.array]) : view.fields = <<f>>
    BY <1>1, <1>6 DEF OfKind
  <2>2. Len(view.fields) = 1 /\ DOMAIN view.fields = {1} /\ view.fields[1] = f
    BY <2>1
  <2>3. IsInjective(view.fields)
    BY <2>2 DEF IsInjective
  <2> QED
    BY <1>2, <1>3, <1>4, <1>5, <1>6, <2>1, <2>2, <2>3
<1>7. CASE view.kind # "field"
  <2>1. view.fields = Structure[view.array] /\ (view.kind = "scalar" <=> view.array \in Scalar)
    BY <1>1, <1>7 DEF OfKind
  <2>2. /\ IsInjective(view.fields)
        /\ IF view.kind = "void" THEN Len(view.fields) > 1 ELSE Len(view.fields) = 1
    BY <1>2, <1>7, <2>1, ArraysAssumption
  <2>3. \A k \in DOMAIN view.fields : view.fields[k] \in Range(Structure[view.array])
    BY <2>1 DEF Range
  <2> QED
    BY <1>2, <1>3, <1>4, <1>5, <2>1, <2>2, <2>3, ArrayFacts
<1> QED
  BY <1>6, <1>7

LEMMA WholeFacts ==
    ASSUME NEW a \in Arrays
    PROVE  /\ Whole(a) \in Seq((0..Extent) \X (0..Extent)) /\ Within(Whole(a), a)
           /\ DOMAIN Whole(a) = DOMAIN Shape[a]
           /\ \A d \in DOMAIN Shape[a] : Whole(a)[d] = <<0, Shape[a][d]>>
<1>1. /\ DOMAIN Whole(a) = DOMAIN Shape[a]
      /\ \A d \in DOMAIN Shape[a] : Whole(a)[d] = <<0, Shape[a][d]>>
  BY DEF Whole
<1>2. Extent \in Nat /\ \A d \in DOMAIN Shape[a] : Shape[a][d] \in 1..Extent
  BY ArrayFacts, SizesAssumption
<1>3. Whole(a) \in Seq((0..Extent) \X (0..Extent))
  <2>1. ASSUME NEW d \in DOMAIN Shape[a] PROVE <<0, Shape[a][d]>> \in (0..Extent) \X (0..Extent)
    <3>1. Shape[a][d] \in 1..Extent
      BY <1>2, <2>1
    <3> QED
      BY <1>2, <3>1
  <2>2. Whole(a) \in [DOMAIN Shape[a] -> (0..Extent) \X (0..Extent)]
    BY <2>1 DEF Whole
  <2>3. Shape[a] \in Seq(1..Extent)
    BY ArrayFacts
  <2> QED
    BY <2>2, <2>3, FunctionIsSeq
<1>4. Within(Whole(a), a)
  <2>1. ASSUME NEW d \in DOMAIN Shape[a]
        PROVE  Whole(a)[d][1] < Whole(a)[d][2] /\ Whole(a)[d][2] <= Shape[a][d]
    <3>1. Whole(a)[d] = <<0, Shape[a][d]>> /\ Shape[a][d] \in 1..Extent
      BY <1>1, <1>2, <2>1
    <3> QED
      BY <1>2, <3>1
  <2> QED
    BY <1>1, <2>1 DEF Within
<1> QED
  BY <1>1, <1>3, <1>4

LEMMA OpenSound ==
    ASSUME NEW a \in Arrays, NEW field, Selectable(a, field)
    PROVE  /\ SoundView(Open(a, field)) /\ Open(a, field).array = a
           /\ Open(a, field).box = Whole(a)
           /\ a \notin Scalar => Open(a, field).kind = IF field = "" THEN "void" ELSE "field"
           /\ a \notin Scalar /\ field # "" => Open(a, field).fields = <<field>>
<1>1. Whole(a) \in Seq((0..Extent) \X (0..Extent)) /\ Within(Whole(a), a)
  BY WholeFacts
<1>2. field \in Range(Structure[a]) => <<field>> \in Seq(Fields) /\ field # ""
  <2>1. SUFFICES ASSUME field \in Range(Structure[a]) PROVE <<field>> \in Seq(Fields) /\ field # ""
    OBVIOUS
  <2>2. field \in Fields /\ field # ""
    BY <2>1, ArrayFacts
  <2> QED
    BY <2>2, Single
<1>3. Structure[a] \in Seq(Fields)
  BY ArrayFacts
<1> QED
  BY <1>1, <1>2, <1>3 DEF Open, SoundView, ViewType, OfKind, Selectable

\* The slices are ranges of the array of a view, and not empty.
Fit(view, slices) ==
    \A d \in DOMAIN view.box : d \in DOMAIN slices =>
        /\ slices[d] \in (0..Extent) \X (0..Extent)
        /\ slices[d][1] < slices[d][2] /\ slices[d][2] <= Shape[view.array][d]

LEMMA SliceSound ==
    ASSUME NEW view, SoundView(view), NEW slices, Fit(view, slices), NEW w, w = SliceView(view, slices)
    PROVE  /\ SoundView(w) /\ w.array = view.array /\ w.kind = view.kind
           /\ w.fields = view.fields
           /\ w.box = [d \in DOMAIN view.box |-> IF d \in DOMAIN slices THEN slices[d]
                                                                      ELSE view.box[d]]
<1> DEFINE box == [d \in DOMAIN view.box |-> IF d \in DOMAIN slices THEN slices[d] ELSE view.box[d]]
<1>1. view \in ViewType /\ Within(view.box, view.array) /\ OfKind(view)
  BY DEF SoundView
<1>2. w = [view EXCEPT !.box = box]
  BY <1>1 DEF SliceView, ViewType
<1>3. \A d \in 1..Len(view.box) : box[d] \in (0..Extent) \X (0..Extent)
  <2>1. \A d \in 1..Len(view.box) : view.box[d] \in (0..Extent) \X (0..Extent)
    BY SoundFacts
  <2> QED
    BY <2>1, SoundFacts DEF Fit
<1>4. box \in Seq((0..Extent) \X (0..Extent))
  <2>1. view.box \in Seq((0..Extent) \X (0..Extent)) /\ DOMAIN view.box = 1..Len(view.box)
    BY SoundFacts
  <2>2. box \in [DOMAIN view.box -> (0..Extent) \X (0..Extent)]
    BY <1>3, <2>1
  <2> DEFINE Pair == (0..Extent) \X (0..Extent)
  <2>3. view.box \in Seq(Pair) /\ box \in [DOMAIN view.box -> Pair]
    BY <2>1, <2>2
  <2> HIDE DEF box, Pair
  <2>4. box \in Seq(Pair)
    BY <2>3, FunctionIsSeq
  <2> QED
    BY <2>4 DEF Pair
<1>5. Within(box, view.array)
  BY <1>1 DEF Within, Fit
<1> HIDE DEF box
<1>6. /\ w \in ViewType /\ w.box = box /\ w.array = view.array /\ w.kind = view.kind
      /\ w.fields = view.fields
  BY <1>1, <1>2, <1>4 DEF ViewType
<1>7. SoundView(w)
  BY <1>1, <1>5, <1>6 DEF SoundView, OfKind
<1> QED
  BY <1>6, <1>7 DEF box

\* A slice of the first dimension.
LEMMA WindowSound ==
    ASSUME NEW view, SoundView(view), NEW lo \in 0..Extent, NEW hi \in 0..Extent,
           lo < hi, hi <= Shape[view.array][1], NEW w, w = SliceView(view, <<<<lo, hi>>>>)
    PROVE  SoundView(w) /\ w.array = view.array
<1> DEFINE slices == <<<<lo, hi>>>>
<1>1. DOMAIN slices = {1} /\ slices[1] = <<lo, hi>>
  OBVIOUS
<1>2. /\ <<lo, hi>> \in (0..Extent) \X (0..Extent) /\ <<lo, hi>>[1] = lo /\ <<lo, hi>>[2] = hi
  OBVIOUS
<1> HIDE DEF slices
<1>3. Fit(view, slices)
  <2> SUFFICES ASSUME NEW d \in DOMAIN view.box, d \in DOMAIN slices
               PROVE  /\ slices[d] \in (0..Extent) \X (0..Extent)
                      /\ slices[d][1] < slices[d][2] /\ slices[d][2] <= Shape[view.array][d]
    BY DEF Fit
  <2>1. d = 1
    BY <1>1
  <2> QED
    BY <1>1, <1>2, <2>1
<1>4. w = SliceView(view, slices)
  BY DEF slices
<1>5. SoundView(w)
  BY <1>3, <1>4, SliceSound
<1>6. w.array = view.array
  BY <1>4 DEF SliceView, SoundView, ViewType
<1> QED
  BY <1>5, <1>6

LEMMA SoundOK ==
    ASSUME NEW view, SoundView(view)
    PROVE  ViewOK(view)
<1>1. view.array \in Arrays /\ Range(view.fields) \subseteq Range(Structure[view.array])
  <2>1. \A k \in DOMAIN view.fields : view.fields[k] \in Range(Structure[view.array])
    BY SoundFacts
  <2> QED
    BY <2>1, SoundFacts DEF Range
<1>2. DOMAIN view.box = DOMAIN Shape[view.array]
  BY DEF SoundView, Within
<1>3. \A d \in DOMAIN view.box :
         /\ view.box[d][1] \in 0..Extent
         /\ view.box[d][1] < view.box[d][2] /\ view.box[d][2] <= Shape[view.array][d]
  BY SoundFacts
<1>4. \A d \in DOMAIN view.box : 0 <= view.box[d][1]
  BY <1>3, SizesAssumption
<1> QED
  BY <1>1, <1>2, <1>3, <1>4 DEF ViewOK

-----------------------------------------------------------------------------
(* The indexes of a view *)

\* There are finitely many functions between finite sets: their graphs are
\* sets of pairs.
LEMMA FunctionsFinite ==
    ASSUME NEW S, IsFiniteSet(S), NEW T, IsFiniteSet(T)
    PROVE  IsFiniteSet([S -> T])
<1> DEFINE graph(f) == {<<x, f[x]>> : x \in S}
<1> DEFINE g == [f \in [S -> T] |-> graph(f)]
<1>1. IsFiniteSet(SUBSET (S \X T))
  BY FS_Product, FS_SUBSET
<1>2. g \in [[S -> T] -> SUBSET (S \X T)]
  OBVIOUS
<1>3. ASSUME NEW e \in [S -> T], NEW f \in [S -> T], g[e] = g[f] PROVE e = f
  <2>1. ASSUME NEW x \in S PROVE e[x] = f[x]
    <3>1. <<x, e[x]>> \in graph(f)
      BY <1>3
    <3>2. PICK y \in S : <<x, e[x]>> = <<y, f[y]>>
      BY <3>1
    <3> QED
      BY <3>2
  <2> QED
    BY <2>1
<1> HIDE DEF g
<1>4. g \in Injection([S -> T], SUBSET (S \X T))
  BY <1>2, <1>3 DEF Injection, IsInjective
<1> QED
  BY <1>1, <1>4, FS_Injection

LEMMA WindowFinite ==
    ASSUME NEW view, SoundView(view)
    PROVE  IsFiniteSet(Window(view))
<1>1. DOMAIN Shape[view.array] = 1..Len(Shape[view.array]) /\ Len(Shape[view.array]) \in Nat
  <2>1. view.array \in Arrays
    BY SoundFacts
  <2> QED
    BY <2>1, ArrayFacts
<1>2. IsFiniteSet([DOMAIN Shape[view.array] -> 0..(Extent - 1)])
  <2>1. 1 \in Int /\ Len(Shape[view.array]) \in Int /\ 0 \in Int /\ Extent - 1 \in Int
    BY <1>1, SizesAssumption
  <2>2. IsFiniteSet(1..Len(Shape[view.array])) /\ IsFiniteSet(0..(Extent - 1))
    BY <2>1, FS_Interval
  <2> QED
    BY <1>1, <2>2, FunctionsFinite
<1>3. Window(view) \subseteq [DOMAIN Shape[view.array] -> 0..(Extent - 1)]
  BY DEF Window, Indexes
<1> QED
  BY <1>2, <1>3, FS_Subset

\* An index is in a view if it is in its box.
LEMMA InWindow ==
    ASSUME NEW view, SoundView(view), NEW x, x = [d \in DOMAIN view.box |-> x[d]]
    PROVE  x \in Window(view) <=>
              \A d \in DOMAIN view.box :
                  x[d] \in Int /\ view.box[d][1] <= x[d] /\ x[d] < view.box[d][2]
<1>1. DOMAIN view.box = DOMAIN Shape[view.array]
  BY DEF SoundView, Within
<1>2. ASSUME NEW d \in DOMAIN view.box, x[d] \in Int, view.box[d][1] <= x[d], x[d] < view.box[d][2]
      PROVE  x[d] \in 0..(Extent - 1) /\ x[d] < Shape[view.array][d]
  <2>1. /\ view.box[d][1] \in 0..Extent /\ view.box[d][2] \in 0..Extent
        /\ view.box[d][2] <= Shape[view.array][d] /\ view.array \in Arrays
    BY SoundFacts
  <2>2. Shape[view.array][d] \in 1..Extent
    BY <1>1, <2>1, ArrayFacts
  <2> QED
    BY <1>2, <2>1, <2>2, SizesAssumption
<1>3. ASSUME NEW d \in DOMAIN view.box, x[d] \in 0..(Extent - 1) PROVE x[d] \in Int
  BY <1>3, SizesAssumption
<1>4. Window(view) = {y \in [DOMAIN view.box -> 0..(Extent - 1)] :
                         \A d \in DOMAIN view.box :
                             /\ y[d] < Shape[view.array][d]
                             /\ view.box[d][1] <= y[d] /\ y[d] < view.box[d][2]}
  BY <1>1 DEF Window, Indexes
<1>5. CASE x \in Window(view)
  BY <1>3, <1>4, <1>5
<1>6. CASE \A d \in DOMAIN view.box :
              x[d] \in Int /\ view.box[d][1] <= x[d] /\ x[d] < view.box[d][2]
  <2>1. x \in [DOMAIN view.box -> 0..(Extent - 1)]
    BY <1>2, <1>6
  <2> QED
    BY <1>2, <1>4, <1>6, <2>1
<1> QED
  BY <1>5, <1>6

-----------------------------------------------------------------------------
(* Views that fit *)

LEMMA IntervalsFacts ==
    ASSUME NEW view, SoundView(view)
    PROVE  /\ view.kind # "void" => Intervals(view) = view.box /\ Len(Intervals(view)) = Len(view.box)
           /\ view.kind = "void" =>
                 /\ Len(Intervals(view)) = Len(view.box) + 1
                 /\ Front(Intervals(view)) = view.box
                 /\ Len(view.box) + 1 \in DOMAIN Intervals(view)
                 /\ Intervals(view)[Len(view.box) + 1] = <<0, Len(view.fields)>>
           /\ \A d \in DOMAIN view.box : d \in DOMAIN Intervals(view) /\ Intervals(view)[d] = view.box[d]
<1> DEFINE Pair == Int \X Int
<1>1. /\ view.box \in Seq((0..Extent) \X (0..Extent)) /\ Len(view.box) \in Nat
      /\ DOMAIN view.box = 1..Len(view.box) /\ Len(view.fields) \in Nat
  BY SoundFacts
<1>2. view.box \in Seq(Pair)
  <2>1. (0..Extent) \X (0..Extent) \subseteq Pair
    BY SizesAssumption
  <2> QED
    BY <1>1, <2>1, SeqMonotonic
<1>3. <<0, Len(view.fields)>> \in Pair
  BY <1>1
<1> DEFINE last == <<0, Len(view.fields)>>
           longer == Append(view.box, last)
<1>4. /\ longer \in Seq(Pair) /\ Len(longer) = Len(view.box) + 1
      /\ \A i \in 1..Len(view.box) : longer[i] = view.box[i]
      /\ longer[Len(view.box) + 1] = last
  BY <1>2, <1>3, AppendProperties
<1>5. Front(longer) = view.box
  <2> HIDE DEF last
  <2> QED
    BY <1>1, <1>2, <1>3 DEF Front, last
<1>6. DOMAIN longer = 1..(Len(view.box) + 1)
  <2> HIDE DEF longer, Pair
  <2> QED
    BY <1>4, SeqFacts
<1>7. CASE view.kind = "void"
  <2>1. Intervals(view) = longer
    BY <1>7 DEF Intervals
  <2>2. Front(Intervals(view)) = view.box
    BY <1>5, <2>1
  <2> HIDE DEF longer
  <2>3. Len(view.box) + 1 \in DOMAIN longer /\ \A d \in DOMAIN view.box : d \in DOMAIN longer
    BY <1>1, <1>6
  <2>4. \A d \in DOMAIN view.box : longer[d] = view.box[d]
    BY <1>1, <1>4
  <2> HIDE DEF last
  <2>5. Len(longer) = Len(view.box) + 1 /\ longer[Len(view.box) + 1] = <<0, Len(view.fields)>>
    BY <1>4 DEF last
  <2> QED
    BY <1>7, <2>1, <2>2, <2>3, <2>4, <2>5
<1>8. CASE view.kind # "void"
  BY <1>8 DEF Intervals
<1> QED
  BY <1>7, <1>8

LEMMA SizesFacts ==
    ASSUME NEW view, SoundView(view)
    PROVE  /\ \A d \in DOMAIN view.box : Sizes(view)[d] = view.box[d][2] - view.box[d][1]
           /\ view.kind = "void" => Sizes(view)[Len(view.box) + 1] = Len(view.fields)
<1>1. \A d \in DOMAIN Intervals(view) : Sizes(view)[d] = Intervals(view)[d][2] - Intervals(view)[d][1]
  BY DEF Sizes
<1>2. Len(view.fields) \in Nat
  BY SoundFacts
<1>3. ASSUME view.kind = "void" PROVE Sizes(view)[Len(view.box) + 1] = Len(view.fields)
  <2> DEFINE n == Len(view.box) + 1
  <2>1. n \in DOMAIN Intervals(view) /\ Intervals(view)[n] = <<0, Len(view.fields)>>
    BY <1>3, IntervalsFacts
  <2>2. Sizes(view)[n] = Len(view.fields) - 0
    BY <1>1, <2>1
  <2> QED
    BY <1>2, <2>2
<1>4. ASSUME NEW d \in DOMAIN view.box PROVE Sizes(view)[d] = view.box[d][2] - view.box[d][1]
  <2>1. d \in DOMAIN Intervals(view) /\ Intervals(view)[d] = view.box[d]
    BY <1>4, IntervalsFacts
  <2> QED
    BY <1>1, <2>1
<1> QED
  BY <1>3, <1>4

\* An index moved from one box to another.
Moved(x, from, to) == [d \in DOMAIN to |-> IF d \in DOMAIN x THEN x[d] - from[d][1] + to[d][1]
                                                            ELSE to[d][1]]

\* Views of the same sizes in all dimensions of the first.
Covers(v, w) ==
    /\ DOMAIN v.box \subseteq DOMAIN w.box
    /\ \A d \in DOMAIN v.box : v.box[d][2] - v.box[d][1] = w.box[d][2] - w.box[d][1]

LEMMA MovedInWindow ==
    ASSUME NEW v, SoundView(v), NEW w, SoundView(w), Covers(v, w), NEW x \in Window(v)
    PROVE  /\ Moved(x, v.box, w.box) \in Window(w)
           /\ DOMAIN x = DOMAIN v.box /\ \A d \in DOMAIN v.box : x[d] \in Int
<1>1. x = [d \in DOMAIN v.box |-> x[d]]
  BY DEF Window, Indexes, SoundView, Within
<1>2. \A d \in DOMAIN v.box : x[d] \in Int /\ v.box[d][1] <= x[d] /\ x[d] < v.box[d][2]
  BY <1>1, InWindow
<1> DEFINE y == Moved(x, v.box, w.box)
<1>3. y = [d \in DOMAIN w.box |-> y[d]]
  BY DEF Moved
<1>4. ASSUME NEW d \in DOMAIN w.box
      PROVE  y[d] \in Int /\ w.box[d][1] <= y[d] /\ y[d] < w.box[d][2]
  <2>1. w.box[d][1] \in Int /\ w.box[d][2] \in Int /\ w.box[d][1] < w.box[d][2]
    <3>1. w.box[d][1] \in 0..Extent /\ w.box[d][2] \in 0..Extent /\ w.box[d][1] < w.box[d][2]
      BY <1>4, SoundFacts
    <3> QED
      BY <3>1, SizesAssumption
  <2>2. CASE d \in DOMAIN x
    <3>1. d \in DOMAIN v.box
      BY <1>1, <2>2
    <3>2. v.box[d][1] \in 0..Extent /\ v.box[d][2] \in 0..Extent
      BY <3>1, SoundFacts
    <3>3. v.box[d][1] \in Int /\ v.box[d][2] \in Int
      BY <3>2, SizesAssumption
    <3>4. y[d] = x[d] - v.box[d][1] + w.box[d][1]
      BY <2>2 DEF Moved
    <3>5. v.box[d][2] - v.box[d][1] = w.box[d][2] - w.box[d][1]
      BY <3>1 DEF Covers
    <3>6. x[d] \in Int /\ v.box[d][1] <= x[d] /\ x[d] < v.box[d][2]
      BY <1>2, <3>1
    <3> HIDE DEF y
    <3> QED
      BY <2>1, <3>3, <3>4, <3>5, <3>6
  <2>3. CASE d \notin DOMAIN x
    <3>1. y[d] = w.box[d][1]
      BY <2>3 DEF Moved
    <3> HIDE DEF y
    <3> QED
      BY <2>1, <3>1
  <2> QED
    BY <2>2, <2>3
<1> HIDE DEF y
<1>5. y \in Window(w)
  BY <1>3, <1>4, InWindow
<1> QED
  BY <1>1, <1>2, <1>5 DEF y

\* With one dimension more, of two indexes or more, a view has more indexes.
LEMMA NarrowerHasFewer ==
    ASSUME NEW v, SoundView(v), NEW w, SoundView(w), Covers(v, w),
           NEW n \in DOMAIN w.box, n \notin DOMAIN v.box, w.box[n][2] - w.box[n][1] > 1
    PROVE  Cardinality(Window(v)) # Cardinality(Window(w))
<1> DEFINE g == [x \in Window(v) |-> Moved(x, v.box, w.box)]
<1>1. IsFiniteSet(Window(w))
  BY WindowFinite
<1>2. g \in [Window(v) -> Window(w)]
  BY MovedInWindow
<1>3. ASSUME NEW x \in Window(v), NEW y \in Window(v), g[x] = g[y] PROVE x = y
  <2>1. DOMAIN x = DOMAIN v.box /\ DOMAIN y = DOMAIN v.box
    BY MovedInWindow
  <2>2. ASSUME NEW d \in DOMAIN v.box PROVE x[d] = y[d]
    <3>1. d \in DOMAIN w.box
      BY <2>2 DEF Covers
    <3>2. /\ Moved(x, v.box, w.box)[d] = x[d] - v.box[d][1] + w.box[d][1]
          /\ Moved(y, v.box, w.box)[d] = y[d] - v.box[d][1] + w.box[d][1]
      BY <2>1, <2>2, <3>1 DEF Moved
    <3>3. x[d] - v.box[d][1] + w.box[d][1] = y[d] - v.box[d][1] + w.box[d][1]
      BY <1>3, <3>2
    <3>4. x[d] \in Int /\ y[d] \in Int
      BY <2>2, MovedInWindow
    <3>5. v.box[d][1] \in 0..Extent /\ w.box[d][1] \in 0..Extent
      BY <2>2, <3>1, SoundFacts
    <3>6. v.box[d][1] \in Int /\ w.box[d][1] \in Int
      BY <3>5, SizesAssumption
    <3> DEFINE p == x[d]
               q == y[d]
               lo == v.box[d][1]
               to == w.box[d][1]
    <3>7. p \in Int /\ q \in Int /\ lo \in Int /\ to \in Int /\ p - lo + to = q - lo + to
      BY <3>3, <3>4, <3>6
    <3> HIDE DEF p, q, lo, to
    <3>8. p = q
      BY <3>7
    <3> QED
      BY <3>8 DEF p, q
  <2>3. x = [d \in DOMAIN v.box |-> x[d]] /\ y = [d \in DOMAIN v.box |-> y[d]]
    BY DEF Window, Indexes, SoundView, Within
  <2> QED
    BY <2>2, <2>3
<1>4. g \in Injection(Window(v), Window(w))
  <2> HIDE DEF g
  <2> QED
    BY <1>2, <1>3 DEF Injection, IsInjective
<1>5. g \notin Surjection(Window(v), Window(w))
  <2> DEFINE y == [d \in DOMAIN w.box |-> IF d = n THEN w.box[d][1] + 1 ELSE w.box[d][1]]
  <2>1. ASSUME NEW d \in DOMAIN w.box
        PROVE  y[d] \in Int /\ w.box[d][1] <= y[d] /\ y[d] < w.box[d][2]
    <3>1. w.box[d][1] \in 0..Extent /\ w.box[d][2] \in 0..Extent /\ w.box[d][1] < w.box[d][2]
      BY <2>1, SoundFacts
    <3>2. w.box[d][1] \in Int /\ w.box[d][2] \in Int
      BY <3>1, SizesAssumption
    <3>3. d = n => w.box[d][2] - w.box[d][1] > 1
      OBVIOUS
    <3>4. y[d] = IF d = n THEN w.box[d][1] + 1 ELSE w.box[d][1]
      BY <2>1
    <3> HIDE DEF y
    <3> QED
      BY <3>1, <3>2, <3>3, <3>4
  <2>2. y = [d \in DOMAIN w.box |-> y[d]]
    OBVIOUS
  <2>3. y[n] = w.box[n][1] + 1
    OBVIOUS
  <2> HIDE DEF y
  <2>4. y \in Window(w)
    BY <2>1, <2>2, InWindow
  <2>5. ASSUME NEW x \in Window(v) PROVE g[x] # y
    <3>1. n \notin DOMAIN x
      BY MovedInWindow
    <3>2. g[x][n] = w.box[n][1]
      BY <2>5, <3>1 DEF Moved
    <3>3. w.box[n][1] \in 0..Extent
      BY SoundFacts
    <3>4. w.box[n][1] \in Int
      BY <3>3, SizesAssumption
    <3> HIDE DEF g
    <3> QED
      BY <2>3, <3>2, <3>4
  <2> HIDE DEF g
  <2> QED
    BY <2>4, <2>5 DEF Surjection
<1> HIDE DEF g
<1> QED
  BY <1>1, <1>4, <1>5, FS_Injection

\* Two views that fit have the same sizes, index by index and within an element: a
\* dimension of the array is never taken for the bytes of a record.
LEMMA CompatibleFacts ==
    ASSUME NEW src, SoundView(src), NEW dst, SoundView(dst), Compatible(src, dst)
    PROVE  /\ DOMAIN src.box = DOMAIN dst.box /\ Covers(src, dst) /\ Covers(dst, src)
           /\ Len(src.fields) = Len(dst.fields)
<1>1. /\ Len(Intervals(src)) = Len(Intervals(dst))
      /\ \A d \in DOMAIN Intervals(src) : Sizes(src)[d] = Sizes(dst)[d]
      /\ Cardinality(Window(src)) = Cardinality(Window(dst))
  BY DEF Compatible
<1>2. /\ DOMAIN src.box = 1..Len(src.box) /\ DOMAIN dst.box = 1..Len(dst.box)
      /\ Len(src.box) \in Nat /\ Len(dst.box) \in Nat
      /\ Len(src.fields) \in Nat /\ Len(dst.fields) \in Nat
  BY SoundFacts
<1>3. ASSUME NEW d, d \in DOMAIN src.box, d \in DOMAIN dst.box
      PROVE  src.box[d][2] - src.box[d][1] = dst.box[d][2] - dst.box[d][1]
  <2>1. d \in DOMAIN Intervals(src)
    BY <1>3, IntervalsFacts
  <2>2. Sizes(src)[d] = src.box[d][2] - src.box[d][1] /\ Sizes(dst)[d] = dst.box[d][2] - dst.box[d][1]
    BY <1>3, SizesFacts
  <2> QED
    BY <1>1, <2>1, <2>2
<1>4. CASE src.kind = "void" <=> dst.kind = "void"
  <2>1. Len(src.box) = Len(dst.box)
    BY <1>1, <1>2, <1>4, IntervalsFacts
  <2>2. DOMAIN src.box = DOMAIN dst.box /\ Covers(src, dst) /\ Covers(dst, src)
    BY <1>2, <1>3, <2>1 DEF Covers
  <2>3. Len(src.fields) = Len(dst.fields)
    <3>1. CASE src.kind = "void"
      <4>1. Len(src.box) + 1 \in DOMAIN Intervals(src)
        BY <3>1, IntervalsFacts
      <4>2. Sizes(src)[Len(src.box) + 1] = Len(src.fields) /\ Sizes(dst)[Len(dst.box) + 1] = Len(dst.fields)
        BY <1>4, <3>1, SizesFacts
      <4> QED
        BY <1>1, <2>1, <4>1, <4>2
    <3>2. CASE src.kind # "void"
      <4>1. Len(src.fields) = 1 /\ Len(dst.fields) = 1
        BY <1>4, <3>2, SoundFacts
      <4> QED
        BY <4>1
    <3> QED
      BY <3>1, <3>2
  <2> QED
    BY <2>2, <2>3
<1>5. CASE src.kind = "void" /\ dst.kind # "void"
  <2>1. Len(dst.box) = Len(src.box) + 1
    BY <1>1, <1>5, IntervalsFacts
  <2>2. DOMAIN src.box \subseteq DOMAIN dst.box /\ Len(dst.box) \in DOMAIN dst.box /\ Len(dst.box) \notin DOMAIN src.box
    BY <1>2, <2>1
  <2>3. Covers(src, dst)
    BY <1>3, <2>2 DEF Covers
  <2>4. dst.box[Len(dst.box)][2] - dst.box[Len(dst.box)][1] > 1
    <3>1. Len(src.fields) > 1
      BY <1>5, SoundFacts
    <3>2. Sizes(src)[Len(src.box) + 1] = Len(src.fields) /\ Len(src.box) + 1 \in DOMAIN Intervals(src)
      BY <1>5, SizesFacts, IntervalsFacts
    <3>3. Sizes(dst)[Len(dst.box)] = dst.box[Len(dst.box)][2] - dst.box[Len(dst.box)][1]
      BY <2>2, SizesFacts
    <3> QED
      BY <1>1, <2>1, <3>1, <3>2, <3>3
  <2>5. Cardinality(Window(src)) # Cardinality(Window(dst))
    BY <2>2, <2>3, <2>4, NarrowerHasFewer
  <2> QED
    BY <1>1, <2>5
<1>6. CASE src.kind # "void" /\ dst.kind = "void"
  <2>1. Len(src.box) = Len(dst.box) + 1
    BY <1>1, <1>6, IntervalsFacts
  <2>2. DOMAIN dst.box \subseteq DOMAIN src.box /\ Len(src.box) \in DOMAIN src.box /\ Len(src.box) \notin DOMAIN dst.box
    BY <1>2, <2>1
  <2>3. Covers(dst, src)
    BY <1>3, <2>2 DEF Covers
  <2>4. src.box[Len(src.box)][2] - src.box[Len(src.box)][1] > 1
    <3>1. Len(dst.fields) > 1
      BY <1>6, SoundFacts
    <3>2. Sizes(dst)[Len(dst.box) + 1] = Len(dst.fields)
      BY <1>6, SizesFacts
    <3>3. /\ Sizes(src)[Len(src.box)] = src.box[Len(src.box)][2] - src.box[Len(src.box)][1]
          /\ Len(src.box) \in DOMAIN Intervals(src)
      BY <2>2, SizesFacts, IntervalsFacts
    <3> QED
      BY <1>1, <2>1, <3>1, <3>2, <3>3
  <2>5. Cardinality(Window(src)) # Cardinality(Window(dst))
    BY <2>2, <2>3, <2>4, NarrowerHasFewer
  <2> QED
    BY <1>1, <2>5
<1> QED
  BY <1>4, <1>5, <1>6

-----------------------------------------------------------------------------
(* Elements *)

LEMMA SourceIndexIn ==
    ASSUME NEW op, Fitting(op), NEW x \in Window(op.dst)
    PROVE  /\ SourceIndex(op, x) \in Window(op.src)
           /\ SourceIndex(op, x) = [d \in DOMAIN x |-> op.src.box[d][1] + (x[d] - op.dst.box[d][1])]
<1>1. SoundView(op.src) /\ SoundView(op.dst) /\ Compatible(op.src, op.dst)
  BY DEF Fitting
<1>2. DOMAIN op.src.box = DOMAIN op.dst.box /\ Covers(op.dst, op.src)
  BY <1>1, CompatibleFacts
<1>3. /\ Moved(x, op.dst.box, op.src.box) \in Window(op.src)
      /\ DOMAIN x = DOMAIN op.dst.box /\ \A d \in DOMAIN op.dst.box : x[d] \in Int
  BY <1>1, <1>2, MovedInWindow
<1>4. SourceIndex(op, x) = Moved(x, op.dst.box, op.src.box)
  BY <1>2, <1>3 DEF SourceIndex, Moved
<1>5. ASSUME NEW d \in DOMAIN x
      PROVE  x[d] - op.dst.box[d][1] + op.src.box[d][1] = op.src.box[d][1] + (x[d] - op.dst.box[d][1])
  <2>1. op.dst.box[d][1] \in 0..Extent /\ op.src.box[d][1] \in 0..Extent
    BY <1>1, <1>2, <1>3, <1>5, SoundFacts
  <2>2. op.dst.box[d][1] \in Int /\ op.src.box[d][1] \in Int /\ x[d] \in Int
    BY <1>3, <1>5, <2>1, SizesAssumption
  <2> QED
    BY <2>2
<1>6. SourceIndex(op, x) = [d \in DOMAIN x |-> op.src.box[d][1] + (x[d] - op.dst.box[d][1])]
  BY <1>5 DEF SourceIndex
<1> QED
  BY <1>3, <1>4, <1>6

Records(a) == [Range(Structure[a]) -> Element0]

LEMMA ElementType ==
    ASSUME NEW view, SoundView(view), NEW record \in Records(view.array)
    PROVE  Element(view, record) \in Elements(view)
<1>1. \A k \in DOMAIN view.fields : view.fields[k] \in Range(Structure[view.array])
  BY SoundFacts
<1> QED
  BY <1>1 DEF Element, Elements, Records

LEMMA TransformedType ==
    ASSUME NEW view, NEW element \in Elements(view)
    PROVE  Transformed(element) \in Elements(view)
<1>1. Values \in Nat \ {0}
  BY SizesAssumption
<1>2. \A n \in Element0 : (n + 1) % Values \in Element0
  BY <1>1 DEF Element0
<1> QED
  BY <1>2 DEF Transformed, Elements

LEMMA ReplacedFacts ==
    ASSUME NEW view, SoundView(view), NEW record \in Records(view.array),
           NEW element \in Elements(view)
    PROVE  /\ Replaced(view, record, element) \in Records(view.array)
           /\ \A k \in DOMAIN view.fields :
                 Replaced(view, record, element)[view.fields[k]] = element[k]
           /\ \A f \in DOMAIN record : f \notin Range(view.fields) =>
                 Replaced(view, record, element)[f] = record[f]
<1> DEFINE At(f) == CHOOSE k \in DOMAIN view.fields : view.fields[k] = f
           In(f) == \E k \in DOMAIN view.fields : view.fields[k] = f
<1>1. /\ IsInjective(view.fields) 
      /\ \A k \in DOMAIN view.fields : view.fields[k] \in Range(Structure[view.array])
  BY SoundFacts
<1>2. ASSUME NEW f, In(f) PROVE At(f) \in DOMAIN view.fields /\ view.fields[At(f)] = f
  BY <1>2
<1>3. ASSUME NEW k \in DOMAIN view.fields PROVE In(view.fields[k]) /\ At(view.fields[k]) = k
  <2>1. In(view.fields[k])
    BY <1>3
  <2>2. At(view.fields[k]) \in DOMAIN view.fields /\ view.fields[At(view.fields[k])] = view.fields[k]
    BY <1>2, <2>1
  <2> HIDE DEF At
  <2> QED
    BY <1>1, <1>3, <2>1, <2>2 DEF IsInjective
<1>4. Replaced(view, record, element) =
         [f \in DOMAIN record |-> IF In(f) THEN element[At(f)] ELSE record[f]]
  BY DEF Replaced
<1>5. \A f : In(f) <=> f \in Range(view.fields)
  BY DEF Range
<1>6. element \in [DOMAIN view.fields -> Element0] /\ record \in [Range(Structure[view.array]) -> Element0]
  BY DEF Elements, Records
<1> HIDE DEF At, In
<1>7. Replaced(view, record, element) \in Records(view.array)
  BY <1>2, <1>4, <1>6 DEF Records
<1>8. ASSUME NEW k \in DOMAIN view.fields
      PROVE  Replaced(view, record, element)[view.fields[k]] = element[k]
  <2>1. view.fields[k] \in DOMAIN record
    BY <1>1, <1>6, <1>8
  <2> QED
    BY <1>3, <1>4, <1>8, <2>1
<1>9. ASSUME NEW f \in DOMAIN record, f \notin Range(view.fields)
      PROVE  Replaced(view, record, element)[f] = record[f]
  BY <1>4, <1>5, <1>9
<1> QED
  BY <1>7, <1>8, <1>9

\* What was written is read back, and a view of other fields sees nothing of it.
LEMMA RoundTrip ==
    ASSUME NEW view, SoundView(view), NEW record \in Records(view.array),
           NEW element \in Elements(view)
    PROVE  Element(view, Replaced(view, record, element)) = element
<1>1. \A k \in DOMAIN view.fields : Replaced(view, record, element)[view.fields[k]] = element[k]
  BY ReplacedFacts
<1>2. element = [k \in DOMAIN view.fields |-> element[k]]
  BY DEF Elements
<1> QED
  BY <1>1, <1>2 DEF Element

LEMMA Untouched ==
    ASSUME NEW view, SoundView(view), NEW record \in Records(view.array),
           NEW element \in Elements(view), NEW other, SoundView(other), other.array = view.array,
           Range(other.fields) \cap Range(view.fields) = {}
    PROVE  Element(other, Replaced(view, record, element)) = Element(other, record)
<1>1. ASSUME NEW k \in DOMAIN other.fields
      PROVE  Replaced(view, record, element)[other.fields[k]] = record[other.fields[k]]
  <2>1. other.fields[k] \in Range(other.fields)
    BY <1>1 DEF Range
  <2>2. other.fields[k] \in Range(Structure[view.array])
    BY <1>1, SoundFacts
  <2>3. other.fields[k] \in DOMAIN record /\ other.fields[k] \notin Range(view.fields)
    BY <2>1, <2>2 DEF Records
  <2> QED
    BY <2>3, ReplacedFacts
<1> QED
  BY <1>1 DEF Element

-----------------------------------------------------------------------------
(* Operations *)

LEMMA EndedInv ==
    ASSUME NEW s \in States \ {"reading", "writing", "failing"}, NEW store
    PROVE  TransferInv(Ended(s), store) /\ Ended(s).state = s
BY DEF TransferInv, Ended

\* Disturbing a transfer keeps what its buffer says.
LEMMA DisturbedInv ==
    ASSUME NEW op, op.state \in {"reading", "writing"}, NEW store, TransferInv(op, store), NEW next,
           NEW new, new = [op EXCEPT !.undisturbed = FALSE]
    PROVE  TransferInv(new, next) /\ new.state = op.state
<1>1. Fitting(op) /\ op.state \in States
  BY DEF TransferInv
<1>2. new = [state |-> op.state, src |-> op.src, dst |-> op.dst, fn |-> op.fn, left |-> op.left,
             buffer |-> op.buffer, start |-> op.start, undisturbed |-> FALSE]
  BY <1>1 DEF Fitting, Operation
<1>3. /\ new.state = op.state /\ new.src = op.src /\ new.dst = op.dst /\ new.fn = op.fn
      /\ new.left = op.left /\ new.buffer = op.buffer /\ new.undisturbed = FALSE
  BY <1>2
<1>4. Fitting(new)
  <2>1. Operation(new)
    BY <1>2 DEF Operation
  <2> QED
    BY <1>1, <1>3, <2>1 DEF Fitting
<1>5. op.state = "reading" => ReadingInv(new, next)
  BY <1>3 DEF TransferInv, ReadingInv
<1>6. op.state = "writing" => WritingInv(new, next)
  BY <1>3 DEF TransferInv, WritingInv, Clean
<1> QED
  BY <1>1, <1>3, <1>4, <1>5, <1>6 DEF TransferInv

LEMMA ViewsSound ==
    ASSUME CollectionInv, SelectionInv, NEW seen \in Views
    PROVE  SoundView(seen)
<1>1. ASSUME NEW v \in Held PROVE SoundView(v)
  BY <1>1 DEF Held, CollectionInv, SelectionInv
<1>2. ASSUME NEW v \in Held, v.box[1] = <<0, Extent>>, NEW window \in Windows,
             seen = SliceView(v, <<window>>)
      PROVE  SoundView(seen)
  <2>1. SoundView(v)
    BY <1>1, <1>2
  <2>2. PICK lo \in 0..Extent, hi \in 0..Extent : lo < hi /\ window = <<lo, hi>>
    BY <1>2, WindowsAssumption
  <2>3. 1 \in DOMAIN v.box /\ v.box[1][2] <= Shape[v.array][1]
    <3>1. DOMAIN v.box = 1..Len(v.box) /\ Len(v.box) \in Nat \ {0}
      BY <2>1, SoundFacts
    <3>2. 1 \in DOMAIN v.box
      BY <3>1
    <3> QED
      BY <2>1, <3>2, SoundFacts
  <2>4. Shape[v.array][1] \in 1..Extent
    <3>1. v.array \in Arrays /\ DOMAIN v.box = DOMAIN Shape[v.array]
      BY <2>1, SoundFacts DEF SoundView, Within
    <3> QED
      BY <2>3, <3>1, ArrayFacts
  <2>5. hi <= Shape[v.array][1]
    <3>1. v.box[1][2] = Extent
      BY <1>2
    <3> QED
      BY <2>2, <2>3, <2>4, <3>1, SizesAssumption
  <2>6. seen = SliceView(v, <<<<lo, hi>>>>)
    BY <1>2, <2>2
  <2> QED
    BY <2>1, <2>2, <2>5, <2>6, WindowSound
<1>3. CASE seen \notin Held
  <2> DEFINE Sliced == {v \in Held : v.array \in Parted /\ v.box[1] = <<0, Extent>>}
  <2>1. seen \in UNION {{SliceView(view, <<window>>) : window \in Windows} : view \in Sliced}
    BY <1>3 DEF Views
  <2> HIDE DEF Sliced
  <2>2. PICK v \in Sliced, window \in Windows : seen = SliceView(v, <<window>>)
    BY <2>1
  <2>3. v \in Held /\ v.box[1] = <<0, Extent>>
    BY <2>2 DEF Sliced
  <2> QED
    BY <1>2, <2>2, <2>3
<1> QED
  BY <1>1, <1>3

-----------------------------------------------------------------------------
(* The views of the dataset *)

LEMMA InitTInv ==
    ASSUME Init
    PROVE  TInv
<1>1. CollectionInv
  <2>1. \A a \in Arrays : SoundView(Open(a, "")) /\ Open(a, "").array = a
    BY OpenSound DEF Selectable
  <2>2. collection = [a \in Arrays |-> Open(a, "")]
    BY DEF Init
  <2> QED
    BY <2>1, <2>2 DEF CollectionInv
<1>2. DataInv
  <2>1. \A a \in Arrays : \A x \in Indexes(a), f \in Range(Structure[a]) : InitialValue(a, x, f) \in Element0
    BY InitialAssumption DEF Element0
  <2> QED
    BY <2>1 DEF Init, DataInv
<1>3. SelectionInv
  <2>1. selection.state = "none"
    BY DEF Init, Ended
  <2> QED
    BY <2>1 DEF SelectionInv, SelectedIsSliced
<1>4. TransfersInv
  <2>1. \A t \in Transfers : transfers[t] = Ended("none")
    BY DEF Init
  <2>2. TransferInv(Ended("none"), data)
    BY EndedInv DEF States
  <2> QED
    BY <2>1, <2>2 DEF TransfersInv, Init
<1> QED
  BY <1>1, <1>2, <1>3, <1>4 DEF TInv

LEMMA IselKeeps ==
    ASSUME TInv, NEW window \in Windows, Isel(window)
    PROVE  TInv'
<1> DEFINE lo(view) == IF window[1] > view.box[1][1] THEN window[1] ELSE view.box[1][1]
           hi(view) == IF window[2] < view.box[1][2] THEN window[2] ELSE view.box[1][2]
           new(view) == SliceView(view, <<<<lo(view), hi(view)>>>>)
<1>1. /\ \A a \in Arrays : lo(collection[a]) < hi(collection[a])
      /\ collection' = [a \in Arrays |-> new(collection[a])]
      /\ UNCHANGED <<data, selection, transfers>>
  BY DEF Isel
<1>2. CollectionInv /\ DataInv /\ SelectionInv /\ TransfersInv
  BY DEF TInv
<1>3. ASSUME NEW a \in Arrays PROVE SoundView(new(collection[a])) /\ new(collection[a]).array = a
  <2> DEFINE v == collection[a]
  <2>1. SoundView(v) /\ v.array = a
    BY <1>2, <1>3 DEF CollectionInv
  <2>2. v.box[1][1] \in 0..Extent /\ v.box[1][2] \in 0..Extent /\ v.box[1][2] <= Shape[v.array][1]
    <3>1. DOMAIN v.box = 1..Len(v.box) /\ Len(v.box) \in Nat \ {0}
      BY <2>1, SoundFacts
    <3>2. 1 \in DOMAIN v.box
      BY <3>1
    <3> QED
      BY <2>1, <3>2, SoundFacts
  <2>3. PICK l \in 0..Extent, h \in 0..Extent : l < h /\ window = <<l, h>>
    BY WindowsAssumption
  <2>4. lo(v) < hi(v)
    BY <1>1, <1>3
  <2>5. Shape[v.array][1] \in 1..Extent
    <3>1. 1 \in DOMAIN Shape[a]
      <4>1. DOMAIN Shape[a] = 1..Len(Shape[a]) /\ Len(Shape[a]) \in Nat \ {0}
        BY <1>3, ArrayFacts
      <4> QED
        BY <4>1
    <3> QED
      BY <1>3, <2>1, <3>1, ArrayFacts
  <2>6. lo(v) \in 0..Extent
    BY <2>2, <2>3
  <2>7. hi(v) \in 0..Extent /\ hi(v) <= Shape[v.array][1]
    <3>1. window[2] = h
      BY <2>3
    <3> HIDE DEF v
    <3>2. hi(v) \in 0..Extent
      BY <2>2, <2>3, <3>1
    <3>3. hi(v) <= v.box[1][2]
      BY <2>2, <2>3, <3>1, SizesAssumption
    <3> HIDE DEF hi
    <3> QED
      BY <2>2, <2>5, <3>2, <3>3, SizesAssumption
  <2> HIDE DEF v, lo, hi
  <2>8. SoundView(new(v)) /\ new(v).array = v.array
    BY <2>1, <2>4, <2>6, <2>7, WindowSound
  <2> HIDE DEF new
  <2> QED
    BY <2>1, <2>8 DEF v
<1> HIDE DEF new
<1>4. CollectionInv'
  BY <1>1, <1>3 DEF CollectionInv
<1>5. DataInv' /\ SelectionInv' /\ TransfersInv'
  BY <1>1, <1>2 DEF DataInv, SelectionInv, SelectedIsSliced, TransfersInv
<1> QED
  BY <1>4, <1>5 DEF TInv

LEMMA SelectFieldKeeps ==
    ASSUME TInv, NEW a \in Arrays, NEW field, SelectField(a, field)
    PROVE  TInv'
<1>1. CollectionInv /\ DataInv /\ SelectionInv /\ TransfersInv
  BY DEF TInv
<1>2. SoundView(collection[a]) /\ collection[a].array = a
  BY <1>1 DEF CollectionInv
<1>3. CASE Refused(collection[a], field)
  <2>1. selection' = Ended("error")
    BY <1>3 DEF SelectField
  <2>2. selection'.state = "error"
    BY <2>1 DEF Ended
  <2> QED
    BY <2>2 DEF SelectionInv, SelectedIsSliced, TInv, CollectionInv, DataInv, TransfersInv, SelectField
<1>4. CASE ~Refused(collection[a], field)
  <2>1. selection' = [state |-> "opening", asked |-> collection[a], field |-> field,
                      slices |-> Front(Intervals(collection[a]))]
    BY <1>4 DEF SelectField
  <2>2. /\ selection'.state = "opening" /\ selection'.asked = collection[a] /\ selection'.field = field
        /\ selection'.slices = Front(Intervals(collection[a]))
    BY <2>1
  <2>3. a \notin Scalar /\ Selectable(a, field)
    BY <1>2, <1>4 DEF Refused, Selectable
  <2>4. SelectionInv'
    BY <1>2, <2>2, <2>3 DEF SelectionInv, SelectedIsSliced
  <2>5. CollectionInv' /\ DataInv' /\ TransfersInv'
    BY <1>1 DEF CollectionInv, DataInv, TransfersInv, SelectField
  <2> QED
    BY <2>4, <2>5 DEF TInv
<1> QED
  BY <1>3, <1>4

SlicedAs(asked, field, result) ==
    asked.kind = "void" =>
        /\ result.box = asked.box
        /\ field # "" => result.fields = <<field>>

\* The field that was opened gets the slices of the call, in the dimensions they are for.
LEMMA SelectedSound ==
    ASSUME NEW asked, SoundView(asked), asked.array \notin Scalar,
           NEW field, Selectable(asked.array, field),
           NEW slices, slices = Front(Intervals(asked)),
           NEW result, result = SliceView(Open(asked.array, field), slices)
    PROVE  SoundView(result) /\ SlicedAs(asked, field, result)
<1> DEFINE opened == Open(asked.array, field)
<1>1. asked.array \in Arrays /\ asked.kind \in {"void", "field"}
  BY SoundFacts DEF SoundView, OfKind
<1>2. /\ SoundView(opened) /\ opened.array = asked.array /\ opened.box = Whole(asked.array)
      /\ field # "" => opened.fields = <<field>>
  BY <1>1, OpenSound
<1>3. DOMAIN opened.box = DOMAIN asked.box
  BY <1>1, <1>2, WholeFacts DEF SoundView, Within
<1>4. \A d \in DOMAIN slices : d \in DOMAIN asked.box => slices[d] = asked.box[d]
  <2>1. CASE asked.kind = "void"
    <3>1. slices = asked.box
      BY <2>1, IntervalsFacts
    <3> QED
      BY <3>1
  <2>2. CASE asked.kind # "void"
    <3>1. slices = Front(asked.box)
      BY <2>2, IntervalsFacts
    <3>2. asked.box \in Seq((0..Extent) \X (0..Extent)) /\ Len(asked.box) \in Nat \ {0}
      BY SoundFacts
    <3>3. asked.box # <<>>
      <4>1. asked.box = <<>> => Len(asked.box) = 0
        OBVIOUS
      <4> QED
        BY <3>2, <4>1
    <3> QED
      BY <3>1, <3>2, <3>3, FrontFacts
  <2> QED
    BY <2>1, <2>2
<1> HIDE DEF opened
<1>5. Fit(opened, slices)
  <2> SUFFICES ASSUME NEW d \in DOMAIN opened.box, d \in DOMAIN slices
               PROVE  /\ slices[d] \in (0..Extent) \X (0..Extent)
                      /\ slices[d][1] < slices[d][2] /\ slices[d][2] <= Shape[opened.array][d]
    BY DEF Fit
  <2>1. d \in DOMAIN asked.box /\ slices[d] = asked.box[d]
    BY <1>3, <1>4
  <2>2. /\ asked.box[d][1] \in 0..Extent /\ asked.box[d][2] \in 0..Extent
        /\ asked.box[d] = <<asked.box[d][1], asked.box[d][2]>>
        /\ asked.box[d][1] < asked.box[d][2] /\ asked.box[d][2] <= Shape[asked.array][d]
    BY <2>1, SoundFacts
  <2>3. asked.box[d] \in (0..Extent) \X (0..Extent)
    BY <2>1, SoundFacts
  <2> QED
    BY <1>2, <2>1, <2>2, <2>3
<1>6. result = SliceView(opened, slices)
  BY DEF opened
<1>7. /\ SoundView(result) /\ result.fields = opened.fields
      /\ result.box = [d \in DOMAIN opened.box |-> IF d \in DOMAIN slices THEN slices[d]
                                                                         ELSE opened.box[d]]
  <2>1. SoundView(result)
    BY <1>2, <1>5, <1>6, SliceSound
  <2> QED
    BY <1>2, <1>6, <2>1 DEF SliceView, SoundView, ViewType
<1>8. ASSUME asked.kind = "void" PROVE result.box = asked.box
  <2>1. slices = asked.box
    BY <1>8, IntervalsFacts
  <2>2. asked.box = [d \in DOMAIN asked.box |-> asked.box[d]]
    BY SoundFacts
  <2> QED
    BY <1>3, <1>7, <2>1, <2>2
<1> QED
  BY <1>2, <1>7, <1>8 DEF SlicedAs

LEMMA FieldOpenedKeeps ==
    ASSUME TInv, FieldOpened
    PROVE  TInv'
<1>1. CollectionInv /\ DataInv /\ SelectionInv /\ TransfersInv
  BY DEF TInv
<1>2. selection.state = "opening" /\ UNCHANGED <<data, transfers>>
  BY DEF FieldOpened
<1>3. /\ SoundView(selection.asked) /\ selection.asked.array \notin Scalar
      /\ Selectable(selection.asked.array, selection.field)
      /\ selection.slices = Front(Intervals(selection.asked))
  BY <1>1, <1>2 DEF SelectionInv
<1>4. DataInv' /\ TransfersInv'
  BY <1>1, <1>2 DEF DataInv, TransfersInv
<1>5. CASE selection.slices = <<>>
  BY <1>1, <1>4, <1>5 DEF FieldOpened, TInv, CollectionInv, SelectionInv, SelectedIsSliced
<1>6. CASE selection.slices # <<>>
  <2> DEFINE asked == selection.asked
             field == selection.field
             slices == selection.slices
             opened == Open(asked.array, field)
             result == SliceView(opened, slices)
  <2>1. /\ selection' = [state |-> "ok", asked |-> asked, field |-> field, result |-> result]
        /\ collection' = [collection EXCEPT ![asked.array] = opened]
    BY <1>6 DEF FieldOpened, Selected
  <2>2. /\ SoundView(asked) /\ asked.array \notin Scalar
        /\ Selectable(asked.array, field)
        /\ slices = Front(Intervals(asked)) /\ result = SliceView(Open(asked.array, field), slices)
        /\ opened = Open(asked.array, field)
    BY <1>3
  <2> HIDE DEF result, opened, slices, field, asked
  <2>3. asked.array \in Arrays /\ SoundView(opened) /\ opened.array = asked.array
    BY <2>2, SoundFacts, OpenSound
  <2>4. SoundView(result) /\ SlicedAs(asked, field, result)
    BY <2>2, SelectedSound
  <2>5. CollectionInv'
    BY <1>1, <2>1, <2>3 DEF CollectionInv
  <2>6. /\ selection'.state = "ok" /\ selection'.asked = asked
        /\ selection'.field = field /\ selection'.result = result
    BY <2>1
  <2>7. SelectionInv'
    BY <2>2, <2>4, <2>6 DEF SelectionInv, SelectedIsSliced, SlicedAs
  <2> QED
    BY <1>4, <2>5, <2>7 DEF TInv
<1> QED
  BY <1>5, <1>6

LEMMA FieldOpenFailsKeeps ==
    ASSUME TInv, FieldOpenFails
    PROVE  TInv'
<1>1. selection'.state = "error"
  BY DEF FieldOpenFails, Ended
<1> QED
  BY <1>1 DEF SelectionInv, SelectedIsSliced, TInv, CollectionInv, DataInv, TransfersInv, FieldOpenFails

-----------------------------------------------------------------------------
(* Transfers *)

LEMMA OneTransfer ==
    ASSUME TInv, NEW t \in Transfers, NEW new, TransferInv(new, data),
           transfers' = [transfers EXCEPT ![t] = new], UNCHANGED <<data, collection, selection>>
    PROVE  TInv'
<1>1. CollectionInv /\ DataInv /\ SelectionInv /\ TransfersInv
  BY DEF TInv
<1>2. TransfersInv'
  <2>1. \A u \in Transfers : transfers'[u] = IF u = t THEN new ELSE transfers[u]
    BY <1>1 DEF TransfersInv
  <2>2. \A u \in Transfers : TransferInv(transfers'[u], data)
    BY <1>1, <2>1 DEF TransfersInv
  <2>3. transfers' = [u \in Transfers |-> transfers'[u]]
    BY <1>1 DEF TransfersInv
  <2> QED
    BY <2>2, <2>3 DEF TransfersInv
<1>3. CollectionInv' /\ DataInv' /\ SelectionInv'
  BY <1>1 DEF CollectionInv, DataInv, SelectionInv, SelectedIsSliced
<1> QED
  BY <1>2, <1>3 DEF TInv

LEMMA DataRecord ==
    ASSUME DataInv, NEW view, SoundView(view), NEW x \in Window(view)
    PROVE  data[view.array][x] \in Records(view.array) /\ x \in Indexes(view.array)
<1>1. view.array \in Arrays /\ x \in Indexes(view.array)
  BY SoundFacts DEF Window
<1> QED
  BY <1>1 DEF DataInv, Records

LEMMA TransformVariableKeeps ==
    ASSUME TInv, NEW t \in Transfers, NEW src \in Views, NEW dst \in Views,
           TransformVariable(t, src, dst)
    PROVE  TInv'
<1> DEFINE op == [state |-> "reading", src |-> src, dst |-> dst, fn |-> "next",
                  left |-> Chunks(src), buffer |-> <<>>,
                  start |-> [x \in Window(src) |-> Element(src, data[src.array][x])],
                  undisturbed |-> TRUE]
<1>1. CollectionInv /\ DataInv /\ SelectionInv
  BY DEF TInv
<1>2. SoundView(src) /\ SoundView(dst)
  BY <1>1, ViewsSound
<1>3. /\ transfers' = [transfers EXCEPT ![t] = IF Compatible(src, dst) THEN op ELSE Ended("invalid")]
      /\ UNCHANGED <<data, collection, selection>>
  BY DEF TransformVariable
<1>4. CASE ~Compatible(src, dst)
  <2>1. TransferInv(Ended("invalid"), data)
    BY EndedInv DEF States
  <2> QED
    BY <1>3, <1>4, <2>1, OneTransfer
<1>5. CASE Compatible(src, dst)
  <2>1. /\ op.state = "reading" /\ op.src = src /\ op.dst = dst /\ op.left = Chunks(src)
        /\ op.buffer = <<>> /\ op.undisturbed = TRUE
        /\ op.start = [x \in Window(src) |-> Element(src, data[src.array][x])]
    OBVIOUS
  <2>2. Operation(op)
    BY DEF Operation
  <2> HIDE DEF op
  <2>3. Fitting(op)
    BY <1>2, <1>5, <2>1, <2>2 DEF Fitting
  <2>4. \A x \in Window(src) : x[1] \in op.left
    BY <2>1 DEF Chunks
  <2>5. op.buffer \in [{x \in Window(op.src) : x[1] \notin op.left} -> Elements(op.src)]
    <3>1. {x \in Window(op.src) : x[1] \notin op.left} = {}
      BY <2>1, <2>4
    <3>2. <<>> \in [{} -> Elements(op.src)]
      OBVIOUS
    <3> QED
      BY <2>1, <3>1, <3>2
  <2>6. \A x \in Window(src) : Element(src, data[src.array][x]) \in Elements(src)
    BY <1>1, <1>2, DataRecord, ElementType
  <2>7. op.start \in [Window(src) -> Elements(src)]
    BY <2>1, <2>6
  <2>8. \A x \in Window(src) : op.start[x] = Element(src, data[src.array][x])
    BY <2>1
  <2>9. ReadingInv(op, data)
    BY <2>1, <2>4, <2>5, <2>7, <2>8 DEF ReadingInv
  <2>10. TransferInv(op, data)
    BY <2>1, <2>3, <2>9 DEF TransferInv, States
  <2> QED
    BY <1>3, <1>5, <2>10, OneTransfer
<1> QED
  BY <1>4, <1>5

LEMMA ReadFailsKeeps ==
    ASSUME TInv, NEW t \in Transfers, ReadFails(t)
    PROVE  TInv'
<1>1. TransferInv(Ended("read_failed"), data)
  BY EndedInv DEF States
<1>2. /\ transfers' = [transfers EXCEPT ![t] = Ended("read_failed")]
      /\ UNCHANGED <<data, collection, selection>>
  BY DEF ReadFails
<1> QED
  BY <1>1, <1>2, OneTransfer

LEMMA FailedInv ==
    ASSUME NEW op, op.state = "writing", NEW store, TransferInv(op, store),
           NEW new, new = [op EXCEPT !.state = "failing", !.start = <<>>, !.undisturbed = FALSE]
    PROVE  TransferInv(new, store)
<1>1. Fitting(op) /\ WritingInv(op, store)
  BY DEF TransferInv
<1>2. new = [state |-> "failing", src |-> op.src, dst |-> op.dst, fn |-> op.fn, left |-> op.left,
             buffer |-> op.buffer, start |-> <<>>, undisturbed |-> FALSE]
  BY <1>1 DEF Fitting, Operation
<1>3. /\ new.state = "failing" /\ new.src = op.src /\ new.dst = op.dst /\ new.fn = op.fn
      /\ new.left = op.left /\ new.buffer = op.buffer /\ new.start = <<>> /\ new.undisturbed = FALSE
  BY <1>2
<1>4. Operation(new)
  BY <1>2 DEF Operation
<1>5. Fitting(new)
  BY <1>1, <1>3, <1>4 DEF Fitting
<1>6. WritingInv(new, store)
  BY <1>1, <1>3 DEF WritingInv, Clean
<1> QED
  BY <1>3, <1>5, <1>6 DEF TransferInv, States

LEMMA WriteFailsKeeps ==
    ASSUME TInv, NEW t \in Transfers, WriteFails(t)
    PROVE  TInv'
<1> DEFINE new == [transfers[t] EXCEPT !.state = "failing", !.start = <<>>, !.undisturbed = FALSE]
<1>1. TransfersInv /\ transfers[t].state = "writing"
  BY DEF TInv, WriteFails
<1>2. /\ transfers' = [transfers EXCEPT ![t] = new]
      /\ UNCHANGED <<data, collection, selection>>
  BY <1>1 DEF WriteFails, TransfersInv
<1>3. TransferInv(transfers[t], data)
  BY <1>1 DEF TransfersInv
<1>4. TransferInv(new, data)
  BY <1>1, <1>3, FailedInv
<1> HIDE DEF new
<1> QED
  BY <1>2, <1>4, OneTransfer

\* What a read of a chunk adds to the buffer.
LEMMA ReadPartFacts ==
    ASSUME DataInv, NEW op, Fitting(op), ReadingInv(op, data), NEW c \in op.left
    PROVE  /\ ReadPart(op, c) \in [{x \in Window(op.src) : x[1] \notin op.left \ {c}} -> Elements(op.src)]
           /\ op.undisturbed => \A x \in Window(op.src) :
                 x[1] \notin op.left \ {c} => ReadPart(op, c)[x] = op.start[x]
<1> DEFINE Known == {x \in Window(op.src) : x[1] \notin op.left}
           Next1 == {x \in Window(op.src) : x[1] \notin op.left \ {c}}
           Read(x) == Element(op.src, data[op.src.array][x])
<1>1. SoundView(op.src)
  BY DEF Fitting
<1>2. op.buffer \in [Known -> Elements(op.src)]
  BY DEF ReadingInv
<1>3. \A x \in Window(op.src) : Read(x) \in Elements(op.src)
  BY <1>1, DataRecord, ElementType
<1>4. DOMAIN op.buffer = Known
  BY <1>2
<1>5. Known \cup {x \in Window(op.src) : x[1] = c} = Next1
  OBVIOUS
<1>6. ReadPart(op, c) = [x \in Next1 |-> IF x \in Known THEN op.buffer[x] ELSE Read(x)]
  BY <1>4, <1>5 DEF ReadPart
<1> QED
  BY <1>2, <1>3, <1>6 DEF ReadingInv

\* A pass over the whole source without an error leaves nothing out.
LEMMA PassIsClean ==
    ASSUME NEW src, SoundView(src), NEW dst, SoundView(dst), Compatible(src, dst), NEW fn,
           NEW buffer \in [Window(src) -> Elements(src)], ApplyElementTransform(dst, fn, buffer),
           NEW x \in Window(src)
    PROVE  ~\/ fn = "nonzero" /\ Has(buffer[x], 0)
            \/ fn = "short" /\ Has(buffer[x], Values - 1)
<1>1. ~Refuses(fn, buffer[x]) /\ Reported(fn, buffer[x]) = Len(dst.fields)
  BY DEF ApplyElementTransform
<1>2. Len(src.fields) = Len(dst.fields) /\ Len(src.fields) \in Nat /\ DOMAIN src.fields = 1..Len(src.fields)
  BY CompatibleFacts, SoundFacts
<1>3. buffer[x] \in [1..Len(src.fields) -> Element0]
  BY <1>2 DEF Elements
<1>4. Len(buffer[x]) = Len(src.fields)
  BY <1>2, <1>3
<1>5. fn = "short" /\ Has(buffer[x], Values - 1) => Len(buffer[x]) - 1 = Len(buffer[x])
  BY <1>1, <1>2, <1>4 DEF Reported
<1> QED
  BY <1>1, <1>2, <1>4, <1>5 DEF Refuses

LEMMA ReadOnInv ==
    ASSUME DataInv, NEW op, op.state = "reading", TransferInv(op, data), NEW c \in op.left,
           NEW new, new = [op EXCEPT !.left = op.left \ {c}, !.buffer = ReadPart(op, c)]
    PROVE  TransferInv(new, data)
<1>1. Fitting(op) /\ ReadingInv(op, data)
  BY DEF TransferInv
<1>2. new = [state |-> op.state, src |-> op.src, dst |-> op.dst, fn |-> op.fn,
             left |-> op.left \ {c}, buffer |-> ReadPart(op, c),
             start |-> op.start, undisturbed |-> op.undisturbed]
  BY <1>1 DEF Fitting, Operation
<1>3. /\ new.state = "reading" /\ new.src = op.src /\ new.dst = op.dst
      /\ new.left = op.left \ {c} /\ new.buffer = ReadPart(op, c)
      /\ new.start = op.start /\ new.undisturbed = op.undisturbed
  BY <1>2
<1>4. Operation(new)
  BY <1>2 DEF Operation
<1>5. Fitting(new)
  BY <1>1, <1>3, <1>4 DEF Fitting
<1>6. /\ ReadPart(op, c) \in [{x \in Window(op.src) : x[1] \notin op.left \ {c}} -> Elements(op.src)]
      /\ op.undisturbed => \A x \in Window(op.src) :
             x[1] \notin op.left \ {c} => ReadPart(op, c)[x] = op.start[x]
  BY <1>1, ReadPartFacts
<1>7. op.undisturbed =>
         /\ op.start \in [Window(op.src) -> Elements(op.src)]
         /\ \A x \in Window(op.src) :
               x[1] \in op.left => op.start[x] = Element(op.src, data[op.src.array][x])
  BY <1>1 DEF ReadingInv
<1>8. ReadingInv(new, data)
  BY <1>3, <1>6, <1>7 DEF ReadingInv
<1> QED
  BY <1>3, <1>5, <1>8 DEF TransferInv, States

LEMMA AfterReadInv ==
    ASSUME DataInv, NEW op, op.state = "reading", TransferInv(op, data), NEW c, op.left = {c}, NEW fn
    PROVE  TransferInv(AfterRead(op, fn, ReadPart(op, c)), data)
<1> DEFINE buffer == ReadPart(op, c)
<1>1. Fitting(op) /\ ReadingInv(op, data)
  BY DEF TransferInv
<1>2. SoundView(op.src) /\ SoundView(op.dst) /\ Compatible(op.src, op.dst)
  BY <1>1 DEF Fitting
<1>3. /\ buffer \in [Window(op.src) -> Elements(op.src)]
      /\ op.undisturbed => \A x \in Window(op.src) : buffer[x] = op.start[x]
  <2>1. c \in op.left /\ \A x \in Window(op.src) : x[1] \notin op.left \ {c}
    OBVIOUS
  <2>2. {x \in Window(op.src) : x[1] \notin op.left \ {c}} = Window(op.src)
    BY <2>1
  <2> QED
    BY <1>1, <2>1, <2>2, ReadPartFacts
<1> HIDE DEF buffer
<1>4. CASE ~ApplyElementTransform(op.dst, fn, buffer)
  <2>1. AfterRead(op, fn, buffer) = Ended("refused")
    BY <1>4 DEF AfterRead
  <2>2. TransferInv(Ended("refused"), data)
    BY EndedInv DEF States
  <2> QED
    BY <2>1, <2>2 DEF buffer
<1>5. CASE ApplyElementTransform(op.dst, fn, buffer)
  <2> DEFINE new == AfterRead(op, fn, buffer)
  <2>1. new = [state |-> "writing", src |-> op.src, dst |-> op.dst, fn |-> fn,
               left |-> Chunks(op.dst), buffer |-> buffer,
               start |-> op.start, undisturbed |-> op.undisturbed]
    BY <1>1, <1>5 DEF AfterRead, Fitting, Operation
  <2> HIDE DEF new
  <2>2. /\ new.state = "writing" /\ new.src = op.src /\ new.dst = op.dst /\ new.fn = fn
        /\ new.left = Chunks(op.dst) /\ new.buffer = buffer
        /\ new.start = op.start /\ new.undisturbed = op.undisturbed
    BY <2>1
  <2>3. Operation(new)
    BY <2>1 DEF Operation
  <2>4. Fitting(new)
    BY <1>1, <2>2, <2>3 DEF Fitting
  <2>5. Clean(new)
    BY <1>2, <1>3, <1>5, <2>2, PassIsClean DEF Clean
  <2>6. new.undisturbed => new.start = new.buffer
    <3>1. op.undisturbed => op.start \in [Window(op.src) -> Elements(op.src)]
      BY <1>1 DEF ReadingInv
    <3> QED
      BY <1>3, <2>2, <3>1
  <2>7. \A x \in Window(new.dst) : x[1] \in new.left
    BY <2>2 DEF Chunks
  <2>8. WritingInv(new, data)
    BY <1>3, <2>2, <2>5, <2>6, <2>7 DEF WritingInv
  <2>9. TransferInv(new, data)
    BY <2>2, <2>4, <2>8 DEF TransferInv, States
  <2> QED
    BY <2>9 DEF new, buffer
<1> QED
  BY <1>4, <1>5

LEMMA ReadChunkKeeps ==
    ASSUME TInv, NEW t \in Transfers, NEW c, ReadChunk(t, c)
    PROVE  TInv'
<1> DEFINE op == transfers[t]
           new == [op EXCEPT !.left = op.left \ {c}, !.buffer = ReadPart(op, c)]
<1>1. DataInv /\ TransfersInv /\ op.state = "reading" /\ c \in op.left
  BY DEF TInv, ReadChunk
<1>2. TransferInv(op, data)
  BY <1>1 DEF TransfersInv
<1>3. UNCHANGED <<data, collection, selection>>
  BY DEF ReadChunk
<1>4. CASE op.left = {c} /\ \E fn \in ElementTransforms :
              transfers' = [transfers EXCEPT ![t] = AfterRead(op, fn, ReadPart(op, c))]
  <2>1. PICK fn : transfers' = [transfers EXCEPT ![t] = AfterRead(op, fn, ReadPart(op, c))]
    BY <1>4
  <2>2. TransferInv(AfterRead(op, fn, ReadPart(op, c)), data)
    BY <1>1, <1>2, <1>4, AfterReadInv
  <2> QED
    BY <1>3, <2>1, <2>2, OneTransfer
<1>5. CASE transfers' = [transfers EXCEPT ![t].left = @ \ {c}, ![t].buffer = ReadPart(op, c)]
  <2>1. transfers' = [transfers EXCEPT ![t] = new]
    BY <1>1, <1>5 DEF TransfersInv
  <2>2. TransferInv(new, data)
    BY <1>1, <1>2, ReadOnInv
  <2> HIDE DEF new
  <2> QED
    BY <1>3, <2>1, <2>2, OneTransfer
<1> QED
  BY <1>4, <1>5 DEF ReadChunk

-----------------------------------------------------------------------------
(* Writing a chunk *)

Rows(view, c) == {x \in Window(view) : x[1] = c}

\* The store with a chunk of the destination written.
Stored(op, c) ==
    [data EXCEPT ![op.dst.array] = [x \in DOMAIN @ |->
        IF x \in Rows(op.dst, c) THEN Replaced(op.dst, @[x], Transformed(op.buffer[SourceIndex(op, x)]))
                                 ELSE @[x]]]

LEMMA StoredAt ==
    ASSUME DataInv, NEW op, Fitting(op), NEW c, NEW store, store = Stored(op, c)
    PROVE  /\ \A a \in Arrays : a # op.dst.array => store[a] = data[a]
           /\ op.dst.array \in Arrays
           /\ store[op.dst.array] = [x \in Indexes(op.dst.array) |->
                 IF x \in Rows(op.dst, c)
                 THEN Replaced(op.dst, data[op.dst.array][x], Transformed(op.buffer[SourceIndex(op, x)]))
                 ELSE data[op.dst.array][x]]
<1>1. SoundView(op.dst)
  BY DEF Fitting
<1>2. op.dst.array \in Arrays
  BY <1>1, SoundFacts
<1>3. data = [a \in Arrays |-> data[a]] /\ DOMAIN data[op.dst.array] = Indexes(op.dst.array)
  BY <1>2 DEF DataInv
<1> QED
  BY <1>2, <1>3 DEF Stored

LEMMA WrittenElement ==
    ASSUME NEW op, Fitting(op), op.buffer \in [Window(op.src) -> Elements(op.src)],
           NEW x \in Window(op.dst)
    PROVE  Transformed(op.buffer[SourceIndex(op, x)]) \in Elements(op.dst)
<1>1. SoundView(op.src) /\ SoundView(op.dst) /\ Compatible(op.src, op.dst)
  BY DEF Fitting
<1>2. op.buffer[SourceIndex(op, x)] \in Elements(op.src)
  BY SourceIndexIn
<1>3. Elements(op.src) = Elements(op.dst)
  <2>1. /\ Len(op.src.fields) = Len(op.dst.fields)
        /\ DOMAIN op.src.fields = 1..Len(op.src.fields) /\ DOMAIN op.dst.fields = 1..Len(op.dst.fields)
    BY <1>1, CompatibleFacts, SoundFacts
  <2> QED
    BY <2>1 DEF Elements
<1> QED
  BY <1>2, <1>3, TransformedType

LEMMA StoredFacts ==
    ASSUME DataInv, NEW op, Fitting(op), op.buffer \in [Window(op.src) -> Elements(op.src)],
           NEW c, NEW store, store = Stored(op, c)
    PROVE  /\ \A a \in Arrays : store[a] \in [Indexes(a) -> Records(a)]
           /\ \A x \in Rows(op.dst, c) :
                 Element(op.dst, store[op.dst.array][x]) = Transformed(op.buffer[SourceIndex(op, x)])
<1> DEFINE dst == op.dst
           Written(x) == Transformed(op.buffer[SourceIndex(op, x)])
           Old(x) == data[dst.array][x]
<1>1. SoundView(dst)
  BY DEF Fitting
<1>2. /\ dst.array \in Arrays /\ \A a \in Arrays : a # dst.array => store[a] = data[a]
      /\ store[dst.array] = [x \in Indexes(dst.array) |->
            IF x \in Rows(dst, c) THEN Replaced(dst, Old(x), Written(x)) ELSE Old(x)]
  BY StoredAt
<1>3. \A a \in Arrays : data[a] \in [Indexes(a) -> Records(a)]
  BY DEF DataInv, Records
<1>4. \A x \in Rows(dst, c) : x \in Window(dst) /\ x \in Indexes(dst.array) /\ Written(x) \in Elements(dst)
  BY WrittenElement DEF Rows, Window
<1>5. \A x \in Indexes(dst.array) : Old(x) \in Records(dst.array)
  BY <1>2, <1>3
<1> HIDE DEF Written, Old, dst
<1>6. \A x \in Rows(dst, c) : /\ Replaced(dst, Old(x), Written(x)) \in Records(dst.array)
                              /\ Element(dst, Replaced(dst, Old(x), Written(x))) = Written(x)
  BY <1>1, <1>4, <1>5, ReplacedFacts, RoundTrip
<1>7. store[dst.array] \in [Indexes(dst.array) -> Records(dst.array)]
  BY <1>2, <1>5, <1>6
<1>8. \A a \in Arrays : store[a] \in [Indexes(a) -> Records(a)]
  BY <1>2, <1>3, <1>7
<1>9. \A x \in Rows(dst, c) : Element(dst, store[dst.array][x]) = Written(x)
  BY <1>2, <1>4, <1>6
<1> QED
  BY <1>8, <1>9 DEF Written, dst

\* Another view sees nothing of a chunk that it has no index or no field of.
LEMMA StoredElsewhere ==
    ASSUME DataInv, NEW op, Fitting(op), op.buffer \in [Window(op.src) -> Elements(op.src)],
           NEW c, NEW store, store = Stored(op, c),
           NEW view, SoundView(view), NEW x \in Window(view),
           view.array = op.dst.array /\ x \in Rows(op.dst, c) =>
              Range(view.fields) \cap Range(op.dst.fields) = {}
    PROVE  Element(view, store[view.array][x]) = Element(view, data[view.array][x])
<1>1. /\ SoundView(op.dst) /\ op.dst.array \in Arrays
      /\ \A a \in Arrays : a # op.dst.array => store[a] = data[a]
      /\ store[op.dst.array] = [y \in Indexes(op.dst.array) |->
            IF y \in Rows(op.dst, c)
            THEN Replaced(op.dst, data[op.dst.array][y], Transformed(op.buffer[SourceIndex(op, y)]))
            ELSE data[op.dst.array][y]]
  BY StoredAt DEF Fitting
<1>2. view.array \in Arrays /\ x \in Indexes(view.array) /\ data[view.array][x] \in Records(view.array)
  BY SoundFacts, DataRecord
<1>3. CASE view.array # op.dst.array
  BY <1>1, <1>2, <1>3
<1>4. CASE view.array = op.dst.array /\ x \notin Rows(op.dst, c)
  BY <1>1, <1>2, <1>4
<1>5. CASE view.array = op.dst.array /\ x \in Rows(op.dst, c)
  <2> DEFINE written == Transformed(op.buffer[SourceIndex(op, x)])
  <2>1. written \in Elements(op.dst)
    BY <1>5, WrittenElement DEF Rows
  <2>2. store[view.array][x] = Replaced(op.dst, data[view.array][x], written)
    BY <1>1, <1>2, <1>5
  <2>3. Range(view.fields) \cap Range(op.dst.fields) = {}
    BY <1>5
  <2> HIDE DEF written
  <2> QED
    BY <1>1, <1>2, <1>5, <2>1, <2>2, <2>3, Untouched
<1> QED
  BY <1>3, <1>4, <1>5

\* A transfer goes on with the next chunk: this one is on the store.
LEMMA WriteOnInv ==
    ASSUME DataInv, NEW op, op.state \in {"writing", "failing"}, TransferInv(op, data),
           NEW c \in op.left, NEW store, store = Stored(op, c),
           NEW new, new = [op EXCEPT !.left = op.left \ {c}]
    PROVE  TransferInv(new, store)
<1>1. Fitting(op) /\ WritingInv(op, data) /\ op.state \in States
  BY DEF TransferInv
<1>2. new = [state |-> op.state, src |-> op.src, dst |-> op.dst, fn |-> op.fn,
             left |-> op.left \ {c}, buffer |-> op.buffer,
             start |-> op.start, undisturbed |-> op.undisturbed]
  BY <1>1 DEF Fitting, Operation
<1>3. /\ new.state = op.state /\ new.src = op.src /\ new.dst = op.dst /\ new.fn = op.fn
      /\ new.left = op.left \ {c} /\ new.buffer = op.buffer
      /\ new.start = op.start /\ new.undisturbed = op.undisturbed
  BY <1>2
<1>4. Operation(new)
  BY <1>2, <1>3 DEF Operation
<1>5. Fitting(new)
  BY <1>1, <1>3, <1>4 DEF Fitting
<1>6. op.buffer \in [Window(op.src) -> Elements(op.src)]
  BY <1>1 DEF WritingInv
<1>7. ASSUME op.undisturbed, NEW x \in Window(op.dst), x[1] \notin op.left \ {c}
      PROVE  Element(op.dst, store[op.dst.array][x]) = Transformed(op.buffer[SourceIndex(op, x)])
  <2>1. CASE x[1] = c
    BY <1>1, <1>6, <2>1, StoredFacts DEF Rows
  <2>2. CASE x[1] # c
    <3>1. x[1] \notin op.left /\ x \notin Rows(op.dst, c)
      BY <1>7, <2>2 DEF Rows
    <3>2. Element(op.dst, data[op.dst.array][x]) = Transformed(op.buffer[SourceIndex(op, x)])
      BY <1>1, <1>7, <3>1 DEF WritingInv
    <3>3. SoundView(op.dst)
      BY <1>1 DEF Fitting
    <3>4. Element(op.dst, store[op.dst.array][x]) = Element(op.dst, data[op.dst.array][x])
      BY <1>1, <1>6, <1>7, <3>1, <3>3, StoredElsewhere
    <3> QED
      BY <3>2, <3>4
  <2> QED
    BY <2>1, <2>2
<1>8. \A x : SourceIndex(new, x) = SourceIndex(op, x)
  BY <1>3 DEF SourceIndex
<1>9. WritingInv(new, store)
  BY <1>1, <1>3, <1>6, <1>7, <1>8 DEF WritingInv, Clean
<1> QED
  BY <1>1, <1>3, <1>5, <1>9 DEF TransferInv

\* A transfer that the chunk does not touch does not see it.
LEMMA UntouchedInv ==
    ASSUME DataInv, NEW op, Fitting(op), op.buffer \in [Window(op.src) -> Elements(op.src)],
           NEW c, NEW store, store = Stored(op, c),
           NEW other, other.state \in {"reading", "writing"}, TransferInv(other, data),
           \A view \in {other.src, other.dst} :
              ~Touches(view, op.dst.array, Range(op.dst.fields), Rows(op.dst, c))
    PROVE  TransferInv(other, store)
<1>1. Fitting(other) /\ other.state \in States /\ SoundView(other.src) /\ SoundView(other.dst)
  BY DEF TransferInv, Fitting
<1>2. ASSUME NEW view \in {other.src, other.dst}, NEW x \in Window(view)
      PROVE  Element(view, store[view.array][x]) = Element(view, data[view.array][x])
  <2>1. SoundView(view)
    BY <1>1, <1>2
  <2>2. view.array = op.dst.array /\ x \in Rows(op.dst, c) =>
           Range(view.fields) \cap Range(op.dst.fields) = {}
    BY <1>2 DEF Touches
  <2> QED
    BY <1>2, <2>1, <2>2, StoredElsewhere
<1>3. other.state = "reading" => ReadingInv(other, store)
  BY <1>2 DEF TransferInv, ReadingInv
<1>4. other.state = "writing" => WritingInv(other, store)
  BY <1>2 DEF TransferInv, WritingInv
<1> QED
  BY <1>1, <1>3, <1>4 DEF TransferInv

\* Of a transfer that is over, or has failed, nothing is on the store.
LEMMA OverInv ==
    ASSUME NEW op, op.state \notin {"reading", "writing"}, NEW store, TransferInv(op, store), NEW next
    PROVE  TransferInv(op, next)
<1>1. op.state = "failing" => WritingInv(op, next)
  BY DEF TransferInv, WritingInv
<1> QED
  BY <1>1 DEF TransferInv

Hits(op, c, other) ==
    \E view \in {other.src, other.dst} :
        Touches(view, op.dst.array, Range(op.dst.fields), Rows(op.dst, c))

\* A transfer after another, or itself, has written a chunk.
AfterWrite(t, c, u) ==
    LET op == transfers[t]
    IN  IF u = t
        THEN IF op.left # {c} THEN [op EXCEPT !.left = op.left \ {c}]
             ELSE Ended(IF op.state = "writing" THEN "ok" ELSE "write_failed")
        ELSE IF transfers[u].state \in {"reading", "writing"} /\ Hits(op, c, transfers[u])
             THEN [transfers[u] EXCEPT !.undisturbed = FALSE] ELSE transfers[u]

LEMMA WriteChunkStep ==
    ASSUME TInv, NEW t \in Transfers, NEW c, WriteChunk(t, c)
    PROVE  /\ transfers[t].state \in {"writing", "failing"} /\ c \in transfers[t].left
           /\ data' = Stored(transfers[t], c)
           /\ transfers' = [u \in Transfers |-> AfterWrite(t, c, u)]
           /\ UNCHANGED <<collection, selection>>
<1>1. transfers[t].state \in {"writing", "failing"} /\ c \in transfers[t].left
  BY DEF WriteChunk
<1>2. data' = Stored(transfers[t], c) /\ UNCHANGED <<collection, selection>>
  BY DEF WriteChunk, Stored, Rows
<1>3. transfers' = [u \in Transfers |-> AfterWrite(t, c, u)]
  BY DEF WriteChunk, Rows, Hits, AfterWrite
<1> QED
  BY <1>1, <1>2, <1>3

LEMMA WriteChunkKeeps ==
    ASSUME TInv, NEW t \in Transfers, NEW c, WriteChunk(t, c)
    PROVE  TInv'
<1> DEFINE op == transfers[t]
           store == Stored(op, c)
<1>1. CollectionInv /\ DataInv /\ SelectionInv /\ TransfersInv
  BY DEF TInv
<1>2. op.state \in {"writing", "failing"} /\ c \in op.left /\ data' = store
  BY WriteChunkStep
<1>3. TransferInv(op, data)
  BY <1>1 DEF TransfersInv
<1>4. Fitting(op) /\ op.buffer \in [Window(op.src) -> Elements(op.src)]
  BY <1>2, <1>3 DEF TransferInv, WritingInv
<1>5. DataInv'
  <2>1. store = [a \in Arrays |-> store[a]]
    <3>1. data = [a \in Arrays |-> data[a]]
      BY <1>1 DEF DataInv
    <3> QED
      BY <3>1 DEF Stored
  <2> HIDE DEF op
  <2>0. store = Stored(op, c)
    OBVIOUS
  <2> HIDE DEF store
  <2>2. \A a \in Arrays : store[a] \in [Indexes(a) -> Records(a)]
    BY <1>1, <1>4, <2>0, StoredFacts
  <2> QED
    BY <1>2, <2>1, <2>2 DEF DataInv, Records
<1>6. ASSUME NEW u \in Transfers PROVE TransferInv(transfers'[u], store)
  <2>1. TransferInv(transfers[u], data)
    BY <1>1, <1>6 DEF TransfersInv
  <2>2. transfers'[u] = AfterWrite(t, c, u)
    BY <1>6, WriteChunkStep
  <2>3. CASE u = t /\ op.left # {c}
    BY <1>1, <1>2, <1>3, <2>2, <2>3, WriteOnInv DEF AfterWrite
  <2>4. CASE u = t /\ op.left = {c}
    <3>1. \A s \in {"ok", "write_failed"} : TransferInv(Ended(s), store)
      BY EndedInv DEF States
    <3> QED
      BY <2>2, <2>4, <3>1 DEF AfterWrite
  <2>5. CASE u # t /\ transfers[u].state \in {"reading", "writing"} /\ Hits(op, c, transfers[u])
    BY <2>1, <2>2, <2>5, DisturbedInv DEF AfterWrite
  <2>6. CASE u # t /\ transfers[u].state \in {"reading", "writing"} /\ ~Hits(op, c, transfers[u])
    <3>1. \A view \in {transfers[u].src, transfers[u].dst} :
             ~Touches(view, op.dst.array, Range(op.dst.fields), Rows(op.dst, c))
      BY <2>6 DEF Hits
    <3>2. TransferInv(transfers[u], store)
      BY <1>1, <1>4, <2>1, <2>6, <3>1, UntouchedInv
    <3> QED
      BY <2>2, <2>6, <3>2 DEF AfterWrite
  <2>7. CASE u # t /\ transfers[u].state \notin {"reading", "writing"}
    BY <2>1, <2>2, <2>7, OverInv DEF AfterWrite
  <2> QED
    BY <2>3, <2>4, <2>5, <2>6, <2>7
<1>7. transfers' = [u \in Transfers |-> transfers'[u]]
  <2>1. transfers' = [u \in Transfers |-> AfterWrite(t, c, u)]
    BY WriteChunkStep
  <2> QED
    BY <2>1
<1>8. TransfersInv'
  BY <1>2, <1>6, <1>7 DEF TransfersInv
<1>9. CollectionInv' /\ SelectionInv'
  BY <1>1, WriteChunkStep DEF CollectionInv, SelectionInv, SelectedIsSliced
<1> QED
  BY <1>5, <1>8, <1>9 DEF TInv

-----------------------------------------------------------------------------
(* The theorems *)

LEMMA NextKeeps ==
    ASSUME TInv, [Next]_vars
    PROVE  TInv'
<1>1. CASE \E window \in Windows : Isel(window)
  BY <1>1, IselKeeps
<1>2. CASE \E a \in Arrays, field \in {""} \cup UNION {Range(Structure[b]) : b \in Arrays} : SelectField(a, field)
  BY <1>2, SelectFieldKeeps
<1>3. CASE \E t \in Transfers, src, dst \in Views : TransformVariable(t, src, dst)
  BY <1>3, TransformVariableKeeps
<1>4. CASE \E t \in Transfers, c \in 0..(Extent - 1) : ReadChunk(t, c) \/ WriteChunk(t, c)
  BY <1>4, ReadChunkKeeps, WriteChunkKeeps
<1>5. CASE \E t \in Transfers : ReadFails(t) \/ WriteFails(t)
  BY <1>5, ReadFailsKeeps, WriteFailsKeeps
<1>6. CASE UNCHANGED vars
  BY <1>6 DEF vars, TInv, CollectionInv, DataInv, SelectionInv, SelectedIsSliced, TransfersInv
<1> QED
  BY <1>1, <1>2, <1>3, <1>4, <1>5, <1>6, FieldOpenedKeeps, FieldOpenFailsKeeps DEF Next

\* The views of the dataset, the store and the transfers under way fit together.
THEOREM InvariantCorrect == Spec => []TInv
<1>1. Init => TInv
  BY InitTInv
<1>2. TInv /\ [Next]_vars => TInv'
  BY NextKeeps
<1> QED
  BY <1>1, <1>2, PTL DEF Spec

\* Every view is within its array, and the store has a value for every field.
THEOREM TypeCorrect == Spec => []TypeOK
<1>1. TInv => TypeOK
  <2> SUFFICES ASSUME TInv PROVE TypeOK
    OBVIOUS
  <2>1. \A a \in Arrays : ViewOK(collection[a]) /\ collection[a].array = a
    BY SoundOK DEF TInv, CollectionInv
  <2>2. selection.state = "ok" => ViewOK(selection.result)
    BY SoundOK DEF TInv, SelectionInv
  <2>3. \A a \in Arrays : data[a] \in [Indexes(a) -> [Range(Structure[a]) -> 0..(Values - 1)]]
    BY DEF TInv, DataInv, Element0
  <2>4. \A t \in Transfers : transfers[t].state \in States
    BY DEF TInv, TransfersInv, TransferInv
  <2> QED
    BY <2>1, <2>2, <2>3, <2>4 DEF TypeOK, States
<1> QED
  BY <1>1, InvariantCorrect, PTL

\* Whatever was done to the dataset since the call, a field comes with the slice the
\* variable had at the call.
THEOREM SelectedCorrect == Spec => []SelectedIsSliced
<1>1. TInv => SelectedIsSliced
  BY DEF TInv, SelectionInv
<1> QED
  BY <1>1, InvariantCorrect, PTL

\* The store changes only by a transform that was applied to every element of the
\* source without an error.
THEOREM OnlyWholeCorrect == Spec => OnlyWholeTransformsWrite
<1>1. ASSUME TInv, [Next]_vars, data' # data
      PROVE  \E t \in Transfers :
                /\ transfers[t].state \in {"writing", "failing"}
                /\ DOMAIN transfers[t].buffer = Window(transfers[t].src)
                /\ \A x \in DOMAIN transfers[t].buffer :
                      ~\/ transfers[t].fn = "nonzero" /\ Has(transfers[t].buffer[x], 0)
                       \/ transfers[t].fn = "short" /\ Has(transfers[t].buffer[x], Values - 1)
  <2>1. PICK t \in Transfers, c \in 0..(Extent - 1) : WriteChunk(t, c)
    BY <1>1 DEF Next, Isel, SelectField, FieldOpened, FieldOpenFails, TransformVariable, ReadChunk,
                ReadFails, WriteFails, vars
  <2>2. transfers[t].state \in {"writing", "failing"}
    BY <1>1, <2>1, WriteChunkStep
  <2>3. TransferInv(transfers[t], data)
    BY <1>1 DEF TInv, TransfersInv
  <2>4. WritingInv(transfers[t], data)
    BY <2>2, <2>3 DEF TransferInv
  <2> QED
    BY <2>2, <2>4 DEF WritingInv, Clean
<1>2. TInv /\ [Next]_vars =>
         [data' # data =>
            \E t \in Transfers :
                /\ transfers[t].state \in {"writing", "failing"}
                /\ DOMAIN transfers[t].buffer = Window(transfers[t].src)
                /\ \A x \in DOMAIN transfers[t].buffer :
                      ~\/ transfers[t].fn = "nonzero" /\ Has(transfers[t].buffer[x], 0)
                       \/ transfers[t].fn = "short" /\ Has(transfers[t].buffer[x], Values - 1)]_vars
  BY <1>1
<1> QED
  BY <1>2, InvariantCorrect, PTL DEF Spec, OnlyWholeTransformsWrite

\* Only the last chunk of a transfer ends it with success.
LEMMA Finished ==
    ASSUME TInv, [Next]_vars, NEW t \in Transfers,
           transfers[t].state = "writing", transfers'[t].state = "ok"
    PROVE  \E c : WriteChunk(t, c) /\ transfers[t].left = {c} /\ c \in transfers[t].left
<1>1. transfers = [u \in Transfers |-> transfers[u]]
  BY DEF TInv, TransfersInv
<1>2. ASSUME NEW u \in Transfers, NEW new, transfers' = [transfers EXCEPT ![u] = new],
             transfers[u].state = "writing" => new.state # "ok"
      PROVE  FALSE
  BY <1>1, <1>2
<1>3. CASE transfers' = transfers
  BY <1>3
<1>4. CASE \E u \in Transfers, src, dst \in Views : TransformVariable(u, src, dst)
  BY <1>2, <1>4 DEF TransformVariable
<1>5. CASE \E u \in Transfers, c \in 0..(Extent - 1) : ReadChunk(u, c)
  <2>1. PICK u \in Transfers, c \in 0..(Extent - 1) : ReadChunk(u, c)
    BY <1>5
  <2>2. transfers[u].state = "reading" /\ u # t
    BY <2>1 DEF ReadChunk
  <2>3. transfers'[t] = transfers[t]
    BY <1>1, <2>1, <2>2 DEF ReadChunk
  <2> QED
    BY <2>3
<1>6. CASE \E u \in Transfers : ReadFails(u)
  BY <1>2, <1>6 DEF ReadFails
<1>7. CASE \E u \in Transfers : WriteFails(u)
  <2>1. PICK u \in Transfers : WriteFails(u)
    BY <1>7
  <2> DEFINE op == transfers[u]
             new == [op EXCEPT !.state = "failing", !.start = <<>>, !.undisturbed = FALSE]
  <2>2. transfers' = [transfers EXCEPT ![u] = new]
    BY <1>1, <2>1 DEF WriteFails
  <2>3. transfers[u].state = "writing" /\ TransferInv(transfers[u], data)
    BY <2>1 DEF WriteFails, TInv, TransfersInv
  <2>4. Operation(op)
    BY <2>3 DEF TransferInv, Fitting
  <2>5. new.state = "failing"
    BY <2>4 DEF Operation
  <2> HIDE DEF new
  <2> QED
    BY <1>2, <2>2, <2>5
<1>8. CASE \E u \in Transfers, c \in 0..(Extent - 1) : WriteChunk(u, c)
  <2>1. PICK u \in Transfers, c \in 0..(Extent - 1) : WriteChunk(u, c)
    BY <1>8
  <2>2. transfers'[t] = AfterWrite(u, c, t) /\ c \in transfers[u].left
    BY <2>1, WriteChunkStep
  <2>3. TransferInv(transfers[t], data)
    BY DEF TInv, TransfersInv
  <2>4. CASE u # t
    <3> DEFINE disturbed == [transfers[t] EXCEPT !.undisturbed = FALSE]
    <3>1. transfers'[t] = disturbed \/ transfers'[t] = transfers[t]
      BY <2>2, <2>4 DEF AfterWrite
    <3>2. disturbed.state = transfers[t].state
      BY <2>3, DisturbedInv
    <3> QED
      BY <3>1, <3>2
  <2>5. CASE u = t /\ transfers[t].left # {c}
    <3>1. Operation(transfers[t])
      BY <2>3 DEF TransferInv, Fitting
    <3>2. transfers'[t] = [transfers[t] EXCEPT !.left = transfers[t].left \ {c}]
      BY <2>2, <2>5 DEF AfterWrite
    <3>3. transfers'[t].state = transfers[t].state
      BY <3>1, <3>2 DEF Operation
    <3> QED
      BY <3>3
  <2> QED
    BY <2>1, <2>2, <2>4, <2>5
<1> QED
  BY <1>3, <1>4, <1>5, <1>6, <1>7, <1>8
  DEF Next, Isel, SelectField, FieldOpened, FieldOpenFails, vars

\* A transfer that reports success, and that no other wrote into, leaves in the
\* destination the transform of what the source held at the call, also where source and
\* destination overlap.
THEOREM FaithfulCorrect == Spec => TransferIsFaithful
<1>1. ASSUME TInv, [Next]_vars, NEW t \in Transfers, transfers'[t].state = "ok",
             transfers[t].state = "writing", transfers[t].undisturbed, NEW x \in Window(transfers[t].dst)
      PROVE  Element(transfers[t].dst, data'[transfers[t].dst.array][x])
                = Transformed(transfers[t].start[[d \in DOMAIN x |->
                      transfers[t].src.box[d][1] + (x[d] - transfers[t].dst.box[d][1])]])
  <2> DEFINE op == transfers[t]
             store == data'
  <2>1. PICK c : WriteChunk(t, c) /\ op.left = {c}
    BY <1>1, Finished
  <2>2. DataInv /\ TransferInv(op, data)
    BY <1>1 DEF TInv, TransfersInv
  <2>3. store = Stored(op, c)
    BY <1>1, <2>1, WriteChunkStep
  <2>4. Fitting(op) /\ WritingInv(op, data) /\ op.buffer \in [Window(op.src) -> Elements(op.src)]
    BY <1>1, <2>2 DEF TransferInv, WritingInv
  <2>5. op.start = op.buffer
    BY <1>1, <2>4 DEF WritingInv
  <2>6. x \in Window(op.dst) /\ op.undisturbed
    BY <1>1
  <2>7. SoundView(op.dst)
    BY <2>4 DEF Fitting
  <2> HIDE DEF op, store
  <2>8. Element(op.dst, store[op.dst.array][x]) = Transformed(op.buffer[SourceIndex(op, x)])
    <3>1. CASE x[1] = c
      BY <2>2, <2>3, <2>4, <2>6, <3>1, StoredFacts DEF Rows
    <3>2. CASE x[1] # c
      <4>1. x[1] \notin op.left /\ x \notin Rows(op.dst, c)
        BY <2>1, <3>2 DEF Rows
      <4>2. Element(op.dst, data[op.dst.array][x]) = Transformed(op.buffer[SourceIndex(op, x)])
        BY <2>4, <2>6, <4>1 DEF WritingInv
      <4>3. Element(op.dst, store[op.dst.array][x]) = Element(op.dst, data[op.dst.array][x])
        BY <2>2, <2>3, <2>4, <2>6, <2>7, <4>1, StoredElsewhere
      <4> QED
        BY <4>2, <4>3
    <3> QED
      BY <3>1, <3>2
  <2>9. SourceIndex(op, x) = [d \in DOMAIN x |-> op.src.box[d][1] + (x[d] - op.dst.box[d][1])]
    BY <2>4, <2>6, SourceIndexIn
  <2> QED
    BY <2>5, <2>8, <2>9 DEF op, store
<1>2. TInv /\ [Next]_vars =>
         [\A t \in Transfers :
            transfers'[t].state = "ok" /\ transfers[t].state = "writing" /\ transfers[t].undisturbed =>
                \A x \in Window(transfers[t].dst) :
                    Element(transfers[t].dst, data'[transfers[t].dst.array][x])
                      = Transformed(transfers[t].start[[d \in DOMAIN x |->
                            transfers[t].src.box[d][1] + (x[d] - transfers[t].dst.box[d][1])]])]_vars
  BY <1>1
<1> QED
  BY <1>2, InvariantCorrect, PTL DEF Spec, TransferIsFaithful
=============================================================================
