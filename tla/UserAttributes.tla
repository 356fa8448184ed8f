--------------------------- MODULE UserAttributes ---------------------------
(***************************************************************************)
(* The attributes a user may change (class UserAttributes, stats.h): the   *)
(* summary statistics, the units and the free attributes, read from and    *)
(* written to the "metadata" block of a variable.                          *)
(*                                                                         *)
(* A block is [stats, units, attributes, grid]; each may be Absent (the    *)
(* key is not there) or Null.                                              *)
(*   stats       [array, items], one item unless it is an array. An item   *)
(*               is [bins, whole, text]: the bin centers, or edges, of its *)
(*               histogram in halves, so that an odd number is a decimal;  *)
(*               whether its fields are there and are numbers; whether it  *)
(*               is stored as a string that has to be parsed.              *)
(*   units       [form, items]: a string, an object, or an array.          *)
(*   attributes  a set of <<key, value>>.                                  *)
(*   grid        the chunkGrid, no attribute of the user's.                *)
(***************************************************************************)
EXTENDS Integers, Sequences

CONSTANTS
    Absent, Null,
    Pairs           \* the <<key, value>> that free attributes may hold

Maybe(values) == {Absent, Null} \cup values

StatisticsItem == [bins : Seq(Int), whole : BOOLEAN, text : BOOLEAN]
Statistics     == [array : BOOLEAN, items : Seq(StatisticsItem)]
Units          == [form : {"text", "object", "array"}, items : Seq(STRING)]
Grid           == [regular : BOOLEAN, shape : Seq(Int)]

MetadataBlock ==
    [stats : Maybe(Statistics), units : Maybe(Units), attributes : Maybe(SUBSET Pairs),
     grid : Maybe(Grid)]

\* What is not there, and what is null, is no value.
ASSUME AbsentAssumption ==
    /\ Absent # Null
    /\ \A none \in {Absent, Null} :
         /\ none # "" /\ none \notin Seq(STRING) /\ none \notin MetadataBlock
         /\ none \notin Statistics /\ none \notin Units /\ none \notin Grid
         /\ \A free \in SUBSET Pairs : none # free

Present(value) == value \notin {Absent, Null}

EmptyBlock == [stats |-> Absent, units |-> Absent, attributes |-> Absent, grid |-> Absent]

-----------------------------------------------------------------------------
(* Reading *)

\* Assumption of the code: a single histogram without a decimal holds integers.
\* The loop looks at the members of the histogram, which are arrays and no
\* numbers: no decimal is ever found.
InferIsFloat(block) ==
    \/ ~Present(block.stats)
    \/ block.stats.array
    \/ block.stats.items[1].text

\* From halves to an integer, toward zero, and back to halves.
Truncate(halves) == IF halves < 0 THEN -(2 * ((-halves) \div 2)) ELSE 2 * (halves \div 2)

\* (mutant: statistics stored as a string are not parsed)
BinnedAsText(isFloat, item) == item

\* What a histogram of T = float or int32_t keeps of its bins.
Binned(isFloat, item) ==
    [item EXCEPT !.bins = IF isFloat THEN item.bins
                                     ELSE [b \in DOMAIN item.bins |-> Truncate(item.bins[b])],
                 !.text = FALSE]

Items(value) == IF Present(value) THEN value.items ELSE <<>>

StatsOk(stats) == stats # Null /\ \A i \in DOMAIN Items(stats) : Items(stats)[i].whole

UnitsOk(units) == units # Null

\* FromJson<float>, FromJson<int32_t>: the attributes, if they are not refused.
FromJsonOk(block) == StatsOk(block.stats) /\ UnitsOk(block.units)

FromJson(isFloat, block) ==
    [stats      |-> [i \in DOMAIN Items(block.stats) |-> Binned(isFloat, block.stats.items[i])],
     units      |-> Items(block.units),
     attributes |-> IF Present(block.attributes) THEN block.attributes ELSE {}]

NoAttributes == [stats |-> <<>>, units |-> <<>>, attributes |-> {}]

FromVariableJson(block) == FromJson(InferIsFloat(block), block)

-----------------------------------------------------------------------------
(* Writing: one element is written bare, none is not written *)

StatsBindable(stats) ==
    IF stats = <<>> THEN Absent ELSE [array |-> Len(stats) > 1, items |-> stats]

UnitsBindable(units) ==
    IF units = <<>> THEN Absent
    ELSE [form |-> IF Len(units) = 1 THEN "text" ELSE "array", items |-> units]

ToJson(attrs) ==
    [stats      |-> StatsBindable(attrs.stats),
     units      |-> UnitsBindable(attrs.units),
     attributes |-> IF attrs.attributes = {} THEN Absent ELSE attrs.attributes,
     grid       |-> Absent]

-----------------------------------------------------------------------------
(* What the dataset schema accepts of a block *)

SummaryStatistics(item) == item.whole /\ ~item.text

\* An object with the one key of its quantity.
UnitModel(units) == units.form = "object" /\ Len(units.items) = 1

\* Any of the four may be null. Any list of chunk sizes will do, in lists or not.
VariableMetadata(block) ==
    /\ \A i \in DOMAIN Items(block.stats) : SummaryStatistics(block.stats.items[i])
    /\ Present(block.units) => UnitModel(block.units)
=============================================================================
