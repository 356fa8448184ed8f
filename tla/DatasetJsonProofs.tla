------------------------- MODULE DatasetJsonProofs -------------------------
(***************************************************************************)
(* For all JSONs, stored attributes and updates and any number of calls:   *)
(* creation, commit and opening implement AttributeStore, though each      *)
(* writes the attributes in another shape; a dataset can be opened by the  *)
(* specification it was created from; a header variable keeps what it was  *)
(* found with; the sizes of a JSON are those of the arrays made of it; and *)
(* what to_json returns makes the arrays again.                            *)
(***************************************************************************)
EXTENDS DatasetJson, TLAPS

-----------------------------------------------------------------------------
(* The inductive invariant *)

Parsed == [bins : Seq(Int), whole : {TRUE}, text : {FALSE}]

User == [stats : Seq(Parsed), units : Seq(STRING), attributes : SUBSET Pairs]

\* A Variable in the caller's hand. It has no long name rather than an empty one.
SoundVariable(v) ==
    /\ v = [longName |-> v.longName, coords |-> v.coords, hasMeta |-> v.hasMeta,
            grid |-> v.grid, user |-> v.user]
    /\ v.longName \notin {"", Null}
    /\ v.grid \in Maybe(Grid)
    /\ v.user \in User

SoundDoc(d) == d.top \in MetadataBlock /\ d.nested \in {Absent} \cup MetadataBlock

\* There are Variables, and there is something to update, only in an open dataset.
NothingBefore ==
    phase # "open" =>
        mem = <<>> /\ doc = <<>> /\ dirty = {} /\ pending = {} /\ header = Absent /\ ~committed

VariablesInv ==
    /\ mem = [i \in DOMAIN mem |-> mem[i]] /\ doc = [i \in DOMAIN doc |-> doc[i]]
    /\ DOMAIN doc = DOMAIN mem
    /\ phase = "open" => DOMAIN arrays = DOMAIN mem
    /\ \A i \in DOMAIN mem : SoundVariable(mem[i]) /\ SoundDoc(doc[i])
    /\ dirty \subseteq DOMAIN mem /\ pending \subseteq dirty

\* What was published once and not updated since is what would be published
\* again: was_updated() stays true after a commit.
Published ==
    \A i \in dirty \ pending : Attributes(OpenVariable(doc[i])) = Written(Attributes(mem[i]))

\* The arrays are those of the JSON; up to a commit the store has what the
\* creation wrote.
SpecifiedInv ==
    /\ phase = "json" => json \in DatasetJsons
    /\ phase = "constructed" =>
          /\ json \in DatasetJsons /\ validate_dataset(json) /\ GetDimensionsOk(json)
          /\ arrays = [i \in DOMAIN json |-> from_json_to_spec(version, json, json[i])]
    /\ phase = "open" /\ json # <<>> /\ ~committed =>
          \A i \in DOMAIN arrays :
             /\ arrays[i].attrs.meta \in Maybe(MetadataBlock)
             /\ doc[i] = WriteVariableAttributes(arrays[i].attrs)

\* Where the attributes a hold the dimensions, they hold the labels. On V3
\* they may not hold them at all.
LabelsIn(ver, a, labels) ==
    LET dims == IF a.arrayDims # Absent THEN a.arrayDims ELSE a.plainDims IN
    dims = labels \/ (ver # "V2" /\ dims = Absent)

\* A V3 header that was found with _ARRAY_DIMENSIONS is stored with them.
SoundHeader(ver, h) ==
    LET found == StoredHeader(ver, h.stored) IN
    /\ DOMAIN h = {"root", "stored", "mem", "modified", "labels", "saved"}
    /\ DOMAIN h.stored = {"file", "index"}
    /\ DOMAIN h.mem = {"labels", "dims", "longName", "user", "original"}
    /\ h.mem.dims = FirstPresent(h.mem.original.arrayDims, h.root, h.mem.original.plainDims)
    /\ ver = "V2" => h.root = Absent
    /\ found.user = h.saved
    /\ h.root # Absent => h.labels = h.root
    /\ h.root = Absent =>
          /\ LabelsIn(ver, found, h.labels) /\ LabelsIn(ver, h.mem.original, h.labels)
          /\ ver # "V2" /\ h.mem.original.arrayDims # Absent => found.arrayDims = h.labels

HeaderInv == header # Absent => SoundHeader(version, header)

ControlInv == version \in Versions /\ phase \in Phases /\ calls \in 0..MaxOps

JsonInv ==
    /\ ControlInv /\ NothingBefore /\ VariablesInv /\ Published /\ SpecifiedInv /\ HeaderInv

-----------------------------------------------------------------------------
(* Types *)

LEMMA NoValue ==
    /\ Absent # Null
    /\ \A none \in {Absent, Null} :
         /\ none # "" /\ none \notin Seq(STRING) /\ none \notin MetadataBlock
         /\ none \notin Statistics /\ none \notin Units /\ none \notin Grid
         /\ \A free \in SUBSET Pairs : none # free
  BY AbsentAssumption

LEMMA EmptyBlockTyped == EmptyBlock \in MetadataBlock
  BY DEF EmptyBlock, MetadataBlock, Maybe

LEMMA BlockTyped ==
    ASSUME NEW block \in MetadataBlock
    PROVE  /\ block = [stats |-> block.stats, units |-> block.units,
                       attributes |-> block.attributes, grid |-> block.grid]
           /\ block.stats \in Maybe(Statistics) /\ block.units \in Maybe(Units)
           /\ block.attributes \in Maybe(SUBSET Pairs) /\ block.grid \in Maybe(Grid)
  BY DEF MetadataBlock

LEMMA TruncateTyped == \A n \in Int : Truncate(n) \in Int
  BY DEF Truncate

\* What a histogram keeps of an item that was not refused.
LEMMA BinnedTyped ==
    ASSUME NEW item \in StatisticsItem, NEW isFloat, item.whole = TRUE
    PROVE  Binned(isFloat, item) \in Parsed
  <1> DEFINE bins == IF isFloat THEN item.bins
                               ELSE [k \in DOMAIN item.bins |-> Truncate(item.bins[k])]
  <1>1. item = [bins |-> item.bins, whole |-> TRUE, text |-> item.text] /\ item.bins \in Seq(Int)
    BY DEF StatisticsItem
  <1>2. Binned(isFloat, item) = [bins |-> bins, whole |-> TRUE, text |-> FALSE]
    <2>1. Binned(isFloat, item) = [item EXCEPT !.bins = bins, !.text = FALSE]
      BY DEF Binned
    <2> HIDE DEF bins
    <2> QED
      BY <2>1, <1>1
  <1>3. [k \in DOMAIN item.bins |-> Truncate(item.bins[k])] \in Seq(Int)
    <2>1. DOMAIN item.bins = 1..Len(item.bins) /\ Len(item.bins) \in Nat
      BY <1>1
    <2>2. \A k \in 1..Len(item.bins) : Truncate(item.bins[k]) \in Int
      BY <1>1, TruncateTyped
    <2> QED
      BY <2>1, <2>2
  <1>4. bins \in Seq(Int)
    BY <1>1, <1>3
  <1> HIDE DEF bins
  <1> QED
    BY <1>2, <1>4 DEF Parsed

LEMMA FromJsonTyped ==
    ASSUME NEW block \in MetadataBlock, NEW isFloat, FromJsonOk(block)
    PROVE  FromJson(isFloat, block) \in User
  <1> DEFINE items == Items(block.stats)
             stats == [i \in DOMAIN items |-> Binned(isFloat, block.stats.items[i])]
  <1>1. items \in Seq(StatisticsItem) /\ \A i \in DOMAIN items : items[i].whole
    <2>1. \A i \in DOMAIN items : items[i].whole
      BY DEF FromJsonOk, StatsOk
    <2>2. CASE Present(block.stats)
      <3>1. block.stats \in Statistics
        BY <2>2, BlockTyped DEF Maybe, Present
      <3> QED
        BY <2>1, <2>2, <3>1 DEF Statistics, Items
    <2>3. CASE ~Present(block.stats)
      BY <2>3 DEF Items
    <2> QED
      BY <2>1, <2>2, <2>3
  <1>2. items # <<>> => items = block.stats.items
    BY DEF Items
  <1>3. DOMAIN items = 1..Len(items) /\ Len(items) \in Nat
    BY <1>1
  <1>4. \A i \in DOMAIN items : Binned(isFloat, block.stats.items[i]) \in Parsed
    <2> TAKE i \in DOMAIN items
    <2>1. items[i] \in StatisticsItem /\ items = block.stats.items
      BY <1>1, <1>2, <1>3
    <2>2. items[i].whole = TRUE
      BY <1>1, <2>1 DEF StatisticsItem
    <2> HIDE DEF items
    <2> QED
      BY <2>1, <2>2, BinnedTyped
  <1>5. stats \in Seq(Parsed)
    <2> HIDE DEF items
    <2> QED
      BY <1>3, <1>4
  <1>6. Items(block.units) \in Seq(STRING)
    <2>1. CASE Present(block.units)
      <3>1. block.units \in Units
        BY <2>1, BlockTyped DEF Maybe, Present
      <3> QED
        BY <2>1, <3>1 DEF Units, Items
    <2>2. CASE ~Present(block.units)
      BY <2>2 DEF Items
    <2> QED
      BY <2>1, <2>2
  <1>7. (IF Present(block.attributes) THEN block.attributes ELSE {}) \in SUBSET Pairs
    BY BlockTyped DEF Maybe, Present
  <1>8. FromJson(isFloat, block) =
          [stats |-> stats, units |-> Items(block.units),
           attributes |-> IF Present(block.attributes) THEN block.attributes ELSE {}]
    BY DEF FromJson
  <1> HIDE DEF items, stats
  <1> QED
    BY <1>5, <1>6, <1>7, <1>8 DEF User

LEMMA InMemoryTyped ==
    ASSUME NEW longName, NEW coords, NEW hasMeta, NEW block \in MetadataBlock, FromJsonOk(block)
    PROVE  SoundVariable(InMemory(longName, coords, hasMeta, block))
  <1>1. FromVariableJson(block) \in User
    BY FromJsonTyped DEF FromVariableJson
  <1>2. Absent \notin {"", Null}
    BY NoValue
  <1> QED
    BY <1>1, <1>2, BlockTyped DEF SoundVariable, InMemory

LEMMA StoredBlockTyped ==
    ASSUME NEW d, SoundDoc(d)
    PROVE  StoredBlock(d) \in MetadataBlock
  <1>1. Or(d.nested, EmptyBlock) \in MetadataBlock
    BY EmptyBlockTyped DEF SoundDoc, Or
  <1> QED
    BY <1>1 DEF StoredBlock, SoundDoc, MetadataBlock, Or

LEMMA OpenVariableTyped ==
    ASSUME NEW d, SoundDoc(d), FromJsonOk(StoredBlock(d))
    PROVE  SoundVariable(OpenVariable(d))
  BY StoredBlockTyped, InMemoryTyped DEF OpenVariable

-----------------------------------------------------------------------------
(* What is written is what is read                                         *)

\* Without the pairs whose value is null.
Kept(free) == {pair \in free : pair[2] # Null}

StatsRead(stats) == IF Len(stats) = 1 THEN <<Binned(FALSE, stats[1])>> ELSE stats

LEMMA BindableTyped ==
    ASSUME NEW u \in User
    PROVE  ToJson(u) \in MetadataBlock
  <1>1. u.stats \in Seq(StatisticsItem)
    <2>1. Parsed \subseteq StatisticsItem
      BY DEF Parsed, StatisticsItem
    <2>2. u.stats \in Seq(Parsed)
      BY DEF User
    <2> QED
      BY <2>1, <2>2
  <1>2. StatsBindable(u.stats) \in Maybe(Statistics)
    BY <1>1 DEF StatsBindable, Maybe, Statistics
  <1>3. UnitsBindable(u.units) \in Maybe(Units)
    BY DEF User, UnitsBindable, Maybe, Units
  <1>4. (IF u.attributes = {} THEN Absent ELSE u.attributes) \in Maybe(SUBSET Pairs)
    BY DEF User, Maybe
  <1> QED
    BY <1>2, <1>3, <1>4 DEF ToJson, MetadataBlock, Maybe

LEMMA WithGrid ==
    ASSUME NEW block \in MetadataBlock, NEW grid, NEW free
    PROVE  [block EXCEPT !.grid = grid, !.attributes = free] =
             [stats |-> block.stats, units |-> block.units, attributes |-> free, grid |-> grid]
  <1> DEFINE gridded == [block EXCEPT !.grid = grid]
  <1>1. gridded = [stats |-> block.stats, units |-> block.units,
                   attributes |-> block.attributes, grid |-> grid]
    BY DEF MetadataBlock
  <1>2. [block EXCEPT !.grid = grid, !.attributes = free] = [gridded EXCEPT !.attributes = free]
    BY DEF MetadataBlock
  <1> HIDE DEF gridded
  <1> QED
    BY <1>1, <1>2

\* The block of a Variable: absent if there is nothing in it, and otherwise
\* its fields are those of ToJson without the nulls.
LEMMA GetMetadataTyped ==
    ASSUME NEW v, SoundVariable(v)
    PROVE  /\ GetMetadata(v) \in {Absent} \cup MetadataBlock
           /\ Or(GetMetadata(v), EmptyBlock).stats = StatsBindable(v.user.stats)
           /\ Or(GetMetadata(v), EmptyBlock).units = UnitsBindable(v.user.units)
           /\ Or(GetMetadata(v), EmptyBlock).attributes =
                IF v.user.attributes = {} THEN Absent ELSE Kept(v.user.attributes)
  <1> DEFINE user == ToJson(v.user)
             free == IF v.user.attributes = {} THEN Absent ELSE Kept(v.user.attributes)
             meta == [stats |-> user.stats, units |-> user.units, attributes |-> free,
                      grid |-> v.grid]
  <1>1. user \in MetadataBlock
    BY BindableTyped DEF SoundVariable
  <1>2. v.user.attributes \in SUBSET Pairs /\ v.grid \in Maybe(Grid)
    BY DEF SoundVariable, User
  <1>3. user.attributes = IF v.user.attributes = {} THEN Absent ELSE v.user.attributes
    BY DEF ToJson
  <1>4. user.attributes = Absent <=> v.user.attributes = {}
    BY <1>2, <1>3, NoValue
  <1>5. (IF user.attributes = Absent THEN user.attributes
         ELSE {a \in user.attributes : a[2] # Null}) = free
    BY <1>3, <1>4 DEF Kept
  <1>6. user.stats = StatsBindable(v.user.stats) /\ user.units = UnitsBindable(v.user.units)
    BY DEF ToJson
  <1>7. free \in Maybe(SUBSET Pairs)
    BY <1>2 DEF Maybe, Kept
  <1>8. GetMetadata(v) = IF ~HasKey(user) /\ ~v.hasMeta THEN Absent ELSE meta
    <2>1. [user EXCEPT !.grid = v.grid,
                       !.attributes = IF @ = Absent THEN @ ELSE {a \in @ : a[2] # Null}] = meta
      <3> HIDE DEF user, free
      <3>1. [user EXCEPT !.grid = v.grid, !.attributes = free] = meta
        BY <1>1, WithGrid
      <3> QED
        BY <3>1, <1>5
    <2> HIDE DEF meta
    <2> QED
      BY <2>1 DEF GetMetadata
  <1>9. meta \in MetadataBlock
    <2>1. user.stats \in Maybe(Statistics) /\ user.units \in Maybe(Units)
      BY <1>1, BlockTyped
    <2> HIDE DEF user, free
    <2> QED
      BY <2>1, <1>2, <1>7 DEF MetadataBlock
  <1>10. meta # Absent
    BY <1>9, NoValue
  <1>11. CASE ~HasKey(user) /\ ~v.hasMeta
    <2>1. user.stats = Absent /\ user.units = Absent /\ user.attributes = Absent
      BY <1>11 DEF HasKey
    <2>2. GetMetadata(v) = Absent
      BY <1>8, <1>11
    <2>3. free = Absent
      BY <2>1, <1>4
    <2> QED
      BY <2>1, <2>2, <2>3, <1>6 DEF Or, EmptyBlock
  <1>12. CASE ~(~HasKey(user) /\ ~v.hasMeta)
    <2>1. GetMetadata(v) = meta
      BY <1>8, <1>12
    <2>2. meta.stats = user.stats /\ meta.units = user.units /\ meta.attributes = free
      OBVIOUS
    <2> HIDE DEF meta, user
    <2> QED
      BY <2>1, <2>2, <1>6, <1>9, <1>10 DEF Or
  <1> QED
    BY <1>11, <1>12

\* Wherever a commit puts the block, an opening finds its three attributes.
LEMMA PublishedBlock ==
    ASSUME NEW v, SoundVariable(v), NEW ver \in Versions
    PROVE  LET block == StoredBlock(PublishMetadata(ver, v)) IN
           /\ SoundDoc(PublishMetadata(ver, v))
           /\ block.stats = StatsBindable(v.user.stats)
           /\ block.units = UnitsBindable(v.user.units)
           /\ block.attributes =
                IF v.user.attributes = {} THEN Absent ELSE Kept(v.user.attributes)
  <1> DEFINE meta == GetMetadata(v)
             d    == PublishMetadata(ver, v)
  <1>1. meta \in {Absent} \cup MetadataBlock
    BY GetMetadataTyped
  <1>2. /\ d.top = IF ver = "V3" /\ meta # Absent THEN [meta EXCEPT !.grid = Absent]
                                                  ELSE EmptyBlock
        /\ d.nested = IF ver = "V2" THEN meta ELSE Absent
    BY DEF PublishMetadata
  <1>3. CASE ver = "V2"
    <2>1. d.top = EmptyBlock /\ d.nested = meta
      BY <1>2, <1>3
    <2>2. SoundDoc(d)
      BY <2>1, <1>1, EmptyBlockTyped DEF SoundDoc
    <2>3. /\ StoredBlock(d).stats = Or(meta, EmptyBlock).stats
          /\ StoredBlock(d).units = Or(meta, EmptyBlock).units
          /\ StoredBlock(d).attributes = Or(meta, EmptyBlock).attributes
      <3> HIDE DEF d, meta
      <3> QED
        BY <2>1 DEF StoredBlock, EmptyBlock, Or
    <2> QED
      BY <2>2, <2>3, GetMetadataTyped
  <1>4. CASE ver = "V3"
    <2>1. d.nested = Absent /\ d.top = IF meta # Absent THEN [meta EXCEPT !.grid = Absent]
                                                        ELSE EmptyBlock
      BY <1>2, <1>4
    <2>2. /\ d.top \in MetadataBlock
          /\ d.top.stats = Or(meta, EmptyBlock).stats
          /\ d.top.units = Or(meta, EmptyBlock).units
          /\ d.top.attributes = Or(meta, EmptyBlock).attributes
      <3> HIDE DEF d, meta
      <3>1. CASE meta = Absent
        BY <3>1, <2>1, EmptyBlockTyped DEF Or
      <3>2. CASE meta # Absent
        <4>1. meta \in MetadataBlock /\ d.top = [meta EXCEPT !.grid = Absent]
          BY <3>2, <2>1, <1>1
        <4>2. d.top = [stats |-> meta.stats, units |-> meta.units,
                       attributes |-> meta.attributes, grid |-> Absent]
          BY <4>1, BlockTyped
        <4>3. d.top \in MetadataBlock
          BY <4>1, <4>2, BlockTyped DEF MetadataBlock, Maybe
        <4> QED
          BY <4>2, <4>3, <3>2 DEF Or
      <3> QED
        BY <3>1, <3>2
    <2>3. /\ StoredBlock(d).stats = d.top.stats
          /\ StoredBlock(d).units = d.top.units
          /\ StoredBlock(d).attributes = d.top.attributes
      <3> HIDE DEF d, meta
      <3> QED
        BY <2>1 DEF StoredBlock, EmptyBlock, Or
    <2>4. SoundDoc(d)
      BY <2>1, <2>2 DEF SoundDoc
    <2> QED
      BY <2>2, <2>3, <2>4, GetMetadataTyped
  <1> QED
    BY <1>3, <1>4 DEF Versions

LEMMA BinnedAsFloat ==
    ASSUME NEW item \in Parsed
    PROVE  Binned(TRUE, item) = item
  BY DEF Binned, Parsed

LEMMA StatsReadBack ==
    ASSUME NEW stats \in Seq(Parsed), NEW block, block.stats = StatsBindable(stats)
    PROVE  FromVariableJson(block).stats = StatsRead(stats)
  <1> DEFINE isFloat == InferIsFloat(block)
             items   == Items(block.stats)
  <1>1. FromVariableJson(block).stats = [i \in DOMAIN items |-> Binned(isFloat, block.stats.items[i])]
    BY DEF FromVariableJson, FromJson
  <1>2. DOMAIN stats = 1..Len(stats) /\ Len(stats) \in Nat
    OBVIOUS
  <1>3. CASE stats = <<>>
    <2>1. block.stats = Absent
      BY <1>3 DEF StatsBindable
    <2>2. items = <<>>
      BY <2>1 DEF Items, Present
    <2>3. StatsRead(stats) = <<>>
      BY <1>3 DEF StatsRead
    <2> HIDE DEF items, isFloat
    <2> QED
      BY <1>1, <2>2, <2>3
  <1>4. ASSUME stats # <<>>
        PROVE  /\ items = stats /\ block.stats.items = stats /\ Present(block.stats)
               /\ block.stats.array = (Len(stats) > 1)
    <2>1. block.stats = [array |-> Len(stats) > 1, items |-> stats]
      BY <1>4 DEF StatsBindable
    <2>2. Parsed \subseteq StatisticsItem
      BY DEF Parsed, StatisticsItem
    <2>3. stats \in Seq(StatisticsItem)
      BY <2>2
    <2>4. (Len(stats) > 1) \in BOOLEAN
      OBVIOUS
    <2>5. block.stats \in Statistics
      BY <2>1, <2>3, <2>4 DEF Statistics
    <2>6. Present(block.stats)
      BY <2>5, NoValue DEF Present
    <2> QED
      BY <2>1, <2>6 DEF Items
  <1>5. CASE Len(stats) = 1
    <2>1. stats # <<>> /\ 1 \in DOMAIN stats
      <3> HIDE DEF items, isFloat
      <3>1. 1 \in DOMAIN stats
        BY <1>5, <1>2
      <3> QED
        BY <3>1
    <2>2. block.stats.array = FALSE
      <3>1. (Len(stats) > 1) = FALSE
        BY <1>5
      <3> QED
        BY <1>4, <2>1, <3>1
    <2>3. block.stats.items[1].text = FALSE
      <3>1. stats[1] \in Parsed
        BY <2>1
      <3>2. stats[1].text = FALSE
        BY <3>1 DEF Parsed
      <3> QED
        BY <1>4, <2>1, <3>2
    <2>4. isFloat = FALSE
      BY <1>4, <2>1, <2>2, <2>3 DEF InferIsFloat
    <2>5. FromVariableJson(block).stats = [i \in DOMAIN stats |-> Binned(FALSE, stats[i])]
      <3> HIDE DEF items, isFloat
      <3> QED
        BY <1>1, <1>4, <2>1, <2>4
    <2>6. DOMAIN stats = 1..1
      BY <1>2, <1>5
    <2>7. [i \in DOMAIN stats |-> Binned(FALSE, stats[i])] = <<Binned(FALSE, stats[1])>>
      <3> HIDE DEF items, isFloat
      <3> DEFINE only == Binned(FALSE, stats[1])
      <3>1. \A i \in 1..1 : i = 1
        OBVIOUS
      <3>2. [i \in DOMAIN stats |-> Binned(FALSE, stats[i])] = [i \in 1..1 |-> only]
        BY <2>6, <3>1
      <3> HIDE DEF only
      <3>3. [i \in 1..1 |-> only] = <<only>>
        OBVIOUS
      <3> QED
        BY <3>2, <3>3 DEF only
    <2> QED
      BY <2>5, <2>7, <1>5 DEF StatsRead
  <1>6. CASE Len(stats) > 1
    <2>1. stats # <<>>
      BY <1>6, <1>2
    <2>2. block.stats.array = TRUE
      BY <1>4, <2>1, <1>6
    <2>3. isFloat = TRUE
      BY <2>2 DEF InferIsFloat
    <2>4. FromVariableJson(block).stats = [i \in DOMAIN stats |-> Binned(TRUE, stats[i])]
      <3> HIDE DEF items, isFloat
      <3> QED
        BY <1>1, <1>4, <2>1, <2>3
    <2>5. ASSUME NEW i \in DOMAIN stats PROVE Binned(TRUE, stats[i]) = stats[i]
      <3>1. stats[i] \in Parsed
        OBVIOUS
      <3> QED
        BY <3>1, BinnedAsFloat
    <2>6. [i \in DOMAIN stats |-> Binned(TRUE, stats[i])] = stats
      <3>1. stats = [i \in DOMAIN stats |-> stats[i]]
        OBVIOUS
      <3> HIDE DEF items, isFloat
      <3> QED
        BY <2>5, <3>1
    <2>7. StatsRead(stats) = stats
      <3> DEFINE only == <<Binned(FALSE, stats[1])>>
      <3>1. Len(stats) # 1
        BY <1>2, <1>6
      <3>2. StatsRead(stats) = IF Len(stats) = 1 THEN only ELSE stats
        BY DEF StatsRead
      <3> HIDE DEF only
      <3> QED
        BY <3>1, <3>2
    <2> QED
      BY <2>4, <2>6, <2>7
  <1> QED
    BY <1>2, <1>3, <1>5, <1>6

LEMMA UnitsReadBack ==
    ASSUME NEW units \in Seq(STRING), NEW block, block.units = UnitsBindable(units)
    PROVE  FromVariableJson(block).units = units
  <1>1. FromVariableJson(block).units = Items(block.units)
    BY DEF FromVariableJson, FromJson
  <1>2. CASE units = <<>>
    BY <1>1, <1>2 DEF UnitsBindable, Items, Present
  <1>3. CASE units # <<>>
    <2> DEFINE form == IF Len(units) = 1 THEN "text" ELSE "array"
    <2>1. block.units = [form |-> form, items |-> units]
      BY <1>3 DEF UnitsBindable
    <2>2. block.units \in Units
      BY <2>1 DEF Units
    <2>3. Present(block.units)
      BY <2>2, NoValue DEF Present
    <2> QED
      BY <1>1, <2>1, <2>3 DEF Items
  <1> QED
    BY <1>2, <1>3

LEMMA ReadBack ==
    ASSUME NEW u \in User, NEW block,
           block.stats = StatsBindable(u.stats), block.units = UnitsBindable(u.units),
           block.attributes = IF u.attributes = {} THEN Absent ELSE Kept(u.attributes)
    PROVE  FromVariableJson(block) =
             [stats |-> StatsRead(u.stats), units |-> u.units, attributes |-> Kept(u.attributes)]
  <1> DEFINE read == FromVariableJson(block)
  <1>1. read.stats = StatsRead(u.stats) /\ read.units = u.units
    BY StatsReadBack, UnitsReadBack DEF User
  <1>2. read.attributes = Kept(u.attributes)
    <2>1. read.attributes = IF Present(block.attributes) THEN block.attributes ELSE {}
      BY DEF FromVariableJson, FromJson
    <2>2. Kept(u.attributes) \in SUBSET Pairs
      BY DEF User, Kept
    <2>3. CASE u.attributes = {}
      <3>1. Kept(u.attributes) = {}
        BY <2>3 DEF Kept
      <3> QED
        BY <2>1, <2>3, <3>1 DEF Present
    <2>4. CASE u.attributes # {}
      <3>1. Present(Kept(u.attributes))
        BY <2>2, NoValue DEF Present
      <3> QED
        BY <2>1, <2>4, <3>1
    <2> QED
      BY <2>3, <2>4
  <1>3. read = [stats |-> read.stats, units |-> read.units, attributes |-> read.attributes]
    BY DEF FromVariableJson, FromJson
  <1> HIDE DEF read
  <1>4. read = [stats |-> StatsRead(u.stats), units |-> u.units, attributes |-> Kept(u.attributes)]
    BY <1>1, <1>2, <1>3
  <1> QED
    BY <1>4 DEF read

\* A commit writes what AttributeStore says it does, in both formats.
LEMMA CommitWrites ==
    ASSUME NEW v, SoundVariable(v), NEW ver \in Versions
    PROVE  Attributes(OpenVariable(PublishMetadata(ver, v))) = Written(Attributes(v))
  <1> DEFINE d == PublishMetadata(ver, v)
             coords == IF v.coords = <<"">> THEN Absent ELSE v.coords
             user == [stats |-> StatsRead(v.user.stats), units |-> v.user.units,
                      attributes |-> Kept(v.user.attributes)]
  <1>1. FromVariableJson(StoredBlock(d)) = user
    BY PublishedBlock, ReadBack DEF SoundVariable
  <1>2. d.longName = v.longName /\ d.coords = v.coords /\ v.longName \notin {"", Null}
    BY DEF PublishMetadata, SoundVariable
  <1>3. OpenVariable(d).longName = v.longName /\ OpenVariable(d).coords = v.coords
    BY <1>2 DEF OpenVariable, InMemory
  <1>4. OpenVariable(d).user = user
    BY <1>1 DEF OpenVariable, InMemory
  <1>5. Attributes(OpenVariable(d)) = [longName |-> v.longName, user |-> user, coords |-> coords]
    <2> HIDE DEF d, user
    <2> QED
      BY <1>3, <1>4 DEF Attributes
  <1>6. Written(Attributes(v)) = [longName |-> v.longName, user |-> user, coords |-> coords]
    <2>1. Attributes(v) = [longName |-> v.longName, user |-> v.user, coords |-> coords]
      BY DEF Attributes
    <2>2. v.user = [stats |-> v.user.stats, units |-> v.user.units,
                    attributes |-> v.user.attributes]
      BY DEF SoundVariable, User
    <2> DEFINE a == [longName |-> v.longName, user |-> v.user, coords |-> coords]
    <2>3. Written(a) = [a EXCEPT !.user.stats = StatsRead(v.user.stats),
                                 !.user.attributes = Kept(v.user.attributes)]
      <3> HIDE DEF coords
      <3>1. a.user = v.user
        OBVIOUS
      <3> HIDE DEF a
      <3> QED
        BY <3>1 DEF Written, StatsRead, Kept
    <2>4. @ = [[a EXCEPT !.user.stats = StatsRead(v.user.stats)]
                  EXCEPT !.user.attributes = Kept(v.user.attributes)]
      <3> HIDE DEF coords
      <3> QED
        OBVIOUS
    <2>5. [a EXCEPT !.user.stats = StatsRead(v.user.stats)] =
            [longName |-> v.longName, coords |-> coords,
             user |-> [stats |-> StatsRead(v.user.stats), units |-> v.user.units,
                       attributes |-> v.user.attributes]]
      <3> HIDE DEF coords
      <3> QED
        BY <2>2
    <2>6. [[a EXCEPT !.user.stats = StatsRead(v.user.stats)]
               EXCEPT !.user.attributes = Kept(v.user.attributes)] =
            [longName |-> v.longName, coords |-> coords, user |-> user]
      <3> DEFINE b == [a EXCEPT !.user.stats = StatsRead(v.user.stats)]
                 kept == Kept(v.user.attributes)
      <3>1. b.user = [stats |-> StatsRead(v.user.stats), units |-> v.user.units,
                      attributes |-> v.user.attributes]
        BY <2>5
      <3>2. [b.user EXCEPT !.attributes = kept] = user
        <4> HIDE DEF a, b, coords, kept
        <4>1. [b.user EXCEPT !.attributes = kept] =
                [stats |-> StatsRead(v.user.stats), units |-> v.user.units, attributes |-> kept]
          BY <3>1
        <4> QED
          BY <4>1 DEF kept
      <3>3. [b EXCEPT !.user.attributes = kept] = [b EXCEPT !.user = [b.user EXCEPT !.attributes = kept]]
        OBVIOUS
      <3>4. [b EXCEPT !.user = user] = [longName |-> v.longName, coords |-> coords, user |-> user]
        <4> DEFINE was == [stats |-> StatsRead(v.user.stats), units |-> v.user.units,
                           attributes |-> v.user.attributes]
        <4>1. b = [longName |-> v.longName, coords |-> coords, user |-> was]
          BY <2>5
        <4> HIDE DEF coords, user, was, b
        <4> QED
          BY <4>1
      <3> HIDE DEF a, coords, user, b, kept
      <3> QED
        BY <3>2, <3>3, <3>4 DEF b, kept
    <2> HIDE DEF a, user, coords
    <2> QED
      BY <2>1, <2>3, <2>4, <2>6 DEF a
  <1> HIDE DEF d, user, coords
  <1> QED
    BY <1>5, <1>6 DEF d

\* An opening looks at three of the fields of a block.
LEMMA SameRead ==
    ASSUME NEW b, NEW c, b.stats = c.stats, b.units = c.units, b.attributes = c.attributes
    PROVE  FromVariableJson(b) = FromVariableJson(c)
  <1>1. InferIsFloat(b) = InferIsFloat(c)
    BY DEF InferIsFloat
  <1> QED
    BY <1>1 DEF FromVariableJson, FromJson

LEMMA CreatedNames ==
    ASSUME NEW attrs
    PROVE  LET d == WriteVariableAttributes(attrs) IN
           /\ d.longName = IF attrs.longName = "" THEN Absent ELSE attrs.longName
           /\ d.coords = IF attrs.coords = <<"">> THEN Absent ELSE attrs.coords
  BY DEF WriteVariableAttributes

\* What a creation writes: the block of the specification but for the grid.
LEMMA CreatedBlock ==
    ASSUME NEW attrs, attrs.meta \in Maybe(MetadataBlock)
    PROVE  LET d == WriteVariableAttributes(attrs) IN
           /\ SoundDoc(d)
           /\ StoredBlock(d).stats = Block(attrs).stats
           /\ StoredBlock(d).units = Block(attrs).units
           /\ StoredBlock(d).attributes = Block(attrs).attributes
           /\ StoredBlock(d).grid = Absent
  <1> DEFINE d == WriteVariableAttributes(attrs)
             block == Block(attrs)
  <1>1. block \in MetadataBlock
    BY EmptyBlockTyped DEF Block, Present, Maybe
  <1>2. d.nested = Absent /\ d.top = IF Present(attrs.meta) THEN [attrs.meta EXCEPT !.grid = Absent]
                                                            ELSE EmptyBlock
    BY DEF WriteVariableAttributes
  <1>3. d.top = [block EXCEPT !.grid = Absent]
    <2>1. CASE Present(attrs.meta)
      BY <2>1, <1>2 DEF Block
    <2>2. CASE ~Present(attrs.meta)
      <3>1. block = EmptyBlock /\ d.top = EmptyBlock
        BY <2>2, <1>2 DEF Block
      <3>2. [EmptyBlock EXCEPT !.grid = Absent] = EmptyBlock
        BY DEF EmptyBlock
      <3> HIDE DEF d, block
      <3> QED
        BY <3>1, <3>2
    <2> QED
      BY <2>1, <2>2
  <1> HIDE DEF d, block
  <1>4. d.top = [stats |-> block.stats, units |-> block.units,
                 attributes |-> block.attributes, grid |-> Absent]
    BY <1>1, <1>3, BlockTyped
  <1>5. SoundDoc(d)
    <2>1. d.top \in MetadataBlock
      BY <1>1, <1>4, BlockTyped DEF MetadataBlock, Maybe
    <2> QED
      BY <2>1, <1>2 DEF SoundDoc
  <1>6. /\ StoredBlock(d).stats = Or(d.top.stats, Absent)
        /\ StoredBlock(d).units = Or(d.top.units, Absent)
        /\ StoredBlock(d).attributes = Or(d.top.attributes, Absent)
        /\ StoredBlock(d).grid = Absent
    BY <1>2 DEF StoredBlock, Or, EmptyBlock
  <1>7. /\ StoredBlock(d).stats = block.stats
        /\ StoredBlock(d).units = block.units
        /\ StoredBlock(d).attributes = block.attributes
    BY <1>4, <1>6 DEF Or
  <1> QED
    BY <1>5, <1>6, <1>7 DEF d, block

\* What a creation hands out is what an opening of it would find.
LEMMA CreationWrites ==
    ASSUME NEW attrs, attrs.meta \in Maybe(MetadataBlock), attrs.longName # Null, NEW hasMeta
    PROVE  Attributes(OpenVariable(WriteVariableAttributes(attrs))) =
             Attributes(InMemory(attrs.longName, attrs.coords, hasMeta, Block(attrs)))
  <1> DEFINE d == WriteVariableAttributes(attrs)
             v == InMemory(attrs.longName, attrs.coords, hasMeta, Block(attrs))
  <1>1. FromVariableJson(StoredBlock(d)) = FromVariableJson(Block(attrs))
    BY CreatedBlock, SameRead
  <1>2. OpenVariable(d).user = v.user
    BY <1>1 DEF OpenVariable, InMemory
  <1>3. OpenVariable(d).longName = v.longName
    BY NoValue DEF OpenVariable, InMemory, WriteVariableAttributes
  <1>4. OpenVariable(d).coords = IF v.coords = <<"">> THEN Absent ELSE v.coords
    BY DEF OpenVariable, InMemory, WriteVariableAttributes
  <1> HIDE DEF d, v
  <1>6. Attributes(OpenVariable(d)) = Attributes(v)
    BY <1>2, <1>3, <1>4 DEF Attributes
  <1> QED
    BY <1>6 DEF d, v

-----------------------------------------------------------------------------
(* Header variables *)

LEMMA HeaderFound ==
    ASSUME NEW ver \in Versions, NEW root, NEW attrs, ver = "V2" => root = Absent
    PROVE  SoundHeader(ver, OpenedHeader(root, attrs))
  <1> DEFINE h == OpenedHeader(root, attrs)
  <1>1. /\ DOMAIN h = {"root", "stored", "mem", "modified", "labels", "saved"}
        /\ h.root = root /\ h.stored = [file |-> attrs, index |-> attrs]
        /\ h.mem = FromSpec(root, attrs) /\ h.saved = attrs.user
        /\ h.labels = FirstPresent(root, attrs.arrayDims, attrs.plainDims)
    BY DEF OpenedHeader, FromSpec, ExtractDimensionLabels
  <1>2. /\ DOMAIN h.mem = {"labels", "dims", "longName", "user", "original"}
        /\ h.mem.original = attrs
        /\ h.mem.dims = FirstPresent(attrs.arrayDims, root, attrs.plainDims)
    BY <1>1 DEF FromSpec
  <1>3. StoredHeader(ver, h.stored) = attrs
    BY <1>1 DEF StoredHeader
  <1>4. DOMAIN h.stored = {"file", "index"}
    BY <1>1
  <1> HIDE DEF h
  <1>5. SoundHeader(ver, h)
    BY <1>1, <1>2, <1>3, <1>4 DEF SoundHeader, LabelsIn, FirstPresent
  <1> QED
    BY <1>5 DEF h

LEMMA HeaderUpdated ==
    ASSUME NEW ver \in Versions, NEW h, SoundHeader(ver, h), NEW user
    PROVE  SoundHeader(ver, [h EXCEPT !.mem.user = user, !.modified = TRUE])
  <1> DEFINE g == [h EXCEPT !.mem.user = user, !.modified = TRUE]
  <1>1. /\ DOMAIN g = DOMAIN h
        /\ g.root = h.root /\ g.stored = h.stored /\ g.labels = h.labels /\ g.saved = h.saved
    BY DEF SoundHeader
  <1>2. g.mem = [h.mem EXCEPT !.user = user]
    BY DEF SoundHeader
  <1>3. DOMAIN g.mem = DOMAIN h.mem /\ g.mem.dims = h.mem.dims /\ g.mem.original = h.mem.original
    BY <1>2 DEF SoundHeader
  <1> HIDE DEF g
  <1>4. SoundHeader(ver, g)
    BY <1>1, <1>3 DEF SoundHeader
  <1> QED
    BY <1>4 DEF g

LEMMA HeaderReopened ==
    ASSUME NEW ver \in Versions, NEW h, SoundHeader(ver, h)
    PROVE  SoundHeader(ver, [h EXCEPT !.mem = FromSpec(h.root, StoredHeader(ver, h.stored)),
                                      !.modified = FALSE])
  <1> DEFINE found == StoredHeader(ver, h.stored)
             g == [h EXCEPT !.mem = FromSpec(h.root, found), !.modified = FALSE]
  <1>1. /\ DOMAIN g = DOMAIN h
        /\ g.root = h.root /\ g.stored = h.stored /\ g.labels = h.labels /\ g.saved = h.saved
    BY DEF SoundHeader
  <1>2. g.mem = FromSpec(h.root, found)
    BY DEF SoundHeader
  <1>3. /\ DOMAIN g.mem = {"labels", "dims", "longName", "user", "original"}
        /\ g.mem.original = found
        /\ g.mem.dims = FirstPresent(found.arrayDims, h.root, found.plainDims)
    BY <1>2 DEF FromSpec
  <1>4. h.root = Absent => LabelsIn(ver, found, h.labels)
    BY DEF SoundHeader
  <1>5. ver # "V2" /\ h.root = Absent /\ found.arrayDims # Absent => found.arrayDims = h.labels
    BY <1>4 DEF LabelsIn
  <1> HIDE DEF g
  <1>6. StoredHeader(ver, g.stored) = found
    BY <1>1
  <1> HIDE DEF found
  <1>7. SoundHeader(ver, g)
    BY <1>1, <1>3, <1>4, <1>5, <1>6 DEF SoundHeader, found
  <1> QED
    BY <1>7 DEF g, found

\* Whichever of its writes a commit of a header variable makes last.
LEMMA HeaderCommitted ==
    ASSUME NEW ver \in Versions, NEW h, SoundHeader(ver, h),
           NEW s \in Committed(ver, h.mem, h.modified, h.stored)
    PROVE  SoundHeader(ver, [h EXCEPT !.stored = s, !.saved = h.mem.user])
  <1> DEFINE g == [h EXCEPT !.stored = s, !.saved = h.mem.user]
             orig == h.mem.original
             found == StoredHeader(ver, s)
  <1>1. /\ DOMAIN g = DOMAIN h
        /\ g.root = h.root /\ g.stored = s /\ g.labels = h.labels /\ g.mem = h.mem
        /\ g.saved = h.mem.user
    BY DEF SoundHeader
  <1>2. DOMAIN s = {"file", "index"}
    BY DEF Committed, SoundHeader
  <1>3. \/ found = ToCommitJson(h.mem) /\ ver = "V2"
        \/ found = BuildPublishAttrs(h.mem) /\ ver # "V2"
        \/ found = PrepareHeaderAttributes(ToCommitJson(h.mem)) /\ ver # "V2"
    BY DEF Committed, StoredHeader, SoundHeader
  <1>4. /\ BuildPublishAttrs(h.mem).user = h.mem.user
        /\ BuildPublishAttrs(h.mem).arrayDims = orig.arrayDims
        /\ BuildPublishAttrs(h.mem).plainDims = Absent
    BY DEF BuildPublishAttrs
  <1>5. /\ ToCommitJson(h.mem).user = h.mem.user
        /\ ToCommitJson(h.mem).arrayDims = orig.arrayDims
        /\ ToCommitJson(h.mem).plainDims = h.mem.dims
        /\ DOMAIN ToCommitJson(h.mem) = {"arrayDims", "plainDims", "longName", "user"}
    BY DEF ToCommitJson, BuildPublishAttrs
  <1>6. /\ PrepareHeaderAttributes(ToCommitJson(h.mem)).user = h.mem.user
        /\ PrepareHeaderAttributes(ToCommitJson(h.mem)).arrayDims = Or(h.mem.dims, orig.arrayDims)
        /\ PrepareHeaderAttributes(ToCommitJson(h.mem)).plainDims = Absent
    BY <1>5 DEF PrepareHeaderAttributes
  <1>7. found.user = h.mem.user
    BY <1>3, <1>4, <1>5, <1>6
  <1>8. h.mem.dims = FirstPresent(orig.arrayDims, h.root, orig.plainDims)
    BY DEF SoundHeader
  <1>9. h.root = Absent => LabelsIn(ver, orig, h.labels)
    BY DEF SoundHeader
  <1>10. h.root = Absent =>
           /\ LabelsIn(ver, found, h.labels)
           /\ ver # "V2" /\ orig.arrayDims # Absent => found.arrayDims = h.labels
    <2> HIDE DEF found, orig
    <2>1. CASE found = ToCommitJson(h.mem) /\ ver = "V2"
      BY <2>1, <1>5, <1>8, <1>9 DEF LabelsIn, FirstPresent
    <2>2. CASE found = BuildPublishAttrs(h.mem) /\ ver # "V2"
      BY <2>2, <1>4, <1>9 DEF LabelsIn
    <2>3. CASE found = PrepareHeaderAttributes(ToCommitJson(h.mem)) /\ ver # "V2"
      BY <2>3, <1>6, <1>8, <1>9 DEF LabelsIn, FirstPresent, Or
    <2> QED
      BY <2>1, <2>2, <2>3, <1>3
  <1>11. StoredHeader(ver, g.stored) = found
    BY <1>1
  <1> HIDE DEF g, found
  <1>12. SoundHeader(ver, g)
    BY <1>1, <1>2, <1>7, <1>8, <1>9, <1>10, <1>11 DEF SoundHeader
  <1> QED
    BY <1>12 DEF g

-----------------------------------------------------------------------------
(* The JSON and the arrays made of it *)

\* Field by field.
LEMMA NormalizedFields ==
    ASSUME NEW c, c.name \in {Absent, "blosc"}, Present(c),
           DOMAIN c = {"name", "cname", "algorithm", "clevel", "level", "shuffle", "blocksize", "mode"},
           c = [key \in DOMAIN c |-> c[key]]
    PROVE  normalize_legacy_blosc(c) =
             [name |-> c.name, cname |-> Or(c.cname, c.algorithm), algorithm |-> Absent,
              clevel |-> Or(c.clevel, c.level), level |-> Absent,
              shuffle |-> IF Present(c.shuffle) THEN [c.shuffle EXCEPT !.legacy = FALSE] ELSE c.shuffle,
              blocksize |-> c.blocksize, mode |-> c.mode]
  <1> DEFINE shuffle == IF Present(c.shuffle) THEN [c.shuffle EXCEPT !.legacy = FALSE] ELSE c.shuffle
             cname == Or(c.cname, c.algorithm)
             clevel == Or(c.clevel, c.level)
             n == normalize_legacy_blosc(c)
  <1>1. n = [c EXCEPT !.cname = cname, !.clevel = clevel, !.algorithm = Absent, !.level = Absent,
                      !.shuffle = shuffle]
    BY DEF normalize_legacy_blosc
  <1> HIDE DEF shuffle, cname, clevel, n
  <1>3. DOMAIN n = DOMAIN c
    BY <1>1
  <1>4. /\ n.name = c.name /\ n.cname = cname /\ n.algorithm = Absent /\ n.clevel = clevel
        /\ n.level = Absent /\ n.shuffle = shuffle /\ n.blocksize = c.blocksize /\ n.mode = c.mode
    BY <1>1
  <1>5. n = [name |-> n.name, cname |-> n.cname, algorithm |-> n.algorithm, clevel |-> n.clevel,
             level |-> n.level, shuffle |-> n.shuffle, blocksize |-> n.blocksize, mode |-> n.mode]
    <2>1. n = [x \in DOMAIN n |-> n[x]]
      BY <1>1
    <2> QED
      BY <2>1, <1>3
  <1> QED
    BY <1>4, <1>5 DEF n, shuffle, cname, clevel

LEMMA CompressorKeys ==
    ASSUME NEW c \in Compressor
    PROVE  /\ DOMAIN c = {"name", "cname", "algorithm", "clevel", "level", "shuffle", "blocksize", "mode"}
           /\ c = [key \in DOMAIN c |-> c[key]]
  BY DEF Compressor

LEMMA NormalizedTyped ==
    ASSUME NEW c \in Maybe(Compressor)
    PROVE  normalize_legacy_blosc(c) \in Maybe(Compressor)
  <1>1. CASE ~Present(c) \/ c.name \notin {Absent, "blosc"}
    BY <1>1 DEF normalize_legacy_blosc
  <1>2. CASE Present(c) /\ c.name \in {Absent, "blosc"}
    <2> DEFINE shuffle == IF Present(c.shuffle) THEN [c.shuffle EXCEPT !.legacy = FALSE] ELSE c.shuffle
    <2>1. c \in Compressor
      BY <1>2 DEF Maybe, Present
    <2>2. shuffle \in Maybe(Shuffle)
      <3>1. c.shuffle \in Maybe(Shuffle)
        BY <2>1 DEF Compressor
      <3> QED
        BY <3>1 DEF Maybe, Shuffle, Present
    <2>3. Or(c.cname, c.algorithm) \in Maybe(STRING) /\ Or(c.clevel, c.level) \in Maybe(Int)
      BY <2>1 DEF Compressor, Or
    <2>4. /\ c.name \in Maybe(STRING) /\ c.mode \in Maybe(STRING) /\ c.blocksize \in Maybe(Int)
          /\ Absent \in Maybe(STRING) /\ Absent \in Maybe(Int)
      BY <2>1 DEF Compressor, Maybe
    <2>5. normalize_legacy_blosc(c) =
            [name |-> c.name, cname |-> Or(c.cname, c.algorithm), algorithm |-> Absent,
             clevel |-> Or(c.clevel, c.level), level |-> Absent,
             shuffle |-> shuffle, blocksize |-> c.blocksize, mode |-> c.mode]
      BY <2>1, <1>2, CompressorKeys, NormalizedFields
    <2> HIDE DEF shuffle
    <2>6. normalize_legacy_blosc(c) \in Compressor
      BY <2>2, <2>3, <2>4, <2>5 DEF Compressor
    <2> QED
      BY <2>6 DEF Maybe
  <1> QED
    BY <1>1, <1>2

NormalizedVariable(v) == [v EXCEPT !.compressor = normalize_legacy_blosc(v.compressor)]

LEMMA NormalizedVariableTyped ==
    ASSUME NEW v \in VariableJson
    PROVE  /\ NormalizedVariable(v) \in VariableJson
           /\ NormalizedVariable(v).name = v.name /\ NormalizedVariable(v).longName = v.longName
           /\ NormalizedVariable(v).type = v.type /\ NormalizedVariable(v).dims = v.dims
           /\ NormalizedVariable(v).coords = v.coords /\ NormalizedVariable(v).meta = v.meta
           /\ NormalizedVariable(v).compressor = normalize_legacy_blosc(v.compressor)
  <1> DEFINE c == normalize_legacy_blosc(v.compressor)
  <1>1. c \in Maybe(Compressor)
    BY NormalizedTyped DEF VariableJson
  <1>2. NormalizedVariable(v) = [v EXCEPT !.compressor = c]
    BY DEF NormalizedVariable
  <1> HIDE DEF c
  <1>3. NormalizedVariable(v) \in VariableJson
    BY <1>1, <1>2 DEF VariableJson
  <1>4. NormalizedVariable(v).compressor = c
    BY <1>2 DEF VariableJson
  <1> QED
    BY <1>2, <1>3, <1>4 DEF VariableJson, c

LEMMA JsonTyped ==
    ASSUME NEW js \in DatasetJsons
    PROVE  /\ js \in Seq(VariableJson) /\ DOMAIN js = 1..Len(js) /\ Len(js) \in Nat
           /\ \A i \in DOMAIN js :
                /\ js[i] \in VariableJson
                /\ Len(js[i].dims.sizes) = IF js[i].dims.objects THEN Len(js[i].dims.names) ELSE 0
  BY DEF DatasetJsons

LEMMA NormalizedJson ==
    ASSUME NEW js \in DatasetJsons
    PROVE  /\ normalize_legacy_compressors(js) = [i \in DOMAIN js |-> NormalizedVariable(js[i])]
           /\ DOMAIN normalize_legacy_compressors(js) = DOMAIN js
           /\ normalize_legacy_compressors(js) \in DatasetJsons
  <1> DEFINE n == [i \in DOMAIN js |-> NormalizedVariable(js[i])]
  <1>1. normalize_legacy_compressors(js) = n
    BY DEF normalize_legacy_compressors, NormalizedVariable
  <1>2. DOMAIN js = 1..Len(js) /\ Len(js) \in Nat
    BY JsonTyped
  <1>3. ASSUME NEW i \in DOMAIN js
        PROVE  NormalizedVariable(js[i]) \in VariableJson /\ NormalizedVariable(js[i]).dims = js[i].dims
    BY JsonTyped, NormalizedVariableTyped
  <1>4. n \in Seq(VariableJson)
    BY <1>2, <1>3
  <1>5. \A i \in DOMAIN n :
          Len(n[i].dims.sizes) = IF n[i].dims.objects THEN Len(n[i].dims.names) ELSE 0
    BY <1>3, JsonTyped
  <1>6. n \in DatasetJsons
    BY <1>4, <1>5 DEF DatasetJsons
  <1> QED
    BY <1>1, <1>6

\* What a construction that succeeded leaves.
LEMMA Constructed ==
    ASSUME NEW js \in DatasetJsons, NEW ver
    PROVE  LET result == Construct(ver, js) IN
           /\ result.outcome \in {"ok", "error", "throws"}
           /\ result.json = normalize_legacy_compressors(js)
           /\ result.outcome = "ok" =>
                /\ validate_dataset(result.json) /\ GetDimensionsOk(result.json)
                /\ SpecsOutcome(result.json) = "ok"
                /\ result.specs = [i \in DOMAIN result.json |->
                                     from_json_to_spec(ver, result.json, result.json[i])]
           /\ result.outcome # "ok" => result.specs = <<>>
  <1> DEFINE n == normalize_legacy_compressors(js)
             outcome == IF validate_dataset(n) /\ GetDimensionsOk(n) THEN SpecsOutcome(n) ELSE "error"
             specs == [i \in DOMAIN n |-> from_json_to_spec(ver, n, n[i])]
             result == Construct(ver, js)
  <1>1. SpecsOutcome(n) \in {"ok", "error", "throws"}
    <2> HIDE DEF n
    <2> QED
      BY DEF SpecsOutcome
  <1>2. result = [outcome |-> outcome, json |-> n, specs |-> IF outcome = "ok" THEN specs ELSE <<>>]
    BY DEF Construct
  <1> HIDE DEF n, specs, result
  <1> QED
    BY <1>1, <1>2 DEF n, specs, result

-----------------------------------------------------------------------------
(* The invariant is inductive *)

LEMMA InitInv == Init => JsonInv
  <1> SUFFICES ASSUME Init PROVE JsonInv
    OBVIOUS
  <1>1. dirty = {} /\ pending = {} /\ calls = 0 /\ ~committed /\ version \in Versions
    BY DEF Init
  <1>2. MaxOps \in Nat
    BY BoundsAssumption
  <1>3. CASE /\ json \in Jsons /\ phase = "json"
             /\ arrays = <<>> /\ doc = <<>> /\ mem = <<>> /\ header = Absent
    <2>1. ControlInv
      BY <1>1, <1>2, <1>3 DEF ControlInv, Phases
    <2>2. NothingBefore
      BY <1>1, <1>3 DEF NothingBefore
    <2>3. VariablesInv
      BY <1>1, <1>3 DEF VariablesInv
    <2>4. Published /\ HeaderInv
      BY <1>1, <1>3 DEF Published, HeaderInv
    <2>5. SpecifiedInv
      BY <1>3, InputsAssumption DEF SpecifiedInv
    <2> QED
      BY <2>1, <2>2, <2>3, <2>4, <2>5 DEF JsonInv
  <1>4. CASE \E d \in ForeignDocs :
               /\ json = <<>> /\ phase = "open" /\ arrays = <<ForeignArray(version)>>
               /\ doc = <<d>> /\ mem = <<OpenVariable(d)>>
               /\ \/ header = Absent
                  \/ \E h \in HeaderDocs :
                        /\ version = "V2" => h[1] = Absent
                        /\ header = OpenedHeader(h[1], h[2])
    <2>1. PICK d \in ForeignDocs :
               /\ json = <<>> /\ phase = "open" /\ arrays = <<ForeignArray(version)>>
               /\ doc = <<d>> /\ mem = <<OpenVariable(d)>>
               /\ \/ header = Absent
                  \/ \E h \in HeaderDocs :
                        /\ version = "V2" => h[1] = Absent
                        /\ header = OpenedHeader(h[1], h[2])
      BY <1>4
    <2>2. SoundDoc(d) /\ FromJsonOk(StoredBlock(d))
      BY InputsAssumption DEF SoundDoc, StoredAttributesType
    <2>3. SoundVariable(OpenVariable(d))
      BY <2>2, OpenVariableTyped
    <2>4. ControlInv
      BY <1>1, <1>2, <2>1 DEF ControlInv, Phases
    <2>5. NothingBefore
      BY <2>1 DEF NothingBefore
    <2>6. VariablesInv
      <3> DEFINE v == OpenVariable(d)
                 a == ForeignArray(version)
      <3>1. mem = <<v>> /\ doc = <<d>> /\ arrays = <<a>> /\ SoundVariable(v) /\ SoundDoc(d)
        BY <2>1, <2>2, <2>3
      <3> HIDE DEF v, a
      <3> QED
        BY <3>1, <1>1 DEF VariablesInv
    <2>7. Published
      BY <1>1 DEF Published
    <2>8. HeaderInv
      BY <2>1, <1>1, HeaderFound DEF HeaderInv
    <2>9. SpecifiedInv
      BY <2>1 DEF SpecifiedInv
    <2> QED
      BY <2>4, <2>5, <2>6, <2>7, <2>8, <2>9 DEF JsonInv
  <1> QED
    BY <1>3, <1>4 DEF Init

LEMMA ConstructInv == JsonInv /\ ConstructSpecs => JsonInv'
  <1> SUFFICES ASSUME JsonInv, ConstructSpecs PROVE JsonInv'
    OBVIOUS
  <1> DEFINE result == Construct(version, json)
  <1>1. /\ phase = "json" /\ json' = result.json /\ arrays' = result.specs
        /\ phase' = CASE result.outcome = "ok"    -> "constructed"
                      [] result.outcome = "error" -> "refused"
                      [] OTHER                    -> "throws"
        /\ UNCHANGED <<version, doc, mem, dirty, header, out, calls, pending, committed>>
    BY DEF ConstructSpecs
  <1>2. json \in DatasetJsons
    BY <1>1 DEF JsonInv, SpecifiedInv
  <1>3. /\ result.json \in DatasetJsons
        /\ result.outcome \in {"ok", "error", "throws"}
        /\ result.outcome = "ok" =>
             /\ validate_dataset(result.json) /\ GetDimensionsOk(result.json)
             /\ result.specs = [i \in DOMAIN result.json |->
                                  from_json_to_spec(version, result.json, result.json[i])]
    BY <1>2, Constructed, NormalizedJson
  <1> HIDE DEF result
  <1>4. /\ phase' \in {"constructed", "refused", "throws"}
        /\ phase' = "constructed" => result.outcome = "ok"
    BY <1>1, <1>3
  <1>5. mem = <<>> /\ doc = <<>> /\ dirty = {} /\ pending = {} /\ header = Absent /\ ~committed
    BY <1>1 DEF JsonInv, NothingBefore
  <1>6. ControlInv'
    BY <1>1, <1>4 DEF JsonInv, ControlInv, Phases
  <1>7. NothingBefore'
    BY <1>1, <1>5 DEF NothingBefore
  <1>8. VariablesInv'
    BY <1>1, <1>4, <1>5 DEF VariablesInv
  <1>9. Published' /\ HeaderInv'
    BY <1>1, <1>5 DEF Published, HeaderInv
  <1>10. SpecifiedInv'
    BY <1>1, <1>3, <1>4 DEF SpecifiedInv
  <1> QED
    BY <1>6, <1>7, <1>8, <1>9, <1>10 DEF JsonInv

\* What the creation's guards say of the arrays.
LEMMA CreatedArrays ==
    ASSUME JsonInv, Create, phase' = "open"
    PROVE  /\ DOMAIN doc' = DOMAIN arrays /\ DOMAIN mem' = DOMAIN arrays
           /\ doc' = [i \in DOMAIN arrays |-> WriteVariableAttributes(arrays[i].attrs)]
           /\ mem' = [i \in DOMAIN arrays |->
                        InMemory(arrays[i].attrs.longName, arrays[i].attrs.coords,
                                 arrays[i].attrs.meta # Absent, Block(arrays[i].attrs))]
           /\ \A i \in DOMAIN arrays :
                /\ arrays[i].attrs.meta \in Maybe(MetadataBlock)
                /\ arrays[i].attrs.longName # Null
                /\ FromJsonOk(Block(arrays[i].attrs)) /\ Block(arrays[i].attrs) \in MetadataBlock
  <1>1. phase = "constructed"
    BY DEF Create
  <1>2. /\ doc' = [i \in DOMAIN arrays |-> WriteVariableAttributes(arrays[i].attrs)]
        /\ mem' = [i \in DOMAIN arrays |->
                     InMemory(arrays[i].attrs.longName, arrays[i].attrs.coords,
                              arrays[i].attrs.meta # Absent, Block(arrays[i].attrs))]
        /\ \A i \in DOMAIN arrays :
             ~AttributesThrow(version, arrays[i].attrs) /\ FromJsonOk(Block(arrays[i].attrs))
    BY DEF Create
  <1>3. ASSUME NEW i \in DOMAIN arrays
        PROVE  /\ arrays[i].attrs.meta \in Maybe(MetadataBlock)
               /\ arrays[i].attrs.longName # Null
               /\ Block(arrays[i].attrs) \in MetadataBlock
    <2>1. json \in DatasetJsons /\ i \in DOMAIN json
          /\ arrays[i] = from_json_to_spec(version, json, json[i])
      BY <1>1 DEF JsonInv, SpecifiedInv
    <2>2. json[i].meta \in Maybe(MetadataBlock)
      BY <2>1, JsonTyped DEF VariableJson
    <2>3. arrays[i].attrs.meta \in Maybe(MetadataBlock)
      <3>1. from_json_to_spec(version, json, json[i]).attrs.meta = json[i].meta
        BY DEF from_json_to_spec, transform_attributes
      <3> QED
        BY <2>1, <2>2, <3>1
    <2>4. Block(arrays[i].attrs) \in MetadataBlock
      BY <2>3, EmptyBlockTyped DEF Block, Present, Maybe
    <2> QED
      BY <2>3, <2>4, <1>2 DEF AttributesThrow
  <1>4. DOMAIN doc' = DOMAIN arrays /\ DOMAIN mem' = DOMAIN arrays
    BY <1>2
  <1> QED
    BY <1>2, <1>3, <1>4

LEMMA CreateInv == JsonInv /\ Create => JsonInv'
  <1> SUFFICES ASSUME JsonInv, Create PROVE JsonInv'
    OBVIOUS
  <1>1. /\ phase = "constructed" /\ phase' \in {"throws", "refused", "open"}
        /\ phase' # "open" => UNCHANGED <<doc, mem>>
        /\ UNCHANGED <<version, json, arrays, dirty, header, out, calls, pending, committed>>
    BY DEF Create
  <1>2. mem = <<>> /\ doc = <<>> /\ dirty = {} /\ pending = {} /\ header = Absent /\ ~committed
    BY <1>1 DEF JsonInv, NothingBefore
  <1>3. ControlInv'
    BY <1>1 DEF JsonInv, ControlInv, Phases
  <1>4. NothingBefore'
    BY <1>1, <1>2 DEF NothingBefore
  <1>5. Published' /\ HeaderInv'
    BY <1>1, <1>2 DEF Published, HeaderInv
  <1>6. CASE phase' # "open"
    <2>1. VariablesInv'
      BY <1>1, <1>2, <1>6 DEF VariablesInv
    <2>2. SpecifiedInv'
      BY <1>1, <1>6 DEF SpecifiedInv
    <2> QED
      BY <2>1, <2>2, <1>3, <1>4, <1>5 DEF JsonInv
  <1>7. CASE phase' = "open"
    <2>1. \A i \in DOMAIN mem' : SoundVariable(mem'[i]) /\ SoundDoc(doc'[i])
      <3> TAKE i \in DOMAIN mem'
      <3> DEFINE attrs == arrays[i].attrs
      <3>1. /\ i \in DOMAIN arrays /\ doc'[i] = WriteVariableAttributes(attrs)
            /\ mem'[i] = InMemory(attrs.longName, attrs.coords, attrs.meta # Absent, Block(attrs))
            /\ attrs.meta \in Maybe(MetadataBlock) /\ FromJsonOk(Block(attrs))
            /\ Block(attrs) \in MetadataBlock
        BY <1>7, CreatedArrays
      <3> HIDE DEF attrs
      <3>2. SoundDoc(doc'[i])
        BY <3>1, CreatedBlock
      <3>3. SoundVariable(mem'[i])
        BY <3>1, InMemoryTyped
      <3> QED
        BY <3>2, <3>3
    <2>2. VariablesInv'
      BY <2>1, <1>1, <1>2, <1>7, CreatedArrays DEF VariablesInv
    <2>3. SpecifiedInv'
      BY <1>1, <1>7, CreatedArrays DEF SpecifiedInv
    <2> QED
      BY <2>2, <2>3, <1>3, <1>4, <1>5 DEF JsonInv
  <1> QED
    BY <1>1, <1>6, <1>7

LEMMA UpdateSound ==
    ASSUME NEW v, SoundVariable(v), NEW user \in User
    PROVE  SoundVariable([v EXCEPT !.user = user])
  <1>1. PICK longName, coords, hasMeta, grid, was :
          v = [longName |-> longName, coords |-> coords, hasMeta |-> hasMeta, grid |-> grid, user |-> was]
    BY DEF SoundVariable
  <1>2. [v EXCEPT !.user = user] =
          [longName |-> longName, coords |-> coords, hasMeta |-> hasMeta, grid |-> grid, user |-> user]
    BY <1>1
  <1>3. longName \notin {"", Null} /\ grid \in Maybe(Grid)
    BY <1>1 DEF SoundVariable
  <1> HIDE <1>1
  <1> QED
    BY <1>2, <1>3 DEF SoundVariable

LEMMA CallCounts ==
    ASSUME calls \in 0..MaxOps, Call
    PROVE  calls' \in 0..MaxOps
  BY BoundsAssumption DEF Call

LEMMA UpdateInv ==
    ASSUME JsonInv, NEW i \in DOMAIN mem, NEW isFloat \in BOOLEAN, NEW block \in UpdateBlocks,
           UpdateAttributes(i, isFloat, block)
    PROVE  JsonInv'
  <1> DEFINE user == FromJson(isFloat, block)
  <1>1. /\ phase = "open" /\ calls < MaxOps /\ calls' = calls + 1
        /\ mem' = [mem EXCEPT ![i].user = user]
        /\ dirty' = dirty \cup {i} /\ pending' = pending \cup {i}
        /\ UNCHANGED <<version, json, phase, arrays, doc, header, committed>>
    BY DEF UpdateAttributes, Call
  <1>2. user \in User
    <2>1. block \in MetadataBlock /\ FromJsonOk(block)
      BY InputsAssumption DEF UpdateAttributes
    <2> QED
      BY <2>1, FromJsonTyped
  <1> HIDE DEF user
  <1>3. VariablesInv
    BY DEF JsonInv
  <1>4. SoundVariable([mem[i] EXCEPT !.user = user])
    BY <1>2, <1>3, UpdateSound DEF VariablesInv
  <1>5. /\ DOMAIN mem' = DOMAIN mem /\ mem' = [j \in DOMAIN mem' |-> mem'[j]]
        /\ mem'[i] = [mem[i] EXCEPT !.user = user]
        /\ \A j \in DOMAIN mem : j # i => mem'[j] = mem[j]
    BY <1>1, <1>3 DEF VariablesInv
  <1>6. VariablesInv'
    <2>1. \A j \in DOMAIN mem' : SoundVariable(mem'[j]) /\ SoundDoc(doc'[j])
      BY <1>1, <1>3, <1>4, <1>5 DEF VariablesInv
    <2>2. dirty' \subseteq DOMAIN mem' /\ pending' \subseteq dirty'
      BY <1>1, <1>3, <1>5 DEF VariablesInv
    <2> QED
      BY <2>1, <2>2, <1>1, <1>3, <1>5 DEF VariablesInv
  <1>7. ControlInv'
    <2>1. calls \in 0..MaxOps /\ version \in Versions /\ phase \in Phases
      BY DEF JsonInv, ControlInv
    <2>2. calls' \in 0..MaxOps
      BY <2>1, CallCounts DEF UpdateAttributes, UpdateHeader, CommitMetadata, Reopen
    <2> QED
      BY <2>1, <2>2, <1>1 DEF ControlInv
  <1>8. NothingBefore'
    BY <1>1 DEF NothingBefore
  <1>9. Published'
    <2>1. SUFFICES ASSUME NEW j \in dirty' \ pending'
                   PROVE  Attributes(OpenVariable(doc'[j])) = Written(Attributes(mem'[j]))
      BY DEF Published
    <2>2. j \in dirty \ pending /\ j # i /\ j \in DOMAIN mem
      BY <1>1, <1>3 DEF VariablesInv
    <2>3. mem'[j] = mem[j] /\ doc'[j] = doc[j]
      BY <2>2, <1>1, <1>5
    <2>4. Attributes(OpenVariable(doc[j])) = Written(Attributes(mem[j]))
      BY <2>2 DEF JsonInv, Published
    <2> QED
      BY <2>3, <2>4
  <1>10. SpecifiedInv'
    BY <1>1 DEF JsonInv, SpecifiedInv
  <1>11. HeaderInv'
    BY <1>1 DEF JsonInv, HeaderInv
  <1> QED
    BY <1>6, <1>7, <1>8, <1>9, <1>10, <1>11 DEF JsonInv

LEMMA UpdateHeaderInv ==
    ASSUME JsonInv, NEW user, UpdateHeader(user)
    PROVE  JsonInv'
  <1>1. /\ phase = "open" /\ calls < MaxOps /\ calls' = calls + 1 /\ header # Absent
        /\ header' = [header EXCEPT !.mem.user = user, !.modified = TRUE]
        /\ UNCHANGED <<version, json, phase, arrays, doc, mem, dirty, pending, committed>>
    BY DEF UpdateHeader, Call
  <1>2. SoundHeader(version, header) /\ version \in Versions
    BY <1>1 DEF JsonInv, HeaderInv, ControlInv
  <1>3. HeaderInv'
    BY <1>1, <1>2, HeaderUpdated DEF HeaderInv
  <1>4. ControlInv'
    <2>1. calls \in 0..MaxOps /\ version \in Versions /\ phase \in Phases
      BY DEF JsonInv, ControlInv
    <2>2. calls' \in 0..MaxOps
      BY <2>1, CallCounts DEF UpdateAttributes, UpdateHeader, CommitMetadata, Reopen
    <2> QED
      BY <2>1, <2>2, <1>1 DEF ControlInv
  <1>5. NothingBefore' /\ VariablesInv' /\ Published' /\ SpecifiedInv'
    BY <1>1 DEF JsonInv, NothingBefore, VariablesInv, Published, SpecifiedInv
  <1> QED
    BY <1>3, <1>4, <1>5 DEF JsonInv

LEMMA CommitInv == JsonInv /\ CommitMetadata => JsonInv'
  <1> SUFFICES ASSUME JsonInv, CommitMetadata PROVE JsonInv'
    OBVIOUS
  <1>1. /\ phase = "open" /\ calls < MaxOps /\ calls' = calls + 1
        /\ doc' = [i \in DOMAIN doc |-> IF i \in dirty THEN PublishMetadata(version, mem[i]) ELSE doc[i]]
        /\ \/ header = Absent /\ header' = Absent
           \/ /\ header # Absent
              /\ \E s \in Committed(version, header.mem, header.modified, header.stored) :
                    header' = [header EXCEPT !.stored = s, !.saved = header.mem.user]
        /\ pending' = {} /\ committed' = TRUE
        /\ UNCHANGED <<version, json, phase, arrays, mem, dirty>>
    BY DEF CommitMetadata, Call
  <1>2. VariablesInv /\ version \in Versions
    BY DEF JsonInv, ControlInv
  <1>3. VariablesInv'
    <2>1. \A i \in DOMAIN mem : SoundDoc(doc'[i])
      <3> TAKE i \in DOMAIN mem
      <3>1. SoundDoc(PublishMetadata(version, mem[i]))
        BY <1>2, PublishedBlock DEF VariablesInv
      <3> QED
        BY <3>1, <1>1, <1>2 DEF VariablesInv
    <2> QED
      BY <2>1, <1>1, <1>2 DEF VariablesInv
  <1>4. ControlInv'
    <2>1. calls \in 0..MaxOps /\ version \in Versions /\ phase \in Phases
      BY DEF JsonInv, ControlInv
    <2>2. calls' \in 0..MaxOps
      BY <2>1, CallCounts DEF UpdateAttributes, UpdateHeader, CommitMetadata, Reopen
    <2> QED
      BY <2>1, <2>2, <1>1 DEF ControlInv
  <1>5. NothingBefore'
    BY <1>1 DEF NothingBefore
  <1>6. Published'
    <2>1. SUFFICES ASSUME NEW i \in dirty PROVE Attributes(OpenVariable(doc'[i])) = Written(Attributes(mem[i]))
      BY <1>1 DEF Published
    <2>2. i \in DOMAIN mem /\ SoundVariable(mem[i]) /\ i \in DOMAIN doc
      BY <1>2 DEF VariablesInv
    <2>3. doc'[i] = PublishMetadata(version, mem[i])
      BY <2>2, <1>1
    <2> QED
      BY <2>2, <2>3, <1>2, CommitWrites
  <1>7. SpecifiedInv'
    BY <1>1 DEF SpecifiedInv
  <1>8. HeaderInv'
    <2>1. CASE header = Absent /\ header' = Absent
      BY <2>1 DEF HeaderInv
    <2>2. CASE header # Absent
      <3>1. SoundHeader(version, header)
        BY <2>2 DEF JsonInv, HeaderInv
      <3>2. PICK s \in Committed(version, header.mem, header.modified, header.stored) :
              header' = [header EXCEPT !.stored = s, !.saved = header.mem.user]
        BY <1>1, <2>2
      <3>3. SoundHeader(version, header')
        BY <3>1, <3>2, <1>2, HeaderCommitted
      <3> QED
        BY <3>3, <1>1 DEF HeaderInv
    <2> QED
      BY <2>1, <2>2, <1>1
  <1> QED
    BY <1>3, <1>4, <1>5, <1>6, <1>7, <1>8 DEF JsonInv

LEMMA ReopenInv == JsonInv /\ Reopen => JsonInv'
  <1> SUFFICES ASSUME JsonInv, Reopen PROVE JsonInv'
    OBVIOUS
  <1>1. /\ phase = "open" /\ calls < MaxOps /\ calls' = calls + 1
        /\ \A i \in DOMAIN doc : FromJsonOk(StoredBlock(doc[i]))
        /\ mem' = [i \in DOMAIN doc |-> OpenVariable(doc[i])]
        /\ header' = IF header = Absent THEN Absent
                     ELSE [header EXCEPT !.mem = FromSpec(header.root, StoredHeader(version, header.stored)),
                                         !.modified = FALSE]
        /\ dirty' = {} /\ pending' = {}
        /\ UNCHANGED <<version, json, phase, arrays, doc, committed>>
    BY DEF Reopen, Call
  <1>2. VariablesInv /\ version \in Versions
    BY DEF JsonInv, ControlInv
  <1>3. VariablesInv'
    <2>1. \A i \in DOMAIN doc : SoundVariable(OpenVariable(doc[i]))
      BY <1>1, <1>2, OpenVariableTyped DEF VariablesInv
    <2> QED
      BY <2>1, <1>1, <1>2 DEF VariablesInv
  <1>4. ControlInv'
    <2>1. calls \in 0..MaxOps /\ version \in Versions /\ phase \in Phases
      BY DEF JsonInv, ControlInv
    <2>2. calls' \in 0..MaxOps
      BY <2>1, CallCounts DEF UpdateAttributes, UpdateHeader, CommitMetadata, Reopen
    <2> QED
      BY <2>1, <2>2, <1>1 DEF ControlInv
  <1>5. NothingBefore' /\ Published'
    BY <1>1 DEF NothingBefore, Published
  <1>6. SpecifiedInv'
    BY <1>1 DEF JsonInv, SpecifiedInv
  <1>7. HeaderInv'
    <2>1. CASE header = Absent
      BY <2>1, <1>1 DEF HeaderInv
    <2>2. CASE header # Absent
      <3>1. SoundHeader(version, header)
        BY <2>2 DEF JsonInv, HeaderInv
      <3>2. SoundHeader(version, header')
        BY <2>2, <3>1, <1>1, <1>2, HeaderReopened
      <3> QED
        BY <3>2, <1>1 DEF HeaderInv
    <2> QED
      BY <2>1, <2>2
  <1> QED
    BY <1>3, <1>4, <1>5, <1>6, <1>7 DEF JsonInv

LEMMA CopyInv == JsonInv /\ ToCreationJson => JsonInv'
  BY DEF ToCreationJson, JsonInv, ControlInv, NothingBefore, VariablesInv, Published,
         SpecifiedInv, HeaderInv

LEMMA StutterInv == JsonInv /\ UNCHANGED vars => JsonInv'
  BY DEF vars, JsonInv, ControlInv, NothingBefore, VariablesInv, Published, SpecifiedInv, HeaderInv

LEMMA NextInv == JsonInv /\ [Next]_vars => JsonInv'
  BY ConstructInv, CreateInv, UpdateInv, UpdateHeaderInv, CommitInv, ReopenInv, CopyInv,
     StutterInv DEF Next

\* The inductive invariant.
THEOREM JsonInvariant == Spec => []JsonInv
  <1>1. Init => JsonInv
    BY InitInv
  <1>2. JsonInv /\ [Next]_vars => JsonInv'
    BY NextInv
  <1> QED
    BY <1>1, <1>2, PTL DEF Spec

-----------------------------------------------------------------------------
(* What follows from it *)

LEMMA SoundUser ==
    ASSUME NEW v, SoundVariable(v)
    PROVE  UserTypeOK(v.user)
  <1>1. v.user \in User
    BY DEF SoundVariable
  <1>2. DOMAIN v.user = {"stats", "units", "attributes"} /\ v.user.stats \in Seq(Parsed)
    BY <1>1 DEF User
  <1>3. ASSUME NEW i \in DOMAIN v.user.stats
        PROVE  v.user.stats[i].whole /\ ~v.user.stats[i].text
    <2>1. v.user.stats[i] \in Parsed
      BY <1>2
    <2>2. v.user.stats[i].whole = TRUE /\ v.user.stats[i].text = FALSE
      BY <2>1 DEF Parsed
    <2> QED
      BY <2>2
  <1> QED
    BY <1>2, <1>3 DEF UserTypeOK

\* Every array has its attributes and a Variable; the statistics in hand are
\* parsed, whatever shape they were stored in.
THEOREM TypeCorrect == Spec => []TypeOK
  <1>1. JsonInv => TypeOK
    <2> SUFFICES ASSUME JsonInv PROVE TypeOK
      OBVIOUS
    <2>1. ControlInv /\ VariablesInv
      BY DEF JsonInv
    <2>2. phase = "open" => DOMAIN doc = DOMAIN arrays /\ DOMAIN mem = DOMAIN arrays
      BY <2>1 DEF VariablesInv
    <2>3. \A i \in DOMAIN mem : UserTypeOK(mem[i].user)
      BY <2>1, SoundUser DEF VariablesInv
    <2> QED
      BY <2>1, <2>2, <2>3 DEF TypeOK, ControlInv, VariablesInv
  <1> QED
    BY <1>1, JsonInvariant, PTL

\* Up to the first commit a variable can be opened with the specification it
\* was created from: what the creation stores agrees with what was supplied,
\* or is not there.
THEOREM OpensBySpecCorrect == Spec => []OpensBySpec
  <1>1. JsonInv => OpensBySpec
    <2> SUFFICES ASSUME JsonInv, phase = "open", json # <<>>, ~committed, NEW i \in DOMAIN arrays
                 PROVE  LET stored == StoredBlock(doc[i])
                            given  == Block(arrays[i].attrs)
                        IN  /\ Agrees(doc[i].longName, arrays[i].attrs.longName)
                            /\ Agrees(doc[i].coords, arrays[i].attrs.coords)
                            /\ stored.grid = Absent
                            /\ Agrees(stored.stats, given.stats) /\ Agrees(stored.units, given.units)
                            /\ Agrees(stored.attributes, given.attributes)
      BY DEF OpensBySpec
    <2> DEFINE attrs == arrays[i].attrs
    <2>1. attrs.meta \in Maybe(MetadataBlock) /\ doc[i] = WriteVariableAttributes(attrs)
      BY DEF JsonInv, SpecifiedInv
    <2> HIDE DEF attrs
    <2>2. /\ doc[i].longName = Absent \/ doc[i].longName = attrs.longName
          /\ doc[i].coords = Absent \/ doc[i].coords = attrs.coords
      <3>1. /\ doc[i].longName = IF attrs.longName = "" THEN Absent ELSE attrs.longName
            /\ doc[i].coords = IF attrs.coords = <<"">> THEN Absent ELSE attrs.coords
        BY <2>1, CreatedNames
      <3> QED
        BY <3>1
    <2>3. /\ StoredBlock(doc[i]).stats = Block(attrs).stats
          /\ StoredBlock(doc[i]).units = Block(attrs).units
          /\ StoredBlock(doc[i]).attributes = Block(attrs).attributes
          /\ StoredBlock(doc[i]).grid = Absent
      BY <2>1, CreatedBlock
    <2> QED
      BY <2>2, <2>3 DEF Agrees, attrs
  <1> QED
    BY <1>1, JsonInvariant, PTL

\* Whichever write of a commit comes last, a header variable keeps its
\* dimensions and the user's attributes.
THEOREM HeaderKeepsCorrect == Spec => []HeaderKeeps
  <1>1. JsonInv => HeaderKeeps
    <2> SUFFICES ASSUME JsonInv, header # Absent PROVE HeaderKeeps
      BY DEF HeaderKeeps
    <2> DEFINE found == StoredHeader(version, header.stored)
               read  == FromSpec(header.root, found)
    <2>1. SoundHeader(version, header)
      BY DEF JsonInv, HeaderInv
    <2>2. read.user = found.user /\ read.labels = FirstPresent(header.root, found.arrayDims, found.plainDims)
      BY DEF FromSpec, ExtractDimensionLabels
    <2>3. found.user = header.saved
      BY <2>1 DEF SoundHeader
    <2>4. ASSUME DimensionsRecorded PROVE read.labels = header.labels
      <3>1. CASE header.root # Absent
        BY <3>1, <2>1, <2>2 DEF SoundHeader, FirstPresent
      <3>2. CASE header.root = Absent
        <4>1. version = "V2" \/ header.mem.original.arrayDims # Absent
          BY <2>4, <3>2 DEF DimensionsRecorded
        <4>2. /\ LabelsIn(version, found, header.labels)
              /\ LabelsIn(version, header.mem.original, header.labels)
              /\ version # "V2" /\ header.mem.original.arrayDims # Absent =>
                   found.arrayDims = header.labels
          BY <2>1, <3>2 DEF SoundHeader
        <4> HIDE DEF found, read
        <4> QED
          BY <4>1, <4>2, <3>2, <2>2 DEF LabelsIn, FirstPresent
      <3> QED
        BY <3>1, <3>2
    <2> QED
      BY <2>2, <2>3, <2>4 DEF HeaderKeeps
  <1> QED
    BY <1>1, JsonInvariant, PTL

-----------------------------------------------------------------------------
(* Creation, commit and opening implement AttributeStore                   *)

Hand    == [i \in DOMAIN mem |-> Attributes(mem[i])]
Durable == [i \in DOMAIN doc |-> Attributes(OpenVariable(doc[i]))]

\* Before there is a dataset, and when it is opened, what is in hand is what is stored.
LEMMA StoreInit == Init => Store!Init
  <1> SUFFICES ASSUME Init PROVE Hand = Durable /\ pending = {}
    BY DEF Store!Init, Hand, Durable
  <1>1. pending = {}
    BY DEF Init
  <1>2. CASE mem = <<>> /\ doc = <<>>
    BY <1>1, <1>2 DEF Hand, Durable
  <1>3. CASE \E d \in ForeignDocs : doc = <<d>> /\ mem = <<OpenVariable(d)>>
    <2>1. PICK d \in ForeignDocs : doc = <<d>> /\ mem = <<OpenVariable(d)>>
      BY <1>3
    <2> DEFINE v == OpenVariable(d)
    <2>2. mem = <<v>>
      BY <2>1
    <2>3. DOMAIN mem = 1..1 /\ DOMAIN doc = 1..1 /\ mem[1] = v /\ doc[1] = d
      <3> HIDE DEF v
      <3> QED
        BY <2>1, <2>2
    <2>4. \A i \in DOMAIN mem : Attributes(mem[i]) = Attributes(OpenVariable(doc[i]))
      BY <2>3
    <2> QED
      BY <1>1, <2>3, <2>4 DEF Hand, Durable
  <1> QED
    BY <1>2, <1>3 DEF Init

\* What a creation hands out is what it stored.
LEMMA StoreCreate ==
    ASSUME JsonInv, Create
    PROVE  Store!Create \/ (Hand' = Hand /\ Durable' = Durable /\ pending' = pending)
  <1>1. phase = "constructed" /\ UNCHANGED <<pending>> /\ (phase' # "open" => UNCHANGED <<doc, mem>>)
    BY DEF Create
  <1>2. mem = <<>> /\ pending = {}
    BY <1>1 DEF JsonInv, NothingBefore
  <1>3. CASE phase' # "open"
    BY <1>1, <1>3 DEF Hand, Durable
  <1>4. CASE phase' = "open"
    <2>1. ASSUME NEW i \in DOMAIN arrays
          PROVE  Attributes(mem'[i]) = Attributes(OpenVariable(doc'[i]))
      <3> DEFINE attrs == arrays[i].attrs
      <3>1. /\ doc'[i] = WriteVariableAttributes(attrs)
            /\ mem'[i] = InMemory(attrs.longName, attrs.coords, attrs.meta # Absent, Block(attrs))
            /\ attrs.meta \in Maybe(MetadataBlock) /\ attrs.longName # Null
        BY <1>4, CreatedArrays
      <3> HIDE DEF attrs
      <3> QED
        BY <3>1, CreationWrites
    <2>2. DOMAIN mem' = DOMAIN arrays /\ DOMAIN doc' = DOMAIN arrays
      BY <1>4, CreatedArrays
    <2>3. Hand' = Durable'
      BY <2>1, <2>2 DEF Hand, Durable
    <2>4. Hand = <<>>
      BY <1>2 DEF Hand
    <2> QED
      BY <2>3, <2>4, <1>1, <1>2 DEF Store!Create, Hand, Durable
  <1> QED
    BY <1>3, <1>4

LEMMA StoreUpdate ==
    ASSUME JsonInv, NEW i \in DOMAIN mem, NEW isFloat, NEW block, UpdateAttributes(i, isFloat, block)
    PROVE  Store!Update(i)
  <1>1. /\ mem' = [mem EXCEPT ![i].user = FromJson(isFloat, block)]
        /\ pending' = pending \cup {i} /\ doc' = doc
    BY DEF UpdateAttributes
  <1>2. DOMAIN mem' = DOMAIN mem /\ \A j \in DOMAIN mem \ {i} : mem'[j] = mem[j]
    BY <1>1
  <1>3. DOMAIN Hand' = DOMAIN Hand /\ \A j \in DOMAIN Hand \ {i} : Hand'[j] = Hand[j]
    BY <1>2 DEF Hand
  <1>4. Durable' = Durable
    BY <1>1 DEF Durable
  <1> QED
    BY <1>1, <1>3, <1>4 DEF Store!Update, Hand, Durable

\* A commit publishes every variable that was ever updated since the opening;
\* of those not updated since the last commit it changes nothing.
LEMMA StoreCommit ==
    ASSUME JsonInv, CommitMetadata
    PROVE  Store!Commit
  <1>1. /\ doc' = [i \in DOMAIN doc |-> IF i \in dirty THEN PublishMetadata(version, mem[i]) ELSE doc[i]]
        /\ pending' = {} /\ mem' = mem
    BY DEF CommitMetadata
  <1>2. VariablesInv /\ Published /\ version \in Versions
    BY DEF JsonInv, ControlInv
  <1>3. DOMAIN doc' = DOMAIN mem /\ DOMAIN Hand = DOMAIN mem /\ DOMAIN Durable = DOMAIN mem
    BY <1>1, <1>2 DEF VariablesInv, Hand, Durable
  <1>4. ASSUME NEW i \in DOMAIN mem
        PROVE  Attributes(OpenVariable(doc'[i])) = IF i \in pending THEN Written(Hand[i]) ELSE Durable[i]
    <2>1. /\ Hand[i] = Attributes(mem[i]) /\ Durable[i] = Attributes(OpenVariable(doc[i]))
          /\ SoundVariable(mem[i]) /\ pending \subseteq dirty
          /\ doc'[i] = IF i \in dirty THEN PublishMetadata(version, mem[i]) ELSE doc[i]
      BY <1>1, <1>2 DEF VariablesInv, Hand, Durable
    <2>2. Attributes(OpenVariable(PublishMetadata(version, mem[i]))) = Written(Attributes(mem[i]))
      BY <1>2, <2>1, CommitWrites
    <2>3. i \in dirty \ pending => Attributes(OpenVariable(doc[i])) = Written(Attributes(mem[i]))
      BY <1>2 DEF Published
    <2>4. CASE i \in pending
      BY <2>1, <2>2, <2>4
    <2>5. CASE i \in dirty \ pending
      BY <2>1, <2>2, <2>3, <2>5
    <2>6. CASE i \notin dirty
      BY <2>1, <2>6
    <2> QED
      BY <2>4, <2>5, <2>6
  <1>5. Durable' = [i \in DOMAIN Hand |-> IF i \in pending THEN Written(Hand[i]) ELSE Durable[i]]
    <2>1. Durable' = [i \in DOMAIN doc' |-> Attributes(OpenVariable(doc'[i]))]
      BY DEF Durable
    <2> QED
      BY <2>1, <1>3, <1>4
  <1>6. Hand' = Hand
    BY <1>1 DEF Hand
  <1> QED
    BY <1>1, <1>5, <1>6 DEF Store!Commit, Hand, Durable

LEMMA StoreReopen ==
    ASSUME JsonInv, Reopen
    PROVE  Store!Reopen
  <1>1. mem' = [i \in DOMAIN doc |-> OpenVariable(doc[i])] /\ doc' = doc /\ pending' = {}
    BY DEF Reopen
  <1>2. Hand' = Durable
    <2>1. DOMAIN mem' = DOMAIN doc /\ \A i \in DOMAIN doc : mem'[i] = OpenVariable(doc[i])
      BY <1>1
    <2> QED
      BY <2>1 DEF Hand, Durable
  <1>3. Durable' = Durable
    BY <1>1 DEF Durable
  <1> QED
    BY <1>1, <1>2, <1>3 DEF Store!Reopen, Hand, Durable

\* Every step is one of AttributeStore's or leaves its variables alone.
LEMMA StoreNext == JsonInv /\ [Next]_vars => [Store!Next]_(Store!vars)
  <1> SUFFICES ASSUME JsonInv, [Next]_vars
               PROVE  Store!Next \/ (Hand' = Hand /\ Durable' = Durable /\ pending' = pending)
    BY DEF Store!vars, Hand, Durable
  <1>1. CASE UNCHANGED <<mem, doc, pending>>
    BY <1>1 DEF Hand, Durable
  <1>2. ConstructSpecs \/ ToCreationJson \/ (\E user \in HeaderUpdates : UpdateHeader(user)) \/ UNCHANGED vars
          => UNCHANGED <<mem, doc, pending>>
    BY DEF ConstructSpecs, ToCreationJson, UpdateHeader, vars
  <1>3. CASE Create
    BY <1>3, StoreCreate DEF Store!Next
  <1>4. ASSUME NEW i \in DOMAIN mem, NEW isFloat \in BOOLEAN, NEW block \in UpdateBlocks,
               UpdateAttributes(i, isFloat, block)
        PROVE  Store!Next
    <2>1. i \in DOMAIN Hand
      BY DEF Hand
    <2>2. Store!Update(i)
      BY <1>4, StoreUpdate
    <2> QED
      BY <2>1, <2>2 DEF Store!Next, Hand
  <1>5. CASE CommitMetadata
    BY <1>5, StoreCommit DEF Store!Next
  <1>6. CASE Reopen
    BY <1>6, StoreReopen DEF Store!Next
  <1> QED
    BY <1>1, <1>2, <1>3, <1>4, <1>5, <1>6 DEF Next

\* Whichever of the shapes the attributes are written in, they are what an
\* opening finds: creation, commit and opening implement AttributeStore.
THEOREM ImplementsAttributeStore == Spec => AttributesAreStored
  <1>1. Init => Store!Init
    BY StoreInit
  <1>2. JsonInv /\ [Next]_vars => [Store!Next]_(Store!vars)
    BY StoreNext
  <1> QED
    BY <1>1, <1>2, JsonInvariant, PTL DEF Spec, AttributesAreStored, Store!Spec

-----------------------------------------------------------------------------
(* Sizes                                                                   *)

LEMMA DeclaredSize ==
    ASSUME NEW js, NEW i \in DOMAIN js, NEW k \in DOMAIN js[i].dims.sizes
    PROVE  <<js[i].dims.names[k], js[i].dims.sizes[k]>> \in DeclaredSizes(js)
  BY DEF DeclaredSizes

\* A size that is given is the size that is found for its name.
LEMMA SizeGiven ==
    ASSUME NEW js, GetDimensionsOk(js), NEW i \in DOMAIN js, NEW k \in DOMAIN js[i].dims.sizes
    PROVE  SizeOf(js, js[i].dims.names[k]) = js[i].dims.sizes[k]
  <1> DEFINE name == js[i].dims.names[k]
             size == js[i].dims.sizes[k]
             sizes == DeclaredSizes(js)
             found == CHOOSE d \in sizes : d[1] = name
  <1>1. <<name, size>> \in sizes
    BY DeclaredSize
  <1>2. SizeOf(js, name) = IF \E d \in sizes : d[1] = name THEN found[2] ELSE 0
    BY DEF SizeOf
  <1>3. \A d, e \in sizes : d[1] = e[1] => d[2] = e[2]
    BY DEF GetDimensionsOk
  <1> HIDE DEF name, size, sizes
  <1>4. \E d \in sizes : d[1] = name
    BY <1>1
  <1>5. found \in sizes /\ found[1] = name
    BY <1>4
  <1> HIDE DEF found
  <1>6. found[2] = size
    <2> DEFINE given == <<name, size>>
    <2>1. given \in sizes /\ given[1] = name /\ given[2] = size
      BY <1>1
    <2> HIDE DEF given
    <2> QED
      BY <2>1, <1>3, <1>5
  <1> QED
    BY <1>2, <1>4, <1>6 DEF name, size

\* The dimensions have sizes, all of them or none.
Sized(dims) ==
    /\ dims.sizes \in Seq(Int) /\ Len(dims.names) \in Nat /\ DOMAIN dims.names = 1..Len(dims.names)
    /\ Len(dims.sizes) = IF dims.objects THEN Len(dims.names) ELSE 0

DimsSized(js) == \A i \in DOMAIN js : Sized(js[i].dims)

LEMMA DatasetJsonsSized ==
    ASSUME NEW js \in DatasetJsons
    PROVE  DimsSized(js)
  <1> SUFFICES ASSUME NEW i \in DOMAIN js PROVE Sized(js[i].dims)
    BY DEF DimsSized
  <1> DEFINE dims == js[i].dims
  <1>1. /\ dims.names \in Seq(STRING) /\ dims.sizes \in Seq(Int)
        /\ Len(dims.sizes) = IF dims.objects THEN Len(dims.names) ELSE 0
    BY JsonTyped DEF VariableJson
  <1> HIDE DEF dims
  <1>2. Sized(dims)
    BY <1>1 DEF Sized
  <1> QED
    BY <1>2 DEF dims

LEMMA ShapeOfSized ==
    ASSUME NEW js, DimsSized(js), GetDimensionsOk(js), NEW i \in DOMAIN js, js[i].dims.objects
    PROVE  transform_shape(js, js[i]) = js[i].dims.sizes
  <1> DEFINE dims == js[i].dims
  <1>1. /\ dims.sizes \in Seq(Int) /\ Len(dims.names) \in Nat /\ DOMAIN dims.names = 1..Len(dims.names)
        /\ Len(dims.sizes) = Len(dims.names)
    BY DEF DimsSized, Sized
  <1>2. DOMAIN dims.names = DOMAIN dims.sizes
    <2> HIDE DEF dims
    <2> QED
      BY <1>1
  <1>3. \A k \in DOMAIN dims.sizes : SizeOf(js, dims.names[k]) = dims.sizes[k]
    BY SizeGiven
  <1>4. transform_shape(js, js[i]) = [k \in DOMAIN dims.names |-> SizeOf(js, dims.names[k])]
    BY DEF transform_shape
  <1>5. dims.sizes = [k \in DOMAIN dims.sizes |-> dims.sizes[k]]
    BY <1>1
  <1> HIDE DEF dims
  <1> QED
    BY <1>2, <1>3, <1>4, <1>5 DEF dims

\* The shape of a dimension coordinate.
LEMMA ShapeOfCoordinate ==
    ASSUME NEW js, DimsSized(js), GetDimensionsOk(js), validate_dataset(js),
           NEW j \in DOMAIN js, IsDimensionCoordinate(js[j])
    PROVE  /\ SizeOf(js, js[j].name) > 0 /\ SizeOf(js, js[j].name) \in Int
           /\ transform_shape(js, js[j]) = <<SizeOf(js, js[j].name)>>
  <1> DEFINE dims == js[j].dims
             size == dims.sizes[1]
  <1>1. dims.objects /\ dims.names = <<js[j].name>>
    BY DEF IsDimensionCoordinate
  <1>2. dims.sizes \in Seq(Int) /\ Len(dims.sizes) = Len(dims.names)
    BY <1>1 DEF DimsSized, Sized
  <1>3. Len(dims.sizes) = 1 /\ 1 \in DOMAIN dims.sizes
    <2> HIDE DEF dims
    <2>1. Len(dims.names) = 1
      BY <1>1
    <2> QED
      BY <2>1, <1>2
  <1>4. size > 0 /\ size \in Int
    <2>1. NamedDimensions(dims)
      BY DEF validate_dataset, validate_schema, ValidVariable
    <2> QED
      BY <2>1, <1>1, <1>2, <1>3 DEF NamedDimensions
  <1>5. SizeOf(js, dims.names[1]) = size
    BY <1>3, SizeGiven
  <1>6. dims.names[1] = js[j].name
    BY <1>1
  <1>7. transform_shape(js, js[j]) = dims.sizes
    BY <1>1, ShapeOfSized
  <1>8. dims.sizes = <<size>>
    <2> HIDE DEF dims
    <2> QED
      BY <1>2, <1>3
  <1> HIDE DEF size, dims
  <1> QED
    BY <1>4, <1>5, <1>6, <1>7, <1>8

LEMMA CoordinateOf ==
    ASSUME NEW js, NEW name \in DimensionCoordinates(js)
    PROVE  \E j \in DOMAIN js : IsDimensionCoordinate(js[j]) /\ js[j].name = name
  BY DEF DimensionCoordinates

LEMMA DimensionHasCoordinate ==
    ASSUME NEW js, validate_dataset(js),
           \A i, j \in DOMAIN js : js[i].name = js[j].name => i = j,
           NEW i \in DOMAIN js, NEW k \in DOMAIN js[i].dims.names
    PROVE  \E j \in DOMAIN js : IsDimensionCoordinate(js[j]) /\ js[j].name = js[i].dims.names[k]
  <1>1. CASE js[i].name \in DimensionCoordinates(js)
    <2>1. PICK j \in DOMAIN js : IsDimensionCoordinate(js[j]) /\ js[j].name = js[i].name
      BY <1>1, CoordinateOf
    <2>2. j = i
      BY <2>1
    <2>3. js[i].dims.names = <<js[i].name>>
      BY <2>1, <2>2 DEF IsDimensionCoordinate
    <2>4. js[i].dims.names[k] = js[i].name
      BY <2>3
    <2> QED
      BY <2>1, <2>4
  <1>2. CASE js[i].name \notin DimensionCoordinates(js)
    <2>1. DimensionsKnown(js, js[i])
      BY <1>2 DEF validate_dataset, validate_coordinates_present
    <2>2. js[i].dims.names[k] \in DimensionCoordinates(js)
      BY <2>1 DEF DimensionsKnown, Range
    <2> QED
      BY <2>2, CoordinateOf
  <1> QED
    BY <1>1, <1>2

\* Every dimension of every array has the size of the dimension coordinate of
\* that name, and the size the JSON gives it, for any number of variables.
THEOREM ShapesDeclaredCorrect == Spec => []ShapesDeclared
  <1>1. JsonInv => ShapesDeclared
    <2> SUFFICES ASSUME JsonInv, phase = "constructed", NamesDiffer, NEW i \in DOMAIN arrays
                 PROVE  /\ json[i].dims.objects => arrays[i].shape = json[i].dims.sizes
                        /\ \A k \in DOMAIN arrays[i].shape :
                             /\ arrays[i].shape[k] > 0
                             /\ \E j \in DOMAIN arrays :
                                   /\ arrays[j].name = json[i].dims.names[k]
                                   /\ arrays[j].shape = <<arrays[i].shape[k]>>
      BY DEF ShapesDeclared
    <2>1. /\ json \in DatasetJsons /\ validate_dataset(json) /\ GetDimensionsOk(json)
          /\ arrays = [j \in DOMAIN json |-> from_json_to_spec(version, json, json[j])]
          /\ DimsSized(json)
      BY DatasetJsonsSized DEF JsonInv, SpecifiedInv
    <2>2. DOMAIN arrays = DOMAIN json
      BY <2>1
    <2>3. ASSUME NEW j \in DOMAIN arrays
          PROVE  arrays[j].shape = transform_shape(json, json[j]) /\ arrays[j].name = json[j].name
      <3>1. arrays[j] = from_json_to_spec(version, json, json[j])
        BY <2>1
      <3> QED
        BY <3>1 DEF from_json_to_spec
    <2>4. json[i].dims.objects => arrays[i].shape = json[i].dims.sizes
      BY <2>1, <2>2, <2>3, ShapeOfSized
    <2>5. ASSUME NEW k \in DOMAIN arrays[i].shape
          PROVE  /\ arrays[i].shape[k] > 0
                 /\ \E j \in DOMAIN arrays :
                      /\ arrays[j].name = json[i].dims.names[k]
                      /\ arrays[j].shape = <<arrays[i].shape[k]>>
      <3>1. k \in DOMAIN json[i].dims.names /\ arrays[i].shape[k] = SizeOf(json, json[i].dims.names[k])
        BY <2>3 DEF transform_shape
      <3>2. PICK j \in DOMAIN json : IsDimensionCoordinate(json[j]) /\ json[j].name = json[i].dims.names[k]
        BY <2>1, <2>2, <3>1, DimensionHasCoordinate DEF NamesDiffer
      <3>3. /\ SizeOf(json, json[j].name) > 0
            /\ transform_shape(json, json[j]) = <<SizeOf(json, json[j].name)>>
        BY <2>1, <3>2, ShapeOfCoordinate
      <3> QED
        BY <2>2, <2>3, <3>1, <3>2, <3>3
    <2> QED
      BY <2>4, <2>5
  <1> QED
    BY <1>1, JsonInvariant, PTL

-----------------------------------------------------------------------------
(* The two formats                                                         *)

LEMMA NormalizedAgain ==
    ASSUME NEW c \in Maybe(Compressor)
    PROVE  normalize_legacy_blosc(normalize_legacy_blosc(c)) = normalize_legacy_blosc(c)
  <1> DEFINE n == normalize_legacy_blosc(c)
  <1>1. CASE ~Present(c) \/ c.name \notin {Absent, "blosc"}
    <2>1. n = c
      BY <1>1 DEF normalize_legacy_blosc
    <2> HIDE DEF n
    <2> QED
      BY <2>1 DEF n
  <1>2. CASE Present(c) /\ c.name \in {Absent, "blosc"}
    <2> DEFINE shuffle == IF Present(c.shuffle) THEN [c.shuffle EXCEPT !.legacy = FALSE] ELSE c.shuffle
    <2>1. c \in Compressor
      BY <1>2 DEF Maybe, Present
    <2>2. n = [name |-> c.name, cname |-> Or(c.cname, c.algorithm), algorithm |-> Absent,
               clevel |-> Or(c.clevel, c.level), level |-> Absent,
               shuffle |-> shuffle, blocksize |-> c.blocksize, mode |-> c.mode]
      BY <2>1, <1>2, CompressorKeys, NormalizedFields
    <2>3. n \in Maybe(Compressor)
      BY NormalizedTyped
    <2>4. CASE ~Present(n)
      <3> HIDE DEF n
      <3>1. normalize_legacy_blosc(n) = n
        BY <2>4 DEF normalize_legacy_blosc
      <3> QED
        BY <3>1 DEF n
    <2>5. CASE Present(n)
      <3> HIDE DEF n, shuffle
      <3>1. n \in Compressor /\ n.name \in {Absent, "blosc"}
        BY <2>2, <2>3, <2>5, <1>2 DEF Maybe, Present
      <3>2. (IF Present(n.shuffle) THEN [n.shuffle EXCEPT !.legacy = FALSE] ELSE n.shuffle) = shuffle
        <4>1. n.shuffle = shuffle
          BY <2>2
        <4>2. CASE Present(c.shuffle)
          <5>1. c.shuffle \in [legacy : BOOLEAN, mode : 0..2]
            BY <2>1, <4>2 DEF Compressor, Shuffle, Maybe, Present
          <5>2. [shuffle EXCEPT !.legacy = FALSE] = shuffle
            BY <4>2, <5>1 DEF shuffle
          <5> QED
            BY <4>1, <5>2
        <4>3. CASE ~Present(c.shuffle)
          BY <4>1, <4>3 DEF shuffle
        <4> QED
          BY <4>2, <4>3
      <3>3. normalize_legacy_blosc(n) =
              [name |-> n.name, cname |-> Or(n.cname, n.algorithm), algorithm |-> Absent,
               clevel |-> Or(n.clevel, n.level), level |-> Absent,
               shuffle |-> IF Present(n.shuffle) THEN [n.shuffle EXCEPT !.legacy = FALSE] ELSE n.shuffle,
               blocksize |-> n.blocksize, mode |-> n.mode]
        BY <3>1, <2>5, CompressorKeys, NormalizedFields
      <3>4. /\ Or(n.cname, n.algorithm) = n.cname /\ n.algorithm = Absent
            /\ Or(n.clevel, n.level) = n.clevel /\ n.level = Absent
        BY <2>2 DEF Or
      <3>5. normalize_legacy_blosc(n) =
              [name |-> n.name, cname |-> n.cname, algorithm |-> n.algorithm,
               clevel |-> n.clevel, level |-> n.level,
               shuffle |-> shuffle, blocksize |-> n.blocksize, mode |-> n.mode]
        BY <3>2, <3>3, <3>4
      <3>6. n.shuffle = shuffle
        BY <2>2
      <3>7. normalize_legacy_blosc(n) = n
        BY <3>5, <2>2
      <3> QED
        BY <3>7 DEF n
    <2> QED
      BY <2>4, <2>5
  <1> QED
    BY <1>1, <1>2

\* A JSON that was changed in place by one construction is not changed again.
LEMMA NormalizedJsonAgain ==
    ASSUME NEW js \in DatasetJsons
    PROVE  normalize_legacy_compressors(normalize_legacy_compressors(js)) =
             normalize_legacy_compressors(js)
  <1> DEFINE n == normalize_legacy_compressors(js)
  <1>1. n = [i \in DOMAIN js |-> NormalizedVariable(js[i])] /\ DOMAIN n = DOMAIN js /\ n \in DatasetJsons
    BY NormalizedJson
  <1>2. normalize_legacy_compressors(n) = [i \in DOMAIN n |-> NormalizedVariable(n[i])]
    BY <1>1, NormalizedJson
  <1>3. ASSUME NEW i \in DOMAIN js
        PROVE  NormalizedVariable(n[i]) = n[i]
    <2> DEFINE v == js[i]
               w == NormalizedVariable(v)
    <2>1. v \in VariableJson /\ n[i] = w
      BY <1>1, JsonTyped
    <2>2. w \in VariableJson /\ w.compressor = normalize_legacy_blosc(v.compressor)
      BY <2>1, NormalizedVariableTyped
    <2>3. normalize_legacy_blosc(w.compressor) = w.compressor
      BY <2>1, <2>2, NormalizedAgain DEF VariableJson
    <2> HIDE DEF w
    <2>4. [w EXCEPT !.compressor = w.compressor] = w
      BY <2>2 DEF VariableJson
    <2> QED
      BY <2>1, <2>3, <2>4 DEF NormalizedVariable
  <1> HIDE DEF n
  <1>4. normalize_legacy_compressors(n) = n
    BY <1>1, <1>2, <1>3
  <1> QED
    BY <1>4 DEF n

LEMMA V2CodeKnown ==
    ASSUME NEW f \in Supported
    PROVE  FromZarrV2Dtype(Stored(V2Code[f])) = f
  <1> DEFINE code == Stored(V2Code[f])
             Has(g) == code \in {V2Code[g], Stored(V2Code[g])}
  <1>1. f \in {"int8", "int16", "int32", "int64", "uint8", "uint16", "uint32", "uint64",
               "float16", "float32", "float64", "bool", "complex64", "complex128"}
    BY DEF Supported, V2Code
  <1>2. \A g \in Supported : Has(g) => g = f
    BY <1>1 DEF Supported, V2Code, Stored
  <1>3. Has(f)
    OBVIOUS
  <1>4. FromZarrV2Dtype(code) = CHOOSE g \in Supported : Has(g)
    BY DEF FromZarrV2Dtype
  <1> HIDE DEF Has
  <1> QED
    BY <1>2, <1>3, <1>4

\* What is known of a variable that has a specification.
LEMMA Specified ==
    ASSUME NEW js, SpecsOutcome(js) = "ok", NEW i \in DOMAIN js
    PROVE  Range(js[i].type.formats) \subseteq Supported /\ CompressorOk(js[i].compressor)
           /\ ~ChunksThrow(js[i]) /\ ~CoordinatesThrow(js[i])
  <1> DEFINE bad == {j \in DOMAIN js : SpecRefused(js[j]) \/ SpecThrows(js[j])}
  <1>1. bad = {}
    BY DEF SpecsOutcome
  <1>2. ~SpecRefused(js[i]) /\ ~SpecThrows(js[i])
    BY <1>1
  <1> QED
    BY <1>2 DEF SpecRefused, SpecThrows

\* A format is the data type that is read back from its code.
LEMMA FormatsReadBack ==
    ASSUME NEW js, NEW v, Range(v.type.formats) \subseteq Supported, NEW ver \in Versions
    PROVE  DataTypeFromSpec(ver, from_json_to_spec(ver, js, v)) =
             [fields |-> v.type.fields, formats |-> [f \in DOMAIN v.type.formats |-> v.type.formats[f]]]
  <1> DEFINE formats == v.type.formats
             codes == [f \in DOMAIN formats |-> ToZarrDtype(ver, formats[f])]
             array == from_json_to_spec(ver, js, v)
             read == [f \in DOMAIN array.codes |->
                        IF ver = "V2" THEN FromZarrV2Dtype(Stored(array.codes[f])) ELSE array.codes[f]]
  <1>1. array.fields = v.type.fields /\ array.codes = codes
    BY DEF from_json_to_spec
  <1>2. DataTypeFromSpec(ver, array) = [fields |-> array.fields, formats |-> read]
    BY DEF DataTypeFromSpec
  <1> HIDE DEF array
  <1>3. ASSUME NEW f \in DOMAIN formats
        PROVE  (IF ver = "V2" THEN FromZarrV2Dtype(Stored(codes[f])) ELSE codes[f]) = formats[f]
    <2>1. formats[f] \in Supported
      BY DEF Range
    <2>2. codes[f] = ToZarrDtype(ver, formats[f])
      OBVIOUS
    <2> HIDE DEF codes
    <2> QED
      BY <2>1, <2>2, V2CodeKnown DEF ToZarrDtype
  <1>4. DOMAIN codes = DOMAIN formats
    OBVIOUS
  <1> HIDE DEF codes
  <1>5. read = [f \in DOMAIN formats |-> formats[f]]
    BY <1>1, <1>3, <1>4
  <1> HIDE DEF read
  <1> QED
    BY <1>1, <1>2, <1>5 DEF array

\* The configuration of Blosc, with its defaults.
LEMMA CodecTyped ==
    ASSUME NEW c \in Maybe(Compressor), ValidCompressor(c), CompressorOk(c), c # Absent, NEW ver
    PROVE  /\ c \in Compressor
           /\ transform_compressor(ver, c) \in Codec
           /\ transform_compressor(ver, c) =
                [cname |-> Or(c.cname, "lz4"), clevel |-> Or(c.clevel, 5),
                 shuffle |-> [legacy |-> ver = "V2", mode |-> IF Present(c.shuffle) THEN c.shuffle.mode ELSE 1],
                 blocksize |-> Or(c.blocksize, 0)]
  <1>1. c \in Compressor
    BY DEF Maybe, CompressorOk
  <1>2. /\ c.cname \in BloscCname \cup {Absent}
        /\ c.clevel = Absent \/ c.clevel \in 0..9
    <2>1. CASE Blosc(c)
      BY <2>1 DEF Blosc
    <2>2. CASE ZFP(c)
      <3> DEFINE bare == [c EXCEPT !.name = Absent, !.mode = Absent]
      <3>1. bare = NoKeys
        BY <2>2 DEF ZFP
      <3>2. bare.cname = c.cname /\ bare.clevel = c.clevel
        BY <1>1 DEF Compressor
      <3>3. NoKeys.cname = Absent /\ NoKeys.clevel = Absent
        BY DEF NoKeys
      <3> HIDE DEF bare
      <3> QED
        BY <3>1, <3>2, <3>3
    <2>3. Blosc(c) \/ ZFP(c)
      BY DEF ValidCompressor, CompressorOk
    <2> QED
      BY <2>1, <2>2, <2>3
  <1>3. Or(c.cname, "lz4") \in BloscCname /\ Or(c.clevel, 5) \in 0..9
    BY <1>2 DEF Or, BloscCname
  <1>4. (IF Present(c.shuffle) THEN c.shuffle.mode ELSE 1) \in 0..2
    <2>1. CASE Present(c.shuffle)
      <3>1. c.shuffle \in Shuffle
        BY <1>1, <2>1 DEF Compressor, Maybe, Present
      <3> QED
        BY <2>1, <3>1 DEF Shuffle
    <2>2. CASE ~Present(c.shuffle)
      BY <2>2
    <2> QED
      BY <2>1, <2>2
  <1>5. Or(c.blocksize, 0) \in Maybe(Int)
    BY <1>1 DEF Compressor, Or, Maybe
  <1> DEFINE cname == Or(c.cname, "lz4")
             clevel == Or(c.clevel, 5)
             mode == IF Present(c.shuffle) THEN c.shuffle.mode ELSE 1
             blocksize == Or(c.blocksize, 0)
             codec == [cname |-> cname, clevel |-> clevel,
                       shuffle |-> [legacy |-> ver = "V2", mode |-> mode], blocksize |-> blocksize]
  <1>6. transform_compressor(ver, c) = codec
    BY DEF transform_compressor
  <1>7. codec \in Codec
    <2>1. cname \in BloscCname /\ clevel \in 0..9 /\ mode \in 0..2 /\ blocksize \in Maybe(Int)
      BY <1>3, <1>4, <1>5
    <2>2. (ver = "V2") \in BOOLEAN
      OBVIOUS
    <2> HIDE DEF cname, clevel, mode, blocksize
    <2> QED
      BY <2>1, <2>2 DEF Codec, Shuffle
  <1> QED
    BY <1>1, <1>6, <1>7

\* The compressor that is read back has the defaults, and the shuffle as the schema writes it.
LEMMA CompressorReadBack ==
    ASSUME NEW c \in Maybe(Compressor), ValidCompressor(c), CompressorOk(c), c # Absent, NEW ver
    PROVE  CompressorFromSpec(transform_compressor(ver, c)) =
             [NoKeys EXCEPT !.name = "blosc", !.cname = Or(c.cname, "lz4"), !.clevel = Or(c.clevel, 5),
                            !.shuffle = [legacy |-> FALSE,
                                         mode |-> IF Present(c.shuffle) THEN c.shuffle.mode ELSE 1],
                            !.blocksize = Or(c.blocksize, 0)]
  <1> DEFINE codec == transform_compressor(ver, c)
             mode == IF Present(c.shuffle) THEN c.shuffle.mode ELSE 1
             cname == Or(c.cname, "lz4")
             clevel == Or(c.clevel, 5)
             blocksize == Or(c.blocksize, 0)
  <1>1. codec # Absent
    BY CodecTyped, CodecAssumption
  <1>2. codec = [cname |-> cname, clevel |-> clevel,
                 shuffle |-> [legacy |-> ver = "V2", mode |-> mode], blocksize |-> blocksize]
    BY CodecTyped
  <1> HIDE DEF codec, mode, cname, clevel, blocksize
  <1>3. /\ codec.cname = cname /\ codec.clevel = clevel /\ codec.blocksize = blocksize
        /\ codec.shuffle = [legacy |-> ver = "V2", mode |-> mode]
    BY <1>2
  <1>4. [codec.shuffle EXCEPT !.legacy = FALSE] = [legacy |-> FALSE, mode |-> mode]
    <2> DEFINE legacy == ver = "V2"
    <2>1. codec.shuffle = [legacy |-> legacy, mode |-> mode]
      BY <1>3
    <2>2. \A new : [codec.shuffle EXCEPT !.legacy = new] = [legacy |-> new, mode |-> mode]
      <3> HIDE DEF legacy
      <3> QED
        BY <2>1
    <2> QED
      BY <2>2
  <1>5. CompressorFromSpec(codec) = BloscCompressorFromConfig(codec)
    BY <1>1 DEF CompressorFromSpec
  <1>6. @ = [NoKeys EXCEPT !.name = "blosc", !.cname = cname, !.clevel = clevel,
                           !.shuffle = [legacy |-> FALSE, mode |-> mode], !.blocksize = blocksize]
    BY <1>3, <1>4 DEF BloscCompressorFromConfig
  <1> QED
    BY <1>5, <1>6 DEF codec, mode, cname, clevel, blocksize

\* What the two formats make of one variable is the same array.
LEMMA VersionsAgreeOn ==
    ASSUME NEW js \in DatasetJsons, validate_dataset(js), SpecsOutcome(js) = "ok", NEW i \in DOMAIN js
    PROVE  LET two   == from_json_to_spec("V2", js, js[i])
               three == from_json_to_spec("V3", js, js[i])
           IN  /\ DataTypeFromSpec("V2", two) = DataTypeFromSpec("V3", three)
               /\ CompressorFromSpec(two.codec) = CompressorFromSpec(three.codec)
               /\ two.shape = three.shape
               /\ two.attrs = three.attrs
  <1> DEFINE v == js[i]
             two == from_json_to_spec("V2", js, v)
             three == from_json_to_spec("V3", js, v)
             c == v.compressor
  <1>1. Range(v.type.formats) \subseteq Supported /\ CompressorOk(c)
    BY Specified
  <1>2. c \in Maybe(Compressor) /\ ValidCompressor(c)
    BY JsonTyped DEF VariableJson, validate_dataset, validate_schema, ValidVariable
  <1>3. DataTypeFromSpec("V2", two) = DataTypeFromSpec("V3", three)
    BY <1>1, FormatsReadBack DEF Versions
  <1>4. /\ two.codec = transform_compressor("V2", c) /\ three.codec = transform_compressor("V3", c)
        /\ two.shape = three.shape /\ two.attrs = three.attrs
    BY DEF from_json_to_spec
  <1>5. CompressorFromSpec(transform_compressor("V2", c)) = CompressorFromSpec(transform_compressor("V3", c))
    <2>1. CASE c = Absent
      BY <2>1 DEF transform_compressor
    <2>2. CASE c # Absent
      BY <2>2, <1>1, <1>2, CompressorReadBack
    <2> QED
      BY <2>1, <2>2
  <1> HIDE DEF v, two, three, c
  <1> QED
    BY <1>3, <1>4, <1>5 DEF v, two, three, c

\* The two formats take the same JSONs and mean the same arrays by them, and a
\* JSON already changed by one construction means what it meant before.
THEOREM VersionsAgreeCorrect == Spec => []VersionsAgree
  <1>1. JsonInv => VersionsAgree
    <2> DEFINE two   == Construct("V2", json)
               three == Construct("V3", two.json)
               n     == normalize_legacy_compressors(json)
    <2> SUFFICES ASSUME JsonInv, phase = "json"
                 PROVE  /\ three.outcome = two.outcome /\ three.json = two.json
                        /\ \A i \in DOMAIN two.specs :
                              /\ DataTypeFromSpec("V2", two.specs[i]) = DataTypeFromSpec("V3", three.specs[i])
                              /\ CompressorFromSpec(two.specs[i].codec) =
                                   CompressorFromSpec(three.specs[i].codec)
                              /\ two.specs[i].shape = three.specs[i].shape
                              /\ two.specs[i].attrs = three.specs[i].attrs
      BY DEF VersionsAgree
    <2>1. json \in DatasetJsons
      BY DEF JsonInv, SpecifiedInv
    <2>2. n \in DatasetJsons /\ normalize_legacy_compressors(n) = n
      BY <2>1, NormalizedJson, NormalizedJsonAgain
    <2>3. two.json = n
      BY <2>1, Constructed
    <2>4. three.json = n
      BY <2>2, <2>3, Constructed
    <2>5. three.outcome = two.outcome
      <3>1. \A ver \in Versions : \A js :
              Construct(ver, js).outcome =
                LET m == normalize_legacy_compressors(js) IN
                IF validate_dataset(m) /\ GetDimensionsOk(m) THEN SpecsOutcome(m) ELSE "error"
        BY DEF Construct
      <3>2. three = Construct("V3", n)
        BY <2>3
      <3> HIDE DEF two, three, n
      <3> QED
        BY <3>1, <3>2, <2>2 DEF two, n, Versions
    <2>6. ASSUME two.outcome = "ok"
          PROVE  /\ validate_dataset(n) /\ SpecsOutcome(n) = "ok"
                 /\ two.specs = [i \in DOMAIN n |-> from_json_to_spec("V2", n, n[i])]
      BY <2>1, <2>3, <2>6, Constructed
    <2>7. ASSUME two.outcome = "ok"
          PROVE  three.specs = [i \in DOMAIN n |-> from_json_to_spec("V3", n, n[i])]
      BY <2>2, <2>3, <2>4, <2>5, <2>7, Constructed
    <2>8. two.outcome # "ok" => two.specs = <<>>
      BY <2>1, Constructed
    <2> HIDE DEF two, three, n
    <2>9. ASSUME NEW i \in DOMAIN two.specs
          PROVE  /\ DataTypeFromSpec("V2", two.specs[i]) = DataTypeFromSpec("V3", three.specs[i])
                 /\ CompressorFromSpec(two.specs[i].codec) = CompressorFromSpec(three.specs[i].codec)
                 /\ two.specs[i].shape = three.specs[i].shape
                 /\ two.specs[i].attrs = three.specs[i].attrs
      <3>1. two.outcome = "ok"
        BY <2>8, <2>9
      <3>2. /\ i \in DOMAIN n
            /\ two.specs[i] = from_json_to_spec("V2", n, n[i])
            /\ three.specs[i] = from_json_to_spec("V3", n, n[i])
        BY <3>1, <2>6, <2>7, <2>9
      <3> QED
        BY <3>1, <3>2, <2>2, <2>6, VersionsAgreeOn
    <2> QED
      BY <2>3, <2>4, <2>5, <2>9
  <1> QED
    BY <1>1, JsonInvariant, PTL

-----------------------------------------------------------------------------
(* The copy of an array through its entry in the JSON                      *)

\* A variable that has a specification.
Describable(v) ==
    /\ Sized(v.dims)
    /\ v.type = [fields |-> v.type.fields,
                 formats |-> [f \in DOMAIN v.type.formats |-> v.type.formats[f]]]
    /\ Range(v.type.formats) \subseteq Supported
    /\ v.compressor \in Maybe(Compressor) /\ ValidCompressor(v.compressor) /\ CompressorOk(v.compressor)
    /\ v.meta \in Maybe(MetadataBlock) /\ ~ChunksThrow(v)

\* The arrays are those of a JSON whose variables have names of their own.
Described(ver, js, specs) ==
    /\ GetDimensionsOk(js)
    /\ \A i \in DOMAIN js : Describable(js[i])
    /\ \A i, j \in DOMAIN js : js[i].name = js[j].name => i = j
    /\ specs = [i \in DOMAIN js |-> from_json_to_spec(ver, js, js[i])]

LEMMA SizeOfTyped ==
    ASSUME NEW js, DimsSized(js), GetDimensionsOk(js), NEW name
    PROVE  SizeOf(js, name) \in Int /\ SizeOf(js, name) <= MaxSize
  <1> DEFINE sizes == DeclaredSizes(js)
             found == CHOOSE d \in sizes : d[1] = name
  <1>1. SizeOf(js, name) = IF \E d \in sizes : d[1] = name THEN found[2] ELSE 0
    BY DEF SizeOf
  <1>2. \A d \in sizes : d[2] <= MaxSize
    BY DEF GetDimensionsOk
  <1>3. \A d \in sizes : d[2] \in Int
    <2> TAKE d \in sizes
    <2>1. PICK i \in DOMAIN js : \E k \in DOMAIN js[i].dims.sizes :
            d = <<js[i].dims.names[k], js[i].dims.sizes[k]>>
      BY DEF DeclaredSizes
    <2>2. PICK k \in DOMAIN js[i].dims.sizes : d = <<js[i].dims.names[k], js[i].dims.sizes[k]>>
      BY <2>1
    <2>3. js[i].dims.sizes \in Seq(Int)
      BY DEF DimsSized, Sized
    <2> QED
      BY <2>2, <2>3
  <1> HIDE DEF sizes
  <1>4. CASE \E d \in sizes : d[1] = name
    <2>1. found \in sizes
      BY <1>4
    <2> HIDE DEF found
    <2> QED
      BY <2>1, <1>1, <1>2, <1>3, <1>4
  <1>5. CASE ~\E d \in sizes : d[1] = name
    BY <1>1, <1>5, BoundsAssumption
  <1> QED
    BY <1>4, <1>5

\* Reading a compressor back and writing it again changes nothing.
LEMMA CompressorCopied ==
    ASSUME NEW c \in Maybe(Compressor), ValidCompressor(c), CompressorOk(c), NEW ver
    PROVE  LET read == CompressorFromSpec(transform_compressor(ver, c)) IN
           /\ CompressorOk(read)
           /\ normalize_legacy_blosc(read) = read
           /\ \A other : transform_compressor(other, read) = transform_compressor(other, c)
  <1> DEFINE read == CompressorFromSpec(transform_compressor(ver, c))
             mode == IF Present(c.shuffle) THEN c.shuffle.mode ELSE 1
             cname == Or(c.cname, "lz4")
             clevel == Or(c.clevel, 5)
             blocksize == Or(c.blocksize, 0)
             shuffle == [legacy |-> FALSE, mode |-> mode]
  <1>1. CASE c = Absent
    <2>1. transform_compressor(ver, c) = Absent
      BY <1>1 DEF transform_compressor
    <2>2. read = Absent
      BY <2>1 DEF CompressorFromSpec
    <2> HIDE DEF read
    <2> QED
      BY <1>1, <2>2 DEF CompressorOk, normalize_legacy_blosc, Present, read
  <1>2. CASE c # Absent
    <2>1. read = [NoKeys EXCEPT !.name = "blosc", !.cname = cname, !.clevel = clevel,
                                !.shuffle = shuffle, !.blocksize = blocksize]
      BY <1>2, CompressorReadBack
    <2>2. mode \in 0..2 /\ cname \in BloscCname /\ clevel \in 0..9 /\ blocksize \in Maybe(Int)
      <3>1. transform_compressor(ver, c) \in Codec
        BY <1>2, CodecTyped
      <3>2. /\ transform_compressor(ver, c).cname = cname /\ transform_compressor(ver, c).clevel = clevel
            /\ transform_compressor(ver, c).blocksize = blocksize
            /\ transform_compressor(ver, c).shuffle.mode = mode
        BY <1>2, CodecTyped
      <3> HIDE DEF mode, cname, clevel, blocksize
      <3> QED
        BY <3>1, <3>2 DEF Codec, Shuffle
    <2>3. shuffle \in Shuffle
      BY <2>2 DEF Shuffle
    <2> HIDE DEF read, mode, cname, clevel, blocksize, shuffle
    <2>4. read = [name |-> "blosc", cname |-> cname, algorithm |-> Absent, clevel |-> clevel,
                  level |-> Absent, shuffle |-> shuffle, blocksize |-> blocksize, mode |-> Absent]
      BY <2>1 DEF NoKeys
    <2>5. read \in BloscCompressor
      BY <2>2, <2>3, <2>4 DEF BloscCompressor
    <2>6. Present(read) /\ Present(shuffle) /\ read.name = "blosc"
      BY <2>3, <2>4, <2>5, CodecAssumption DEF Present
    <2>7. CompressorOk(read)
      BY <2>6 DEF CompressorOk, Present
    <2>8. normalize_legacy_blosc(read) = read
      <3>1. /\ DOMAIN read = {"name", "cname", "algorithm", "clevel", "level", "shuffle", "blocksize", "mode"}
            /\ read = [key \in DOMAIN read |-> read[key]]
        BY <2>4
      <3>2. normalize_legacy_blosc(read) =
              [name |-> read.name, cname |-> Or(read.cname, read.algorithm), algorithm |-> Absent,
               clevel |-> Or(read.clevel, read.level), level |-> Absent,
               shuffle |-> IF Present(read.shuffle) THEN [read.shuffle EXCEPT !.legacy = FALSE]
                                                    ELSE read.shuffle,
               blocksize |-> read.blocksize, mode |-> read.mode]
        BY <3>1, <2>6, NormalizedFields
      <3>3. /\ read.name = "blosc" /\ read.cname = cname /\ read.algorithm = Absent
            /\ read.clevel = clevel /\ read.level = Absent /\ read.shuffle = shuffle
            /\ read.blocksize = blocksize /\ read.mode = Absent
        BY <2>4
      <3>4. Or(cname, Absent) = cname /\ Or(clevel, Absent) = clevel
        BY DEF Or
      <3>5. (IF Present(shuffle) THEN [shuffle EXCEPT !.legacy = FALSE] ELSE shuffle) = shuffle
        <4>1. \A f : [[legacy |-> f, mode |-> mode] EXCEPT !.legacy = f] = [legacy |-> f, mode |-> mode]
          OBVIOUS
        <4>2. [shuffle EXCEPT !.legacy = FALSE] = shuffle
          BY <4>1 DEF shuffle
        <4> QED
          BY <4>2
      <3>6. normalize_legacy_blosc(read) =
              [name |-> "blosc", cname |-> cname, algorithm |-> Absent, clevel |-> clevel,
               level |-> Absent, shuffle |-> shuffle, blocksize |-> blocksize, mode |-> Absent]
        BY <3>2, <3>3, <3>4, <3>5
      <3> QED
        BY <3>6, <2>4
    <2>9. ASSUME NEW other
          PROVE  transform_compressor(other, read) = transform_compressor(other, c)
      <3>1. transform_compressor(other, read) =
              [cname |-> Or(read.cname, "lz4"), clevel |-> Or(read.clevel, 5),
               shuffle |-> [legacy |-> other = "V2",
                            mode |-> IF Present(read.shuffle) THEN read.shuffle.mode ELSE 1],
               blocksize |-> Or(read.blocksize, 0)]
        BY <2>6 DEF transform_compressor, Present
      <3>2. transform_compressor(other, c) =
              [cname |-> cname, clevel |-> clevel,
               shuffle |-> [legacy |-> other = "V2", mode |-> mode], blocksize |-> blocksize]
        BY <1>2 DEF transform_compressor, cname, clevel, mode, blocksize
      <3>3. Or(cname, "lz4") = cname /\ Or(clevel, 5) = clevel /\ Or(blocksize, 0) = blocksize
        BY DEF Or, cname, clevel, blocksize
      <3>4. read.cname = cname /\ read.clevel = clevel /\ read.blocksize = blocksize /\ read.shuffle = shuffle
        BY <2>4
      <3>5. (IF Present(shuffle) THEN shuffle.mode ELSE 1) = mode
        BY <2>6 DEF shuffle
      <3> QED
        BY <3>1, <3>2, <3>3, <3>4, <3>5
    <2> QED
      BY <2>7, <2>8, <2>9 DEF read
  <1> QED
    BY <1>1, <1>2

\* The entry of the array made of v.
Copied(ver, js, v, longName, coords, block) ==
    VariableToCreationJson(ver, from_json_to_spec(ver, js, v), longName, coords, block)

LEMMA ShapeTyped ==
    ASSUME NEW js, DimsSized(js), GetDimensionsOk(js), NEW v, Sized(v.dims)
    PROVE  /\ transform_shape(js, v) \in Seq(Int)
           /\ Len(transform_shape(js, v)) = Len(v.dims.names)
           /\ DOMAIN transform_shape(js, v) = DOMAIN v.dims.names
           /\ \A k \in DOMAIN v.dims.names : transform_shape(js, v)[k] = SizeOf(js, v.dims.names[k])
  <1> DEFINE names == v.dims.names
             shape == [k \in DOMAIN names |-> SizeOf(js, names[k])]
  <1>1. transform_shape(js, v) = shape
    BY DEF transform_shape
  <1>2. DOMAIN names = 1..Len(names) /\ Len(names) \in Nat
    BY DEF Sized
  <1>3. \A k \in DOMAIN names : SizeOf(js, names[k]) \in Int
    BY SizeOfTyped
  <1> HIDE DEF names
  <1>4. shape \in Seq(Int) /\ Len(shape) = Len(names)
    BY <1>2, <1>3
  <1> QED
    BY <1>1, <1>4 DEF names

LEMMA ChunksTyped ==
    ASSUME NEW js, DimsSized(js), GetDimensionsOk(js), NEW v, Describable(v)
    PROVE  transform_chunks(js, v) \in Seq(Int)
  <1>1. CASE HasGrid(v)
    <2>1. v.meta \in MetadataBlock
      BY <1>1 DEF HasGrid, Present, Describable, Maybe
    <2>2. v.meta.grid \in Grid
      BY <1>1, <2>1, BlockTyped DEF HasGrid, ChunksThrow, Describable, Maybe
    <2> QED
      BY <1>1, <2>2 DEF transform_chunks, Grid
  <1>2. CASE ~HasGrid(v)
    BY <1>2, ShapeTyped DEF transform_chunks, Describable
  <1> QED
    BY <1>1, <1>2

\* Its fields, in terms of v.
EntryOf(ver, js, v, longName, coords, block) ==
    [name |-> v.name, type |-> v.type,
     dims |-> IF v.dims.names = <<v.name>>
              THEN [objects |-> TRUE, names |-> v.dims.names, sizes |-> transform_shape(js, v)]
              ELSE [objects |-> FALSE, names |-> v.dims.names, sizes |-> <<>>],
     longName |-> longName,
     compressor |-> CompressorFromSpec(transform_compressor(ver, v.compressor)),
     coords |-> IF coords = Absent THEN Absent ELSE [objects |-> FALSE, names |-> coords],
     meta |-> [block EXCEPT !.grid = [regular |-> TRUE, shape |-> transform_chunks(js, v)]]]

LEMMA CopiedFields ==
    ASSUME NEW ver \in Versions, NEW js, NEW v, Describable(v), NEW longName, NEW coords, NEW block
    PROVE  Copied(ver, js, v, longName, coords, block) = EntryOf(ver, js, v, longName, coords, block)
  <1> DEFINE a == from_json_to_spec(ver, js, v)
             dims == IF v.dims.names = <<v.name>>
                     THEN [objects |-> TRUE, names |-> v.dims.names, sizes |-> transform_shape(js, v)]
                     ELSE [objects |-> FALSE, names |-> v.dims.names, sizes |-> <<>>]
             compressor == CompressorFromSpec(transform_compressor(ver, v.compressor))
             names == IF coords = Absent THEN Absent ELSE [objects |-> FALSE, names |-> coords]
  <1>1. /\ a.name = v.name /\ a.attrs.dims = v.dims.names /\ a.shape = transform_shape(js, v)
        /\ a.codec = transform_compressor(ver, v.compressor) /\ a.chunks = transform_chunks(js, v)
    BY DEF from_json_to_spec, transform_attributes
  <1>2. DataTypeFromSpec(ver, a) = v.type
    BY FormatsReadBack DEF Describable
  <1> HIDE DEF a
  <1>3. DimensionsFromVariable(a) = dims
    BY <1>1 DEF DimensionsFromVariable
  <1>4. CompressorFromSpec(a.codec) = compressor
    BY <1>1
  <1>5. VariableToCreationJson(ver, a, longName, coords, block) =
          [name |-> a.name, type |-> DataTypeFromSpec(ver, a), dims |-> DimensionsFromVariable(a),
           longName |-> longName, compressor |-> CompressorFromSpec(a.codec), coords |-> names,
           meta |-> [block EXCEPT !.grid = [regular |-> TRUE, shape |-> a.chunks]]]
    BY DEF VariableToCreationJson
  <1> HIDE DEF dims, compressor, names
  <1>6. VariableToCreationJson(ver, a, longName, coords, block) =
          [name |-> v.name, type |-> v.type, dims |-> dims, longName |-> longName,
           compressor |-> compressor, coords |-> names,
           meta |-> [block EXCEPT !.grid = [regular |-> TRUE, shape |-> transform_chunks(js, v)]]]
    BY <1>1, <1>2, <1>3, <1>4, <1>5
  <1> QED
    BY <1>6 DEF Copied, EntryOf, a, dims, compressor, names

\* The same, one by one.
LEMMA CopiedEntry ==
    ASSUME NEW ver \in Versions, NEW js, DimsSized(js), GetDimensionsOk(js), NEW v, Describable(v),
           NEW longName, NEW coords, NEW block \in MetadataBlock
    PROVE  LET e == Copied(ver, js, v, longName, coords, block) IN
           /\ e.name = v.name /\ e.type = v.type /\ e.longName = longName
           /\ e.dims.names = v.dims.names /\ Sized(e.dims)
           /\ e.dims.objects => v.dims.names = <<v.name>> /\ e.dims.sizes = transform_shape(js, v)
           /\ IsDimensionCoordinate(e) => e.dims.objects
           /\ CompressorOk(e.compressor) /\ normalize_legacy_blosc(e.compressor) = e.compressor
           /\ \A other : transform_compressor(other, e.compressor) = transform_compressor(other, v.compressor)
           /\ [e EXCEPT !.compressor = e.compressor] = e
           /\ ~CoordinatesThrow(e) /\ ~ChunksThrow(e)
           /\ Present(e.meta) /\ e.meta \in MetadataBlock
           /\ e.meta.stats = block.stats /\ e.meta.units = block.units
           /\ e.meta.attributes = block.attributes
           /\ HasGrid(e) /\ Present(e.meta.grid) /\ e.meta.grid.regular
           /\ e.meta.grid.shape = transform_chunks(js, v)
  <1> DEFINE e == Copied(ver, js, v, longName, coords, block)
             line == v.dims.names = <<v.name>>
             dims == IF line THEN [objects |-> TRUE, names |-> v.dims.names,
                                   sizes |-> transform_shape(js, v)]
                     ELSE [objects |-> FALSE, names |-> v.dims.names, sizes |-> <<>>]
             compressor == CompressorFromSpec(transform_compressor(ver, v.compressor))
             names == IF coords = Absent THEN Absent ELSE [objects |-> FALSE, names |-> coords]
             grid == [regular |-> TRUE, shape |-> transform_chunks(js, v)]
             meta == [block EXCEPT !.grid = grid]
  <1>1. e = [name |-> v.name, type |-> v.type, dims |-> dims, longName |-> longName,
             compressor |-> compressor, coords |-> names, meta |-> meta]
    <2>1. Copied(ver, js, v, longName, coords, block) = EntryOf(ver, js, v, longName, coords, block)
      BY CopiedFields
    <2> QED
      BY <2>1 DEF EntryOf
  <1>2. Sized(dims)
    <2>1. Sized(v.dims)
      BY DEF Describable
    <2>2. /\ transform_shape(js, v) \in Seq(Int)
          /\ Len(transform_shape(js, v)) = Len(v.dims.names)
      BY <2>1, ShapeTyped
    <2>3. /\ Len(v.dims.names) \in Nat /\ DOMAIN v.dims.names = 1..Len(v.dims.names)
      BY <2>1 DEF Sized
    <2>4. CASE line
      <3>1. dims.objects = TRUE /\ dims.names = v.dims.names /\ dims.sizes = transform_shape(js, v)
        BY <2>4
      <3> HIDE DEF dims
      <3> QED
        BY <3>1, <2>2, <2>3 DEF Sized
    <2>5. CASE ~line
      <3>1. dims.objects = FALSE /\ dims.names = v.dims.names /\ dims.sizes = <<>>
        BY <2>5
      <3>2. <<>> \in Seq(Int) /\ Len(<<>>) = 0
        OBVIOUS
      <3> HIDE DEF dims
      <3> QED
        BY <3>1, <3>2, <2>3 DEF Sized
    <2> QED
      BY <2>4, <2>5
  <1>3. /\ dims.names = v.dims.names
        /\ dims.objects => line /\ dims.sizes = transform_shape(js, v)
    OBVIOUS
  <1>4. /\ CompressorOk(compressor) /\ normalize_legacy_blosc(compressor) = compressor
        /\ \A other : transform_compressor(other, compressor) = transform_compressor(other, v.compressor)
    BY CompressorCopied DEF Describable
  <1>5. grid \in Grid
    <2>1. transform_chunks(js, v) \in Seq(Int)
      BY ChunksTyped
    <2> QED
      BY <2>1 DEF Grid
  <1>6. meta = [stats |-> block.stats, units |-> block.units, attributes |-> block.attributes,
                grid |-> grid]
    <2> HIDE DEF grid
    <2> QED
      BY BlockTyped
  <1>7. meta \in MetadataBlock
    <2> HIDE DEF grid, meta
    <2> QED
      BY <1>5, <1>6, BlockTyped DEF MetadataBlock, Maybe
  <1>8. Present(meta) /\ Present(grid)
    BY <1>5, <1>7, NoValue DEF Present
  <1>9. Present(names) => names.objects = FALSE
    BY DEF Present
  <1>10. grid.regular = TRUE /\ grid.shape = transform_chunks(js, v)
    OBVIOUS
  <1>11. /\ meta.stats = block.stats /\ meta.units = block.units
         /\ meta.attributes = block.attributes /\ meta.grid = grid
    BY <1>6
  <1> HIDE DEF dims, compressor, names, grid, meta, e
  <1>12. /\ e.name = v.name /\ e.type = v.type /\ e.longName = longName /\ e.dims = dims
         /\ e.compressor = compressor /\ e.coords = names /\ e.meta = meta
         /\ [e EXCEPT !.compressor = compressor] = e
    BY <1>1
  <1>13. ~CoordinatesThrow(e) /\ ~ChunksThrow(e)
    BY <1>8, <1>9, <1>11, <1>12 DEF CoordinatesThrow, ChunksThrow, Present
  <1>14. HasGrid(e)
    BY <1>8, <1>11, <1>12 DEF HasGrid, Present
  <1>15. IsDimensionCoordinate(e) => e.dims.objects
    BY DEF IsDimensionCoordinate
  <1> QED
    BY <1>2, <1>3, <1>4, <1>7, <1>8, <1>10, <1>11, <1>12, <1>13, <1>14, <1>15 DEF e

\* An entry is as good as the variable v the array was made of.
CopyEntry(js, v, e) ==
    /\ e.name = v.name /\ e.type = v.type
    /\ e.dims.names = v.dims.names /\ Sized(e.dims)
    /\ e.dims.objects => e.dims.sizes = transform_shape(js, v)
    /\ CompressorOk(e.compressor) /\ normalize_legacy_blosc(e.compressor) = e.compressor
    /\ \A ver : transform_compressor(ver, e.compressor) = transform_compressor(ver, v.compressor)
    /\ [e EXCEPT !.compressor = e.compressor] = e
    /\ ~CoordinatesThrow(e) /\ ~ChunksThrow(e)
    /\ HasGrid(e) /\ e.meta.grid.shape = transform_chunks(js, v)

LEMMA EntryKept ==
    ASSUME NEW ver \in Versions, NEW js, DimsSized(js), GetDimensionsOk(js), NEW v, Describable(v),
           NEW longName, NEW coords, NEW block \in MetadataBlock
    PROVE  CopyEntry(js, v, Copied(ver, js, v, longName, coords, block))
  <1> DEFINE e == Copied(ver, js, v, longName, coords, block)
  <1>1. /\ e.name = v.name /\ e.type = v.type
        /\ e.dims.names = v.dims.names /\ Sized(e.dims)
        /\ e.dims.objects => v.dims.names = <<v.name>> /\ e.dims.sizes = transform_shape(js, v)
        /\ CompressorOk(e.compressor) /\ normalize_legacy_blosc(e.compressor) = e.compressor
        /\ \A other : transform_compressor(other, e.compressor) = transform_compressor(other, v.compressor)
        /\ [e EXCEPT !.compressor = e.compressor] = e
        /\ ~CoordinatesThrow(e) /\ ~ChunksThrow(e)
        /\ HasGrid(e) /\ e.meta.grid.shape = transform_chunks(js, v)
    BY CopiedEntry
  <1> HIDE DEF e
  <1>2. CopyEntry(js, v, e)
    BY <1>1 DEF CopyEntry
  <1> QED
    BY <1>2 DEF e

\* The entries of the arrays of a JSON.
Copies(js, entries) ==
    /\ entries = [i \in DOMAIN js |-> entries[i]]
    /\ \A i \in DOMAIN js : CopyEntry(js, js[i], entries[i])

LEMMA CopiesNormal ==
    ASSUME NEW js, NEW E, Copies(js, E)
    PROVE  normalize_legacy_compressors(E) = E
  <1>1. E = [i \in DOMAIN js |-> E[i]] /\ DOMAIN E = DOMAIN js
    BY DEF Copies
  <1>2. ASSUME NEW i \in DOMAIN js
        PROVE  [E[i] EXCEPT !.compressor = normalize_legacy_blosc(E[i].compressor)] = E[i]
    BY <1>2 DEF Copies, CopyEntry
  <1>3. normalize_legacy_compressors(E) =
          [i \in DOMAIN E |-> [E[i] EXCEPT !.compressor = normalize_legacy_blosc(E[i].compressor)]]
    BY DEF normalize_legacy_compressors
  <1> QED
    BY <1>1, <1>2, <1>3

LEMMA CopiesSpecified ==
    ASSUME NEW js, NEW E, Copies(js, E), \A i \in DOMAIN js : Describable(js[i])
    PROVE  SpecsOutcome(E) = "ok"
  <1>1. DOMAIN E = DOMAIN js
    BY DEF Copies
  <1>2. ASSUME NEW i \in DOMAIN js
        PROVE  ~SpecRefused(E[i]) /\ ~SpecThrows(E[i])
    <2>1. E[i].type = js[i].type /\ CompressorOk(E[i].compressor)
          /\ ~ChunksThrow(E[i]) /\ ~CoordinatesThrow(E[i])
      BY <1>2 DEF Copies, CopyEntry
    <2>2. Range(js[i].type.formats) \subseteq Supported
      BY <1>2 DEF Describable
    <2> QED
      BY <2>1, <2>2 DEF SpecRefused, SpecThrows
  <1>3. {i \in DOMAIN E : SpecRefused(E[i]) \/ SpecThrows(E[i])} = {}
    BY <1>1, <1>2
  <1> QED
    BY <1>3 DEF SpecsOutcome

\* The sizes given in the entries are those of the arrays.
LEMMA CopiesSizes ==
    ASSUME NEW js, DimsSized(js), GetDimensionsOk(js), NEW E, Copies(js, E)
    PROVE  DimsSized(E) /\ GetDimensionsOk(E)
  <1>1. DOMAIN E = DOMAIN js
    BY DEF Copies
  <1>2. DimsSized(E)
    BY <1>1 DEF Copies, CopyEntry, DimsSized
  <1>3. ASSUME NEW d \in DeclaredSizes(E)
        PROVE  d[2] = SizeOf(js, d[1])
    <2>1. PICK i \in DOMAIN E : \E k \in DOMAIN E[i].dims.sizes :
            d = <<E[i].dims.names[k], E[i].dims.sizes[k]>>
      BY <1>3 DEF DeclaredSizes
    <2>2. PICK k \in DOMAIN E[i].dims.sizes : d = <<E[i].dims.names[k], E[i].dims.sizes[k]>>
      BY <2>1
    <2>3. /\ E[i].dims.names = js[i].dims.names
          /\ E[i].dims.objects => E[i].dims.sizes = transform_shape(js, js[i])
      BY <1>1 DEF Copies, CopyEntry
    <2>4. E[i].dims.objects
      <3>1. /\ E[i].dims.sizes \in Seq(Int)
            /\ Len(E[i].dims.sizes) = IF E[i].dims.objects THEN Len(E[i].dims.names) ELSE 0
        BY <1>2 DEF DimsSized, Sized
      <3> QED
        BY <3>1
    <2>5. Sized(js[i].dims)
      BY <1>1 DEF DimsSized
    <2>6. k \in DOMAIN transform_shape(js, js[i])
      BY <2>3, <2>4
    <2>7. transform_shape(js, js[i])[k] = SizeOf(js, js[i].dims.names[k])
      BY <2>5, <2>6, ShapeTyped
    <2> QED
      BY <2>2, <2>3, <2>4, <2>7
  <1>4. GetDimensionsOk(E)
    <2>1. \A name : SizeOf(js, name) <= MaxSize
      BY SizeOfTyped
    <2> QED
      BY <2>1, <1>3 DEF GetDimensionsOk
  <1> QED
    BY <1>2, <1>4

\* Every dimension has its coordinate among the entries, which gives its size.
LEMMA CopiesShape ==
    ASSUME NEW js, DimsSized(js), GetDimensionsOk(js), NEW E, Copies(js, E), validate_dataset(E),
           \A i, j \in DOMAIN js : js[i].name = js[j].name => i = j,
           NEW i \in DOMAIN js
    PROVE  transform_shape(E, E[i]) = transform_shape(js, js[i])
  <1>1. DOMAIN E = DOMAIN js /\ DimsSized(E) /\ GetDimensionsOk(E)
    BY CopiesSizes DEF Copies
  <1>2. \A j \in DOMAIN js : E[j].name = js[j].name /\ E[j].dims.names = js[j].dims.names
    BY DEF Copies, CopyEntry
  <1>3. \A j, k \in DOMAIN E : E[j].name = E[k].name => j = k
    BY <1>1, <1>2
  <1>4. ASSUME NEW k \in DOMAIN js[i].dims.names
        PROVE  SizeOf(E, js[i].dims.names[k]) = SizeOf(js, js[i].dims.names[k])
    <2>1. \E j \in DOMAIN E : IsDimensionCoordinate(E[j]) /\ E[j].name = E[i].dims.names[k]
      BY <1>1, <1>2, <1>3, DimensionHasCoordinate
    <2>2. PICK j \in DOMAIN E : IsDimensionCoordinate(E[j]) /\ E[j].name = E[i].dims.names[k]
      BY <2>1
    <2> DEFINE name == E[j].name
               size == E[j].dims.sizes[1]
    <2>3. E[j].dims.objects /\ E[j].dims.names = <<name>>
      BY <2>2 DEF IsDimensionCoordinate
    <2>4. E[j].dims.sizes \in Seq(Int) /\ Len(E[j].dims.sizes) = Len(E[j].dims.names)
      BY <1>1, <2>3 DEF DimsSized, Sized
    <2>5. 1 \in DOMAIN E[j].dims.sizes
      <3>1. Len(E[j].dims.names) = 1
        BY <2>3
      <3> QED
        BY <3>1, <2>4
    <2>6. SizeOf(E, E[j].dims.names[1]) = size
      BY <1>1, <2>5, SizeGiven
    <2>7. /\ js[j].dims.names = E[j].dims.names /\ Sized(js[j].dims)
          /\ E[j].dims.sizes = transform_shape(js, js[j])
      BY <1>1, <1>2, <2>3 DEF Copies, CopyEntry, DimsSized
    <2>8. 1 \in DOMAIN js[j].dims.names
      BY <2>7, <2>5, ShapeTyped
    <2>9. size = SizeOf(js, js[j].dims.names[1])
      BY <2>7, <2>8, ShapeTyped
    <2>10. E[j].dims.names[1] = name
      BY <2>3
    <2> QED
      BY <2>2, <2>6, <2>7, <2>9, <2>10, <1>2
  <1>5. transform_shape(E, E[i]) = [k \in DOMAIN js[i].dims.names |-> SizeOf(E, js[i].dims.names[k])]
    BY <1>2 DEF transform_shape
  <1>6. transform_shape(js, js[i]) = [k \in DOMAIN js[i].dims.names |-> SizeOf(js, js[i].dims.names[k])]
    BY DEF transform_shape
  <1> QED
    BY <1>4, <1>5, <1>6

\* The array made of an entry is the array the entry was made of, but for its
\* attributes.
SameArray(copy, was, e) ==
    /\ Blank(copy) = Blank(was)
    /\ copy.shape = was.shape /\ copy.chunks = was.chunks
    /\ copy.attrs.dims = was.attrs.dims
    /\ copy.attrs.longName = Or(e.longName, "") /\ copy.attrs.meta = e.meta

LEMMA CopiesArray ==
    ASSUME NEW js, DimsSized(js), GetDimensionsOk(js), NEW E, Copies(js, E), validate_dataset(E),
           \A i, j \in DOMAIN js : js[i].name = js[j].name => i = j,
           NEW i \in DOMAIN js, NEW ver
    PROVE  SameArray(from_json_to_spec(ver, E, E[i]), from_json_to_spec(ver, js, js[i]), E[i])
  <1> DEFINE copy == from_json_to_spec(ver, E, E[i])
             was  == from_json_to_spec(ver, js, js[i])
  <1>1. /\ E[i].name = js[i].name /\ E[i].type = js[i].type /\ E[i].dims.names = js[i].dims.names
        /\ transform_compressor(ver, E[i].compressor) = transform_compressor(ver, js[i].compressor)
        /\ HasGrid(E[i]) /\ E[i].meta.grid.shape = transform_chunks(js, js[i])
    BY DEF Copies, CopyEntry
  <1>2. transform_shape(E, E[i]) = transform_shape(js, js[i])
    BY CopiesShape
  <1>3. transform_chunks(E, E[i]) = transform_chunks(js, js[i])
    BY <1>1 DEF transform_chunks
  <1> DEFINE Array(v, codec, shape, chunks, attrs) ==
               [name |-> v.name, fields |-> v.type.fields,
                codes |-> [f \in DOMAIN v.type.formats |-> ToZarrDtype(ver, v.type.formats[f])],
                codec |-> codec, shape |-> shape, chunks |-> chunks,
                fill |-> set_fill_value(ver, v.type), attrs |-> attrs]
  <1>4. copy = Array(E[i], transform_compressor(ver, E[i].compressor), transform_shape(E, E[i]),
                     transform_chunks(E, E[i]), transform_attributes(E[i]))
    BY DEF from_json_to_spec
  <1>5. was = Array(js[i], transform_compressor(ver, js[i].compressor), transform_shape(js, js[i]),
                    transform_chunks(js, js[i]), transform_attributes(js[i]))
    BY DEF from_json_to_spec
  <1>6. copy = Array(js[i], transform_compressor(ver, js[i].compressor), transform_shape(js, js[i]),
                     transform_chunks(js, js[i]), transform_attributes(E[i]))
    BY <1>1, <1>2, <1>3, <1>4
  <1> HIDE DEF copy, was
  <1>7. copy.shape = was.shape /\ copy.chunks = was.chunks
    BY <1>5, <1>6
  <1>8. copy.attrs = transform_attributes(E[i]) /\ was.attrs = transform_attributes(js[i])
    BY <1>5, <1>6
  <1>9. Blank(copy) = Blank(was)
    BY <1>5, <1>6 DEF Blank
  <1>10. /\ copy.attrs.dims = was.attrs.dims
         /\ copy.attrs.longName = Or(E[i].longName, "") /\ copy.attrs.meta = E[i].meta
    <2>1. \A v : /\ transform_attributes(v).dims = v.dims.names
                /\ transform_attributes(v).longName = Or(v.longName, "")
                /\ transform_attributes(v).meta = v.meta
      BY DEF transform_attributes
    <2> QED
      BY <2>1, <1>1, <1>8
  <1> QED
    BY <1>7, <1>9, <1>10 DEF SameArray, copy, was

LEMMA CopyConstructed ==
    ASSUME NEW js, DimsSized(js), GetDimensionsOk(js), \A i \in DOMAIN js : Describable(js[i]),
           NEW E, Copies(js, E), validate_dataset(E), NEW ver
    PROVE  /\ Construct(ver, E).outcome = "ok"
           /\ Construct(ver, E).specs = [i \in DOMAIN E |-> from_json_to_spec(ver, E, E[i])]
  <1>1. normalize_legacy_compressors(E) = E /\ SpecsOutcome(E) = "ok" /\ GetDimensionsOk(E)
    BY CopiesNormal, CopiesSpecified, CopiesSizes
  <1> DEFINE specs == [i \in DOMAIN E |-> from_json_to_spec(ver, E, E[i])]
  <1>2. Construct(ver, E) = [outcome |-> "ok", json |-> E, specs |-> specs]
    BY <1>1 DEF Construct
  <1> HIDE DEF specs
  <1>3. Construct(ver, E).outcome = "ok" /\ Construct(ver, E).specs = specs
    BY <1>2
  <1> QED
    BY <1>3 DEF specs

\* The attributes at the top level are those an opening finds, if no others
\* are stored.
LEMMA StoredAttributesTyped ==
    ASSUME NEW d, SoundDoc(d), FromJsonOk(StoredBlock(d))
    PROVE  /\ StoredAttributes(d) \in MetadataBlock
           /\ FromJsonOk(StoredAttributes(d))
           /\ d.nested = Absent => FromVariableJson(StoredAttributes(d)) = OpenVariable(d).user
  <1> DEFINE kept == StoredAttributes(d)
             top == d.top
             stored == StoredBlock(d)
  <1>1. top \in MetadataBlock
    BY DEF SoundDoc
  <1>2. /\ kept.stats = IF top.stats = Null THEN Absent ELSE top.stats
        /\ kept.units = IF top.units = Null THEN Absent ELSE top.units
        /\ kept.attributes = IF top.attributes = Null THEN Absent ELSE top.attributes
        /\ kept.grid = Absent
        /\ kept = [stats |-> kept.stats, units |-> kept.units,
                   attributes |-> kept.attributes, grid |-> kept.grid]
    BY DEF StoredAttributes
  <1>3. /\ stored.stats = Or(top.stats, Or(d.nested, EmptyBlock).stats)
        /\ stored.units = Or(top.units, Or(d.nested, EmptyBlock).units)
        /\ stored.attributes = Or(top.attributes, Or(d.nested, EmptyBlock).attributes)
    BY DEF StoredBlock
  <1> HIDE DEF kept, top, stored
  <1>4. /\ top.stats \in Maybe(Statistics) /\ top.units \in Maybe(Units)
        /\ top.attributes \in Maybe(SUBSET Pairs)
    BY <1>1, BlockTyped
  <1>5. kept \in MetadataBlock
    <2>1. /\ kept.stats \in Maybe(Statistics) /\ kept.units \in Maybe(Units)
          /\ kept.attributes \in Maybe(SUBSET Pairs) /\ kept.grid \in Maybe(Grid)
      BY <1>2, <1>4 DEF Maybe
    <2> QED
      BY <2>1, <1>2 DEF MetadataBlock
  <1>6. StatsOk(stored.stats) /\ UnitsOk(stored.units)
    BY DEF FromJsonOk, stored
  <1>7. FromJsonOk(kept)
    <2>1. CASE top.stats \in {Absent, Null}
      <3>1. kept.stats = Absent
        BY <2>1, <1>2
      <3>2. Items(kept.stats) = <<>>
        BY <3>1 DEF Items, Present
      <3>3. StatsOk(kept.stats)
        <4>1. DOMAIN Items(kept.stats) = {}
          BY <3>2
        <4> QED
          BY <3>1, <4>1, NoValue DEF StatsOk
      <3> QED
        BY <3>3, <1>2, <1>6, NoValue DEF FromJsonOk, UnitsOk
    <2>2. CASE top.stats \notin {Absent, Null}
      <3>1. kept.stats = top.stats /\ stored.stats = top.stats
        BY <2>2, <1>2, <1>3 DEF Or
      <3> QED
        BY <3>1, <1>2, <1>6, NoValue DEF FromJsonOk, UnitsOk
    <2> QED
      BY <2>1, <2>2
  <1>8. ASSUME d.nested = Absent
        PROVE  FromVariableJson(kept) = FromVariableJson(stored)
    <2>1. stored.stats = top.stats /\ stored.units = top.units /\ stored.attributes = top.attributes
      BY <1>3, <1>8 DEF Or, EmptyBlock
    <2>2. kept.stats = stored.stats /\ kept.units = stored.units
      BY <2>1, <1>2, <1>6 DEF StatsOk, UnitsOk
    <2>3. (IF Present(kept.attributes) THEN kept.attributes ELSE {}) =
            (IF Present(stored.attributes) THEN stored.attributes ELSE {})
      BY <2>1, <1>2 DEF Present
    <2>4. InferIsFloat(kept) = InferIsFloat(stored)
      BY <2>2 DEF InferIsFloat
    <2> QED
      BY <2>2, <2>3, <2>4 DEF FromVariableJson, FromJson
  <1>9. OpenVariable(d).user = FromVariableJson(stored)
    BY DEF OpenVariable, InMemory, stored
  <1> QED
    BY <1>5, <1>7, <1>8, <1>9 DEF kept

-----------------------------------------------------------------------------
(* Every dataset can be copied *)

\* What a dataset of another program could have been created from.
ForeignVariable ==
    [name |-> "x", longName |-> Absent, type |-> [fields |-> FALSE, formats |-> <<"float32">>],
     dims |-> [objects |-> TRUE, names |-> <<"x">>, sizes |-> <<2>>],
     compressor |-> Absent, coords |-> Absent, meta |-> Absent]

Origin == IF DOMAIN json = DOMAIN arrays THEN json ELSE <<ForeignVariable>>

\* The arrays are those of a JSON, whatever became of their attributes since,
\* and what is stored of these can be read.
CopyReady ==
    /\ phase = "json" => NamesDiffer
    /\ phase \in {"constructed", "open"} => Described(version, Origin, arrays)
    /\ phase = "open" =>
          /\ \A i \in DOMAIN arrays : TensorStoreAccepts(arrays[i])
          /\ \A i \in DOMAIN doc : FromJsonOk(StoredBlock(doc[i]))

LEMMA ForeignDescribed ==
    ASSUME NEW ver
    PROVE  Described(ver, <<ForeignVariable>>, <<ForeignArray(ver)>>)
  <1> DEFINE v == ForeignVariable
             js == <<v>>
             type == [fields |-> FALSE, formats |-> <<"float32">>]
  <1>1. /\ v.name = "x" /\ v.longName = Absent /\ v.type = type /\ v.compressor = Absent
        /\ v.coords = Absent /\ v.meta = Absent /\ v.dims.objects = TRUE
        /\ v.dims.names = <<"x">> /\ v.dims.sizes = <<2>>
    BY DEF ForeignVariable
  <1> HIDE DEF v
  <1>2. DOMAIN js = {1} /\ js[1] = v
    OBVIOUS
  <1> HIDE DEF js
  <1>3. DeclaredSizes(js) = {<<"x", 2>>}
    <2>1. DOMAIN v.dims.sizes = {1} /\ v.dims.names[1] = "x" /\ v.dims.sizes[1] = 2
      BY <1>1
    <2> QED
      BY <2>1, <1>2 DEF DeclaredSizes
  <1>4. GetDimensionsOk(js)
    BY <1>3, BoundsAssumption DEF GetDimensionsOk
  <1>5. SizeOf(js, "x") = 2
    <2>1. 1 \in DOMAIN js /\ 1 \in DOMAIN js[1].dims.sizes
          /\ js[1].dims.names[1] = "x" /\ js[1].dims.sizes[1] = 2
      BY <1>1, <1>2
    <2> QED
      BY <2>1, <1>4, SizeGiven
  <1>6. transform_shape(js, v) = <<2>>
    <2>1. DOMAIN v.dims.names = {1} /\ v.dims.names[1] = "x"
      BY <1>1
    <2>2. transform_shape(js, v) = [k \in {1} |-> 2]
      BY <2>1, <1>5 DEF transform_shape
    <2> QED
      BY <2>2
  <1>7. transform_chunks(js, v) = <<2>>
    BY <1>1, <1>6 DEF transform_chunks, HasGrid, Present
  <1>8. transform_attributes(v) = [dims |-> <<"x">>, longName |-> "", coords |-> Absent, meta |-> Absent]
    BY <1>1 DEF transform_attributes, Or
  <1>9. [f \in DOMAIN v.type.formats |-> ToZarrDtype(ver, v.type.formats[f])] =
          <<ToZarrDtype(ver, "float32")>>
    <2>1. DOMAIN v.type.formats = {1} /\ v.type.formats[1] = "float32"
      BY <1>1
    <2>2. [f \in DOMAIN v.type.formats |-> ToZarrDtype(ver, v.type.formats[f])] =
            [f \in {1} |-> ToZarrDtype(ver, "float32")]
      BY <2>1
    <2> QED
      BY <2>2
  <1>10. from_json_to_spec(ver, js, v) = ForeignArray(ver)
    <2>1. transform_compressor(ver, v.compressor) = Absent /\ v.type.fields = FALSE
      BY <1>1 DEF transform_compressor
    <2> HIDE DEF type
    <2>2. set_fill_value(ver, v.type) = set_fill_value(ver, type)
      BY <1>1
    <2> QED
      BY <1>1, <1>6, <1>7, <1>8, <1>9, <2>1, <2>2 DEF from_json_to_spec, ForeignArray, type
  <1>11. <<ForeignArray(ver)>> = [i \in DOMAIN js |-> from_json_to_spec(ver, js, js[i])]
    BY <1>2, <1>10
  <1>12. Describable(v)
    <2>1. Sized(v.dims)
      BY <1>1 DEF Sized
    <2>2. v.type = [fields |-> v.type.fields, formats |-> [f \in DOMAIN v.type.formats |-> v.type.formats[f]]]
      <3>1. v.type.fields = FALSE /\ v.type.formats = <<"float32">>
        BY <1>1
      <3>2. [f \in DOMAIN v.type.formats |-> v.type.formats[f]] = <<"float32">>
        BY <3>1
      <3> QED
        BY <1>1, <3>1, <3>2
    <2>3. Range(v.type.formats) \subseteq Supported
      BY <1>1 DEF Range, Supported, V2Code
    <2> QED
      BY <2>1, <2>2, <2>3, <1>1 DEF Describable, Maybe, ValidCompressor, CompressorOk, ChunksThrow, HasGrid, Present
  <1>13. Described(ver, js, <<ForeignArray(ver)>>)
    BY <1>2, <1>4, <1>11, <1>12 DEF Described
  <1> QED
    BY <1>13 DEF js, v

LEMMA ReadyInit == Init /\ NamesDiffer => CopyReady
  <1> SUFFICES ASSUME Init, NamesDiffer PROVE CopyReady
    OBVIOUS
  <1>1. CASE phase = "json"
    BY <1>1 DEF CopyReady
  <1>2. CASE phase # "json"
    <2>1. PICK d \in ForeignDocs :
            /\ json = <<>> /\ phase = "open" /\ arrays = <<ForeignArray(version)>> /\ doc = <<d>>
      BY <1>2 DEF Init
    <2>2. DOMAIN arrays = {1} /\ DOMAIN doc = {1} /\ DOMAIN json = {}
      BY <2>1
    <2>3. Described(version, Origin, arrays)
      BY <2>1, <2>2, ForeignDescribed DEF Origin
    <2>4. FromJsonOk(StoredBlock(doc[1]))
      BY <2>1, InputsAssumption
    <2>5. TensorStoreAccepts(ForeignArray(version))
      <3>1. /\ ForeignArray(version).shape = <<2>> /\ ForeignArray(version).chunks = <<2>>
            /\ ForeignArray(version).attrs.meta = Absent
        BY DEF ForeignArray
      <3>2. Len(<<2>>) = 1 /\ DOMAIN <<2>> = {1} /\ <<2>>[1] = 2
        OBVIOUS
      <3> QED
        BY <3>1, <3>2 DEF TensorStoreAccepts, Present
    <2> QED
      BY <2>1, <2>2, <2>3, <2>4, <2>5 DEF CopyReady
  <1> QED
    BY <1>1, <1>2

\* A variable that passed the checks.
LEMMA CheckedVariable ==
    ASSUME NEW js \in DatasetJsons, validate_dataset(js), SpecsOutcome(js) = "ok", NEW i \in DOMAIN js
    PROVE  Describable(js[i])
  <1> DEFINE v == js[i]
  <1>1. v \in VariableJson /\ Sized(v.dims)
    BY JsonTyped, DatasetJsonsSized DEF DimsSized
  <1>2. Range(v.type.formats) \subseteq Supported /\ CompressorOk(v.compressor) /\ ~ChunksThrow(v)
    BY Specified
  <1>3. ValidCompressor(v.compressor)
    BY DEF validate_dataset, validate_schema, ValidVariable
  <1> HIDE DEF v
  <1>4. v.type \in [fields : BOOLEAN, formats : Seq(STRING)]
        /\ v.compressor \in Maybe(Compressor) /\ v.meta \in Maybe(MetadataBlock)
    BY <1>1 DEF VariableJson
  <1>5. v.type = [fields |-> v.type.fields,
                  formats |-> [f \in DOMAIN v.type.formats |-> v.type.formats[f]]]
    <2>1. v.type.formats = [f \in DOMAIN v.type.formats |-> v.type.formats[f]]
      BY <1>4
    <2> QED
      BY <1>4, <2>1
  <1>6. Describable(v)
    BY <1>1, <1>2, <1>3, <1>4, <1>5 DEF Describable
  <1> QED
    BY <1>6 DEF v

LEMMA ReadyConstruct == JsonInv /\ CopyReady /\ ConstructSpecs => CopyReady'
  <1> SUFFICES ASSUME JsonInv, CopyReady, ConstructSpecs PROVE CopyReady'
    OBVIOUS
  <1> DEFINE result == Construct(version, json)
             n == normalize_legacy_compressors(json)
  <1>1. /\ phase = "json" /\ json' = result.json /\ arrays' = result.specs /\ version' = version
        /\ phase' = CASE result.outcome = "ok"    -> "constructed"
                      [] result.outcome = "error" -> "refused"
                      [] OTHER                    -> "throws"
    BY DEF ConstructSpecs
  <1>2. json \in DatasetJsons /\ NamesDiffer
    BY <1>1 DEF JsonInv, SpecifiedInv, CopyReady
  <1>3. /\ result.outcome \in {"ok", "error", "throws"} /\ result.json = n
        /\ result.outcome = "ok" =>
             /\ validate_dataset(n) /\ GetDimensionsOk(n) /\ SpecsOutcome(n) = "ok"
             /\ result.specs = [i \in DOMAIN n |-> from_json_to_spec(version, n, n[i])]
    BY <1>2, Constructed
  <1>4. n \in DatasetJsons /\ DOMAIN n = DOMAIN json
        /\ n = [i \in DOMAIN json |-> NormalizedVariable(json[i])]
    BY <1>2, NormalizedJson
  <1>5. \A i \in DOMAIN n : n[i].name = json[i].name
    BY <1>2, <1>4, JsonTyped, NormalizedVariableTyped
  <1>6. \A i, j \in DOMAIN n : n[i].name = n[j].name => i = j
    <2> HIDE DEF n
    <2> QED
      BY <1>2, <1>4, <1>5 DEF NamesDiffer
  <1> HIDE DEF result, n
  <1>7. /\ phase' \in {"constructed", "refused", "throws"}
        /\ phase' = "constructed" => result.outcome = "ok"
    BY <1>1, <1>3
  <1>8. CASE phase' = "constructed"
    <2>1. /\ validate_dataset(n) /\ GetDimensionsOk(n) /\ SpecsOutcome(n) = "ok"
          /\ json' = n /\ arrays' = [i \in DOMAIN n |-> from_json_to_spec(version, n, n[i])]
      BY <1>1, <1>3, <1>7, <1>8
    <2>2. \A i \in DOMAIN n : Describable(n[i])
      BY <1>4, <2>1, CheckedVariable
    <2>3. Described(version, n, arrays')
      BY <1>6, <2>1, <2>2 DEF Described
    <2>4. Origin' = n
      BY <2>1 DEF Origin
    <2> QED
      BY <1>1, <1>8, <2>3, <2>4 DEF CopyReady
  <1>9. CASE phase' # "constructed"
    BY <1>7, <1>9 DEF CopyReady
  <1> QED
    BY <1>8, <1>9

LEMMA ReadyCreate == JsonInv /\ CopyReady /\ Create => CopyReady'
  <1> SUFFICES ASSUME JsonInv, CopyReady, Create PROVE CopyReady'
    OBVIOUS
  <1>1. /\ phase = "constructed" /\ phase' \in {"throws", "refused", "open"}
        /\ UNCHANGED <<version, json, arrays>>
    BY DEF Create
  <1>2. Described(version, Origin, arrays)
    BY <1>1 DEF CopyReady
  <1>3. Described(version, Origin, arrays)'
    BY <1>1, <1>2 DEF Origin, Described, Describable, Sized
  <1>4. CASE phase' = "open"
    <2>1. \A i \in DOMAIN arrays : TensorStoreAccepts(arrays[i])
      BY <1>4 DEF Create
    <2>2. ASSUME NEW i \in DOMAIN arrays
          PROVE  FromJsonOk(StoredBlock(doc'[i]))
      <3> DEFINE attrs == arrays[i].attrs
                 d == WriteVariableAttributes(attrs)
      <3>1. /\ doc'[i] = d /\ attrs.meta \in Maybe(MetadataBlock) /\ FromJsonOk(Block(attrs))
        BY <1>4, CreatedArrays
      <3>2. StoredBlock(d).stats = Block(attrs).stats /\ StoredBlock(d).units = Block(attrs).units
        BY <3>1, CreatedBlock
      <3> HIDE DEF d, attrs
      <3> QED
        BY <3>1, <3>2 DEF FromJsonOk
    <2>3. DOMAIN doc' = DOMAIN arrays
      BY <1>4, CreatedArrays
    <2> QED
      BY <1>1, <1>3, <1>4, <2>1, <2>2, <2>3 DEF CopyReady
  <1>5. CASE phase' # "open"
    BY <1>1, <1>5 DEF CopyReady
  <1> QED
    BY <1>4, <1>5

\* What a commit writes can be read.
LEMMA PublishedReadable ==
    ASSUME NEW v, SoundVariable(v), NEW ver \in Versions
    PROVE  FromJsonOk(StoredBlock(PublishMetadata(ver, v)))
  <1> DEFINE block == StoredBlock(PublishMetadata(ver, v))
             stats == v.user.stats
             units == v.user.units
  <1>1. block.stats = StatsBindable(stats) /\ block.units = UnitsBindable(units)
    BY PublishedBlock
  <1>2. stats \in Seq(Parsed)
    BY DEF SoundVariable, User
  <1> HIDE DEF block, stats, units
  <1>3. UnitsOk(block.units)
    <2>1. CASE units = <<>>
      BY <2>1, <1>1, NoValue DEF UnitsBindable, UnitsOk
    <2>2. CASE units # <<>>
      <3>1. v.user.units \in Seq(STRING)
        BY DEF SoundVariable, User
      <3>2. UnitsBindable(units) \in Units
        BY <2>2, <3>1 DEF UnitsBindable, Units, units
      <3> QED
        BY <3>2, <1>1, NoValue DEF UnitsOk
    <2> QED
      BY <2>1, <2>2
  <1>4. StatsOk(block.stats)
    <2>1. CASE stats = <<>>
      <3>1. block.stats = Absent
        BY <2>1, <1>1 DEF StatsBindable
      <3>2. Items(block.stats) = <<>>
        BY <3>1 DEF Items, Present
      <3>3. DOMAIN Items(block.stats) = {}
        BY <3>2
      <3> QED
        BY <3>1, <3>3, NoValue DEF StatsOk
    <2>2. CASE stats # <<>>
      <3>1. block.stats = [array |-> Len(stats) > 1, items |-> stats]
        BY <2>2, <1>1 DEF StatsBindable
      <3>2. Parsed \subseteq StatisticsItem
        BY DEF Parsed, StatisticsItem
      <3>3. stats \in Seq(StatisticsItem)
        BY <3>2, <1>2
      <3>4. block.stats \in Statistics /\ block.stats.items = stats
        BY <3>1, <3>3 DEF Statistics
      <3>5. block.stats # Null /\ Items(block.stats) = stats
        BY <3>4, NoValue DEF Items, Present
      <3>6. ASSUME NEW k \in DOMAIN stats
            PROVE  stats[k].whole
        <4>1. stats[k] \in Parsed
          BY <1>2, <3>6
        <4>2. \A item \in Parsed : item.whole = TRUE
          BY DEF Parsed
        <4>3. stats[k].whole = TRUE
          BY <4>1, <4>2
        <4> QED
          BY <4>3
      <3> QED
        BY <3>5, <3>6 DEF StatsOk
    <2> QED
      BY <2>1, <2>2
  <1> QED
    BY <1>3, <1>4 DEF FromJsonOk, block

LEMMA ReadyCommit == JsonInv /\ CopyReady /\ CommitMetadata => CopyReady'
  <1> SUFFICES ASSUME JsonInv, CopyReady, CommitMetadata PROVE CopyReady'
    OBVIOUS
  <1>1. /\ phase = "open" /\ UNCHANGED <<version, json, phase, arrays>>
        /\ doc' = [i \in DOMAIN doc |-> IF i \in dirty THEN PublishMetadata(version, mem[i]) ELSE doc[i]]
    BY DEF CommitMetadata, Call
  <1>2. VariablesInv /\ version \in Versions
    BY DEF JsonInv, ControlInv
  <1>3. /\ Described(version, Origin, arrays)
        /\ \A i \in DOMAIN arrays : TensorStoreAccepts(arrays[i])
        /\ \A i \in DOMAIN doc : FromJsonOk(StoredBlock(doc[i]))
    BY <1>1 DEF CopyReady
  <1>4. Described(version, Origin, arrays)'
    BY <1>1, <1>3 DEF Origin, Described, Describable, Sized
  <1>5. ASSUME NEW i \in DOMAIN doc'
        PROVE  FromJsonOk(StoredBlock(doc'[i]))
    <2>1. i \in DOMAIN doc /\ i \in DOMAIN mem
      BY <1>1, <1>2, <1>5 DEF VariablesInv
    <2>2. CASE i \in dirty
      <3>1. doc'[i] = PublishMetadata(version, mem[i]) /\ SoundVariable(mem[i])
        BY <1>1, <1>2, <2>1, <2>2 DEF VariablesInv
      <3> QED
        BY <3>1, <1>2, PublishedReadable
    <2>3. CASE i \notin dirty
      BY <1>1, <1>3, <2>1, <2>3
    <2> QED
      BY <2>2, <2>3
  <1> QED
    BY <1>1, <1>3, <1>4, <1>5 DEF CopyReady

LEMMA ReadyKept ==
    CopyReady /\ UNCHANGED <<version, json, phase, arrays, doc>> => CopyReady'
  BY DEF CopyReady, NamesDiffer, Origin, Described, Describable, Sized

LEMMA ReadyNext == JsonInv /\ CopyReady /\ [Next]_vars => CopyReady'
  <1> SUFFICES ASSUME JsonInv, CopyReady, [Next]_vars PROVE CopyReady'
    OBVIOUS
  <1>1. CASE ConstructSpecs
    BY <1>1, ReadyConstruct
  <1>2. CASE Create
    BY <1>2, ReadyCreate
  <1>3. CASE CommitMetadata
    BY <1>3, ReadyCommit
  <1>4. ASSUME NEW i \in DOMAIN mem, NEW isFloat \in BOOLEAN, NEW b \in UpdateBlocks,
               UpdateAttributes(i, isFloat, b)
        PROVE  CopyReady'
    BY <1>4, ReadyKept DEF UpdateAttributes
  <1>5. ASSUME NEW user \in HeaderUpdates, UpdateHeader(user)
        PROVE  CopyReady'
    BY <1>5, ReadyKept DEF UpdateHeader
  <1>6. CASE Reopen
    BY <1>6, ReadyKept DEF Reopen
  <1>7. CASE ToCreationJson
    BY <1>7, ReadyKept DEF ToCreationJson
  <1>8. CASE UNCHANGED vars
    BY <1>8, ReadyKept DEF vars
  <1> QED
    BY <1>1, <1>2, <1>3, <1>4, <1>5, <1>6, <1>7, <1>8 DEF Next

LEMMA ReadyAlways == Spec /\ NamesDiffer => []CopyReady
  <1>1. Init /\ NamesDiffer => CopyReady
    BY ReadyInit
  <1>2. JsonInv /\ CopyReady /\ [Next]_vars => CopyReady'
    BY ReadyNext
  <1> QED
    BY <1>1, <1>2, JsonInvariant, PTL DEF Spec

\* The entries of an open dataset.
LEMMA EntriesCopied ==
    ASSUME JsonInv, CopyReady, phase = "open"
    PROVE  /\ Copies(Origin, Entries) /\ DOMAIN Entries = DOMAIN arrays
           /\ \A i \in DOMAIN arrays :
                /\ Entries[i].longName = mem[i].longName
                /\ Entries[i].meta.stats = StoredAttributes(doc[i]).stats
                /\ Entries[i].meta.units = StoredAttributes(doc[i]).units
                /\ Entries[i].meta.attributes = StoredAttributes(doc[i]).attributes
                /\ Present(Entries[i].meta)
                /\ Present(Entries[i].meta.grid) /\ Entries[i].meta.grid.regular
  <1> DEFINE js == Origin
             E == Entries
  <1>1. version \in Versions
    BY DEF JsonInv, ControlInv
  <1>2. /\ GetDimensionsOk(js) /\ \A i \in DOMAIN js : Describable(js[i])
        /\ arrays = [i \in DOMAIN js |-> from_json_to_spec(version, js, js[i])]
        /\ DOMAIN arrays = DOMAIN js
    BY DEF CopyReady, Described
  <1>3. DimsSized(js)
    BY <1>2 DEF DimsSized, Describable
  <1> DEFINE block(i) == StoredAttributes(doc[i])
  <1>4. ASSUME NEW i \in DOMAIN js
        PROVE  block(i) \in MetadataBlock
    <2>1. i \in DOMAIN mem /\ i \in DOMAIN doc /\ SoundDoc(doc[i]) /\ FromJsonOk(StoredBlock(doc[i]))
      BY <1>2 DEF JsonInv, VariablesInv, CopyReady
    <2> QED
      BY <2>1, StoredAttributesTyped
  <1>5. /\ E = [i \in DOMAIN arrays |-> E[i]] /\ DOMAIN E = DOMAIN arrays
        /\ \A i \in DOMAIN arrays :
             E[i] = VariableToCreationJson(version, arrays[i], mem[i].longName, mem[i].coords, block(i))
    BY DEF Entries
  <1> HIDE DEF js, E, block
  <1>6. ASSUME NEW i \in DOMAIN js
        PROVE  E[i] = Copied(version, js, js[i], mem[i].longName, mem[i].coords, block(i))
    BY <1>2, <1>5 DEF Copied
  <1>7. ASSUME NEW i \in DOMAIN js
        PROVE  CopyEntry(js, js[i], E[i])
    BY <1>1, <1>2, <1>3, <1>4, <1>6, EntryKept
  <1>8. Copies(js, E)
    BY <1>2, <1>5, <1>7 DEF Copies
  <1>9. ASSUME NEW i \in DOMAIN js
        PROVE  /\ E[i].longName = mem[i].longName
               /\ E[i].meta.stats = block(i).stats /\ E[i].meta.units = block(i).units
               /\ E[i].meta.attributes = block(i).attributes
               /\ Present(E[i].meta) /\ Present(E[i].meta.grid) /\ E[i].meta.grid.regular
    BY <1>1, <1>2, <1>3, <1>4, <1>6, CopiedEntry
  <1> QED
    BY <1>2, <1>5, <1>8, <1>9 DEF js, E, block

\* One array of the copy.
LEMMA CopyOfArray ==
    ASSUME JsonInv, CopyReady, phase = "open", validate_dataset(Entries), NEW i \in DOMAIN arrays
    PROVE  LET copy == from_json_to_spec(version, Entries, Entries[i]) IN
           /\ TensorStoreAccepts(copy) /\ FromJsonOk(Block(copy.attrs))
           /\ Blank(copy) = Blank(arrays[i])
           /\ copy.attrs.dims = arrays[i].attrs.dims
           /\ copy.attrs.longName = Or(mem[i].longName, "")
           /\ doc[i].nested = Absent =>
                FromVariableJson(copy.attrs.meta) = OpenVariable(doc[i]).user
  <1> DEFINE js == Origin
             E == Entries
             copy == from_json_to_spec(version, E, E[i])
             was == from_json_to_spec(version, js, js[i])
             kept == StoredAttributes(doc[i])
  <1>1. /\ GetDimensionsOk(js) /\ \A j \in DOMAIN js : Describable(js[j])
        /\ \A j, k \in DOMAIN js : js[j].name = js[k].name => j = k
        /\ i \in DOMAIN js /\ arrays[i] = was
    BY DEF CopyReady, Described
  <1>2. DimsSized(js)
    BY <1>1 DEF DimsSized, Describable
  <1>3. /\ Copies(js, E)
        /\ E[i].longName = mem[i].longName
        /\ E[i].meta.stats = kept.stats /\ E[i].meta.units = kept.units
        /\ E[i].meta.attributes = kept.attributes
        /\ Present(E[i].meta) /\ Present(E[i].meta.grid) /\ E[i].meta.grid.regular
    BY EntriesCopied
  <1>4. /\ Blank(copy) = Blank(was) /\ copy.shape = was.shape /\ copy.chunks = was.chunks
        /\ copy.attrs.dims = was.attrs.dims
        /\ copy.attrs.longName = Or(E[i].longName, "") /\ copy.attrs.meta = E[i].meta
    <2>1. SameArray(copy, was, E[i])
      BY <1>1, <1>2, <1>3, CopiesArray
    <2> HIDE DEF js, E, copy, was
    <2> QED
      BY <2>1 DEF SameArray
  <1>5. /\ FromJsonOk(kept)
        /\ doc[i].nested = Absent => FromVariableJson(kept) = OpenVariable(doc[i]).user
    <2>1. i \in DOMAIN mem /\ i \in DOMAIN doc /\ SoundDoc(doc[i]) /\ FromJsonOk(StoredBlock(doc[i]))
      BY DEF JsonInv, VariablesInv, CopyReady
    <2> QED
      BY <2>1, StoredAttributesTyped
  <1>6. TensorStoreAccepts(arrays[i])
    BY DEF CopyReady
  <1> HIDE DEF js, E, copy, was, kept
  <1>7. TensorStoreAccepts(copy)
    BY <1>1, <1>3, <1>4, <1>6 DEF TensorStoreAccepts
  <1>8. FromVariableJson(copy.attrs.meta) = FromVariableJson(kept)
    BY <1>3, <1>4, SameRead
  <1>9. FromJsonOk(Block(copy.attrs))
    <2>1. Block(copy.attrs) = E[i].meta
      BY <1>3, <1>4 DEF Block
    <2> QED
      BY <2>1, <1>3, <1>5 DEF FromJsonOk
  <1>10. /\ TensorStoreAccepts(copy) /\ FromJsonOk(Block(copy.attrs))
         /\ Blank(copy) = Blank(arrays[i]) /\ copy.attrs.dims = arrays[i].attrs.dims
         /\ copy.attrs.longName = Or(mem[i].longName, "")
         /\ doc[i].nested = Absent => FromVariableJson(copy.attrs.meta) = OpenVariable(doc[i]).user
    BY <1>1, <1>3, <1>4, <1>5, <1>7, <1>8, <1>9
  <1> QED
    BY <1>10 DEF copy, E

\* What to_json returns can be created from, in either format, and gives the
\* arrays again with their long names, dimensions and attributes: for a dataset
\* whose JSON did not give one name to two variables. (With a name given twice,
\* only one of the two has its dimensions checked, see ShapesDeclared.)
THEOREM CopyIsFaithfulCorrect == Spec /\ NamesDiffer => CopyIsFaithful
  <1> DEFINE Faithful ==
        LET copy == Construct(version, out'.json)
        IN  /\ \A v \in Versions : Construct(v, out'.json).outcome = "ok"
            /\ \A i \in DOMAIN arrays :
                 /\ TensorStoreAccepts(copy.specs[i]) /\ FromJsonOk(Block(copy.specs[i].attrs))
                 /\ Blank(copy.specs[i]) = Blank(arrays[i])
                 /\ copy.specs[i].attrs.dims = arrays[i].attrs.dims
                 /\ copy.specs[i].attrs.longName = Or(mem[i].longName, "")
                 /\ doc[i].nested = Absent =>
                      FromVariableJson(copy.specs[i].attrs.meta) = OpenVariable(doc[i]).user
  <1>1. JsonInv /\ CopyReady /\ ToCreationJson /\ out'.ok => Faithful
    <2> SUFFICES ASSUME JsonInv, CopyReady, ToCreationJson, out'.ok PROVE Faithful
      OBVIOUS
    <2> DEFINE E == Entries
    <2>1. phase = "open" /\ validate_dataset(normalize_legacy_compressors(E)) /\ out'.json = E
      <3>1. phase = "open"
            /\ out' = [ok   |-> header = Absent /\ validate_dataset(normalize_legacy_compressors(E)),
                       json |-> IF header = Absent THEN E ELSE <<>>]
        BY DEF ToCreationJson
      <3> HIDE DEF E
      <3>2. header = Absent /\ validate_dataset(normalize_legacy_compressors(E))
        BY <3>1
      <3> QED
        BY <3>1, <3>2
    <2>2. Copies(Origin, E) /\ DOMAIN E = DOMAIN arrays
      BY <2>1, EntriesCopied
    <2>3. validate_dataset(E)
      BY <2>1, <2>2, CopiesNormal
    <2>4. /\ GetDimensionsOk(Origin) /\ \A i \in DOMAIN Origin : Describable(Origin[i])
          /\ DimsSized(Origin)
      BY <2>1 DEF CopyReady, Described, DimsSized, Describable
    <2>5. \A v : /\ Construct(v, E).outcome = "ok"
                 /\ Construct(v, E).specs = [i \in DOMAIN E |-> from_json_to_spec(v, E, E[i])]
      BY <2>2, <2>3, <2>4, CopyConstructed
    <2> DEFINE specs == Construct(version, E).specs
    <2>6. \A i \in DOMAIN arrays : specs[i] = from_json_to_spec(version, E, E[i])
      BY <2>2, <2>5
    <2> HIDE DEF specs
    <2>7. \A i \in DOMAIN arrays :
            /\ TensorStoreAccepts(specs[i]) /\ FromJsonOk(Block(specs[i].attrs))
            /\ Blank(specs[i]) = Blank(arrays[i])
            /\ specs[i].attrs.dims = arrays[i].attrs.dims
            /\ specs[i].attrs.longName = Or(mem[i].longName, "")
            /\ doc[i].nested = Absent =>
                 FromVariableJson(specs[i].attrs.meta) = OpenVariable(doc[i]).user
      BY <2>1, <2>3, <2>6, CopyOfArray
    <2> QED
      BY <2>1, <2>5, <2>7 DEF specs
  <1>2. JsonInv /\ CopyReady => [ToCreationJson /\ out'.ok => Faithful]_vars
    BY <1>1
  <1> QED
    BY <1>2, ReadyAlways, JsonInvariant, PTL DEF CopyIsFaithful
=============================================================================
