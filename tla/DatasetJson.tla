---------------------------- MODULE DatasetJson ----------------------------
(***************************************************************************)
(* A dataset and its JSON: constructed from a JSON (Dataset::from_json),   *)
(* its attributes written by the creation, changed by the user, published  *)
(* by commits, read again by openings, and serialised for a copy           *)
(* (Dataset::to_json). Each place writes the attributes in another shape:  *)
(*   in the JSON     under "metadata", with the chunk grid                 *)
(*   a creation      at the top level, without the chunk grid              *)
(*   a V2 commit     under "metadata", with the chunk grid if there is one *)
(*   a V3 commit     at the top level, without the chunk grid              *)
(* The calls follow one another and no store operation fails; what happens *)
(* inside a commit and a creation is in MetadataCommit and DatasetCreate.  *)
(***************************************************************************)
EXTENDS HeaderVariable

CONSTANTS
    Jsons,          \* JSONs to create a dataset from
    ForeignDocs,    \* attributes other programs stored for the one variable of a dataset
    HeaderDocs,     \* and for its header variable: sets of <<root, attributes>>
    UpdateBlocks,   \* what the user gives UpdateAttributes
    HeaderUpdates,  \* and the UpdateAttributes of a header variable
    MaxOps          \* bound: calls after the creation

\* An array by another program has two elements.
ASSUME BoundsAssumption == MaxOps \in Nat /\ MaxSize \in Nat /\ MaxSize >= 2

VARIABLES
    version,    \* the Zarr format
    json,       \* the JSON the caller holds: Construct changes it in place
    phase,      \* where the dataset is
    arrays,     \* its arrays on the store, in the order of the JSON
    doc,        \* the attributes on the store of each
    mem,        \* the Variable in the caller's hand
    dirty,      \* was_updated(); a commit does not clear it (see MetadataCommit)
    header,     \* its header variable, if it has one
    out,        \* the result of to_json, if that was the last call
    calls,      \* calls that change something, since the creation or the first opening
    pending,    \* updates no commit has written
    committed   \* whether there was a commit

vars == <<version, json, phase, arrays, doc, mem, dirty, header, out, calls, pending, committed>>

Phases == {"json", "constructed", "open", "refused", "throws"}

-----------------------------------------------------------------------------
(* Attributes on the store: [longName, coords, top, nested]; top are the   *)
(* keys of a block at the top level, nested the block under "metadata".    *)

HasKey(block) == block.stats # Absent \/ block.units # Absent \/ block.attributes # Absent

\* (mutant: the chunk grid is written with the rest)
WriteVariableAttributesGrid(attrs) ==
    [longName |-> IF attrs.longName = "" THEN Absent ELSE attrs.longName,
     coords   |-> IF attrs.coords = <<"">> THEN Absent ELSE attrs.coords,
     top      |-> EmptyBlock,
     nested   |-> IF Present(attrs.meta) THEN attrs.meta ELSE Absent]

\* v2::WriteVariableAttributes, v3::WriteVariableAttributes
WriteVariableAttributes(attrs) ==
    [longName |-> IF attrs.longName = "" THEN Absent ELSE attrs.longName,
     coords   |-> IF attrs.coords = <<"">> THEN Absent ELSE attrs.coords,
     top      |-> IF Present(attrs.meta) THEN [attrs.meta EXCEPT !.grid = Absent]
                                         ELSE EmptyBlock,
     nested   |-> Absent]

\* from_json: the user's attributes go to UserAttributes, the grid stays.
InMemory(longName, coords, hasMeta, block) ==
    [longName |-> IF longName \in {"", Null} THEN Absent ELSE longName,
     coords   |-> coords,
     hasMeta  |-> hasMeta,
     grid     |-> block.grid,
     user     |-> FromVariableJson(block)]

\* (mutant: attributes already in place win over those at the top level)
StoredBlockNested(d) ==
    LET base == Or(d.nested, EmptyBlock)
    IN  [stats |-> base.stats, units |-> base.units, attributes |-> base.attributes,
         grid |-> base.grid]

\* make_variable moves the three keys from the top level into "metadata".
StoredBlock(d) ==
    LET base == Or(d.nested, EmptyBlock)
    IN  [stats      |-> Or(d.top.stats, base.stats),
         units      |-> Or(d.top.units, base.units),
         attributes |-> Or(d.top.attributes, base.attributes),
         grid       |-> base.grid]

HasMeta(d) == d.nested # Absent \/ HasKey(d.top)

OpenVariable(d) == InMemory(d.longName, d.coords, HasMeta(d), StoredBlock(d))

\* getMetadata: merge_patch leaves out what is null.
GetMetadata(v) ==
    LET user == ToJson(v.user)
    IN  IF ~HasKey(user) /\ ~v.hasMeta THEN Absent
        ELSE [user EXCEPT !.grid = v.grid,
                          !.attributes = IF @ = Absent THEN @ ELSE {a \in @ : a[2] # Null}]

PublishMetadata(ver, v) ==
    LET meta == GetMetadata(v)
    IN  [longName |-> v.longName,
         coords   |-> v.coords,
         top      |-> IF ver = "V3" /\ meta # Absent THEN [meta EXCEPT !.grid = Absent]
                                                     ELSE EmptyBlock,
         nested   |-> IF ver = "V2" THEN meta ELSE Absent]

\* What may be on the store of a variable.
StoredAttributesType ==
    [longName : Maybe(STRING), coords : Maybe(Seq(STRING)),
     top : MetadataBlock, nested : {Absent} \cup MetadataBlock]

\* A dataset by another program is one that an opening accepts.
ASSUME InputsAssumption ==
    /\ Jsons \subseteq DatasetJsons
    /\ UpdateBlocks \subseteq MetadataBlock
    /\ ForeignDocs \subseteq StoredAttributesType
    /\ \A d \in ForeignDocs : FromJsonOk(StoredBlock(d))

-----------------------------------------------------------------------------
(* A dataset by another program: a dimension coordinate, and perhaps a     *)
(* header variable. What of a header is kept: what an opening found first  *)
(* (labels) and what the last commit was to write (saved).                 *)

ForeignArray(ver) ==
    [name |-> "x", fields |-> FALSE, codes |-> <<ToZarrDtype(ver, "float32")>>, codec |-> Absent,
     shape |-> <<2>>, chunks |-> <<2>>,
     fill |-> set_fill_value(ver, [fields |-> FALSE, formats |-> <<"float32">>]),
     attrs |-> [dims |-> <<"x">>, longName |-> "", coords |-> Absent, meta |-> Absent]]

OpenedHeader(root, attrs) ==
    [root |-> root, stored |-> [file |-> attrs, index |-> attrs], mem |-> FromSpec(root, attrs),
     modified |-> FALSE, labels |-> FromSpec(root, attrs).labels, saved |-> attrs.user]

Init ==
    /\ version \in Versions
    /\ dirty = {} /\ pending = {} /\ out = Absent /\ calls = 0 /\ committed = FALSE
    /\ \/ /\ json \in Jsons /\ phase = "json"
          /\ arrays = <<>> /\ doc = <<>> /\ mem = <<>> /\ header = Absent
       \/ \E d \in ForeignDocs :
            /\ json = <<>> /\ phase = "open" /\ arrays = <<ForeignArray(version)>>
            /\ doc = <<d>> /\ mem = <<OpenVariable(d)>>
            /\ \/ header = Absent
               \/ \E h \in HeaderDocs :
                     /\ version = "V2" => h[1] = Absent
                     /\ header = OpenedHeader(h[1], h[2])

-----------------------------------------------------------------------------
(* Construct and the creation *)

ConstructSpecs ==
    LET result == Construct(version, json)
    IN  /\ phase = "json"
        /\ phase' = CASE result.outcome = "ok"    -> "constructed"
                      [] result.outcome = "error" -> "refused"
                      [] OTHER                    -> "throws"
        /\ json' = result.json /\ arrays' = result.specs
        /\ UNCHANGED <<version, doc, mem, dirty, header, out, calls, pending, committed>>

\* TensorStore creates arrays with a regular grid of the rank of the shape.
TensorStoreAccepts(array) ==
    /\ IF Present(array.attrs.meta) /\ Present(array.attrs.meta.grid)
       THEN array.attrs.meta.grid.regular ELSE TRUE
    /\ Len(array.chunks) = Len(array.shape)
    /\ \A k \in DOMAIN array.chunks : array.chunks[k] > 0

\* A null where the code takes an object or a string.
AttributesThrow(ver, attrs) == attrs.longName = Null \/ (ver = "V2" /\ attrs.meta = Null)

Block(attrs) == IF Present(attrs.meta) THEN attrs.meta ELSE EmptyBlock

Create ==
    /\ phase = "constructed"
    /\ \/ /\ \E i \in DOMAIN arrays : AttributesThrow(version, arrays[i].attrs)
          /\ phase' = "throws" /\ UNCHANGED <<doc, mem>>
       \/ /\ \A i \in DOMAIN arrays : ~AttributesThrow(version, arrays[i].attrs)
          /\ \E i \in DOMAIN arrays : ~TensorStoreAccepts(arrays[i]) \/ ~FromJsonOk(Block(arrays[i].attrs))
          /\ phase' = "refused" /\ UNCHANGED <<doc, mem>>
       \/ /\ \A i \in DOMAIN arrays :
                /\ ~AttributesThrow(version, arrays[i].attrs)
                /\ TensorStoreAccepts(arrays[i]) /\ FromJsonOk(Block(arrays[i].attrs))
          /\ phase' = "open"
          /\ doc' = [i \in DOMAIN arrays |-> WriteVariableAttributes(arrays[i].attrs)]
          /\ mem' = [i \in DOMAIN arrays |->
                        InMemory(arrays[i].attrs.longName, arrays[i].attrs.coords,
                                 arrays[i].attrs.meta # Absent, Block(arrays[i].attrs))]
    /\ UNCHANGED <<version, json, arrays, dirty, header, out, calls, pending, committed>>

-----------------------------------------------------------------------------
(* Calls on the open dataset *)

Call == phase = "open" /\ calls < MaxOps /\ calls' = calls + 1 /\ out' = Absent

UpdateAttributes(i, isFloat, block) ==
    /\ Call
    /\ FromJsonOk(block)
    /\ mem' = [mem EXCEPT ![i].user = FromJson(isFloat, block)]
    /\ dirty' = dirty \cup {i} /\ pending' = pending \cup {i}
    /\ UNCHANGED <<version, json, phase, arrays, doc, header, committed>>

\* ToJson()["attributes"] is all a header variable publishes.
UpdateHeader(user) ==
    /\ Call
    /\ header # Absent
    /\ header' = [header EXCEPT !.mem.user = user, !.modified = TRUE]
    /\ UNCHANGED <<version, json, phase, arrays, doc, mem, dirty, pending, committed>>

HeaderModified == header # Absent /\ header.modified

CommitMetadata ==
    /\ Call
    /\ dirty # {} \/ HeaderModified
    /\ doc' = [i \in DOMAIN doc |-> IF i \in dirty THEN PublishMetadata(version, mem[i]) ELSE doc[i]]
    /\ \/ header = Absent /\ header' = Absent
       \/ /\ header # Absent
          /\ \E s \in Committed(version, header.mem, header.modified, header.stored) :
                header' = [header EXCEPT !.stored = s, !.saved = header.mem.user]
    /\ pending' = {} /\ committed' = TRUE
    /\ UNCHANGED <<version, json, phase, arrays, mem, dirty>>

\* Opening by path, by the same process or another; updates not committed are gone.
Reopen ==
    /\ Call
    /\ \A i \in DOMAIN doc : FromJsonOk(StoredBlock(doc[i]))
    /\ mem' = [i \in DOMAIN doc |-> OpenVariable(doc[i])]
    /\ header' = IF header = Absent THEN Absent
                 ELSE [header EXCEPT !.mem = FromSpec(header.root, StoredHeader(version, header.stored)),
                                     !.modified = FALSE]
    /\ dirty' = {} /\ pending' = {}
    /\ UNCHANGED <<version, json, phase, arrays, doc, committed>>

\* ReadStoredAttributes looks at the top level.
StoredAttributes(d) ==
    LET Kept(value) == IF value = Null THEN Absent ELSE value
    IN  [stats |-> Kept(d.top.stats), units |-> Kept(d.top.units),
         attributes |-> Kept(d.top.attributes), grid |-> Absent]

Entries ==
    [i \in DOMAIN arrays |->
        VariableToCreationJson(version, arrays[i], mem[i].longName, mem[i].coords,
                               StoredAttributes(doc[i]))]

\* A header variable has no place in the JSON.
ToCreationJson ==
    /\ phase = "open"
    /\ out' = [ok   |-> header = Absent /\ validate_dataset(normalize_legacy_compressors(Entries)),
               json |-> IF header = Absent THEN Entries ELSE <<>>]
    /\ UNCHANGED <<version, json, phase, arrays, doc, mem, dirty, header, calls, pending, committed>>

Next ==
    \/ ConstructSpecs \/ Create
    \/ \E i \in DOMAIN mem, isFloat \in BOOLEAN, b \in UpdateBlocks : UpdateAttributes(i, isFloat, b)
    \/ \E user \in HeaderUpdates : UpdateHeader(user)
    \/ CommitMetadata \/ Reopen \/ ToCreationJson

Spec == Init /\ [][Next]_vars

-----------------------------------------------------------------------------
(* Properties *)

UserTypeOK(user) ==
    /\ DOMAIN user = {"stats", "units", "attributes"}
    /\ \A i \in DOMAIN user.stats : user.stats[i].whole /\ ~user.stats[i].text

\* Every array has its attributes and a Variable; the statistics in hand are parsed.
TypeOK ==
    /\ version \in Versions /\ phase \in Phases /\ calls \in 0..MaxOps
    /\ phase = "open" => DOMAIN doc = DOMAIN arrays /\ DOMAIN mem = DOMAIN arrays
    /\ dirty \subseteq DOMAIN mem /\ pending \subseteq dirty
    /\ \A i \in DOMAIN mem : UserTypeOK(mem[i].user)

\* The two formats take the same JSONs, and mean the same arrays by them; and
\* a JSON already changed by one construction means what it meant before.
VersionsAgree ==
    phase = "json" =>
        LET two   == Construct("V2", json)
            three == Construct("V3", two.json)
        IN  /\ three.outcome = two.outcome /\ three.json = two.json
            /\ \A i \in DOMAIN two.specs :
                  /\ DataTypeFromSpec("V2", two.specs[i]) = DataTypeFromSpec("V3", three.specs[i])
                  /\ CompressorFromSpec(two.specs[i].codec) = CompressorFromSpec(three.specs[i].codec)
                  /\ two.specs[i].shape = three.specs[i].shape
                  /\ two.specs[i].attrs = three.specs[i].attrs

NamesDiffer == \A i, j \in DOMAIN json : json[i].name = json[j].name => i = j

\* Every dimension of every array has the size of the dimension coordinate of
\* that name, and the size the JSON gives it, wherever it gives one. (Of two
\* variables with one name only one is looked at: sizes may then be zero.)
ShapesDeclared ==
    phase = "constructed" /\ NamesDiffer =>
        \A i \in DOMAIN arrays :
            /\ json[i].dims.objects => arrays[i].shape = json[i].dims.sizes
            /\ \A k \in DOMAIN arrays[i].shape :
                 /\ arrays[i].shape[k] > 0
                 /\ \E j \in DOMAIN arrays :
                       /\ arrays[j].name = json[i].dims.names[k]
                       /\ arrays[j].shape = <<arrays[i].shape[k]>>

\* Up to a commit a variable can be opened with the specification it was
\* created from: OpenVariable compares what is stored with what is supplied.
Agrees(stored, supplied) == stored = Absent \/ stored = supplied

OpensBySpec ==
    phase = "open" /\ json # <<>> /\ ~committed =>
        \A i \in DOMAIN arrays :
            LET stored == StoredBlock(doc[i])
                given  == Block(arrays[i].attrs)
            IN  /\ Agrees(doc[i].longName, arrays[i].attrs.longName)
                /\ Agrees(doc[i].coords, arrays[i].attrs.coords)
                /\ stored.grid = Absent
                /\ Agrees(stored.stats, given.stats) /\ Agrees(stored.units, given.units)
                /\ Agrees(stored.attributes, given.attributes)

Blank(array) == [array EXCEPT !.attrs = Absent]

\* What to_json returns can be created from, in either format, and gives the
\* arrays again, with the long names and the dimensions; and with the user's
\* attributes, where they are at the top level of what is stored.
CopyIsFaithful ==
    [][ToCreationJson /\ out'.ok =>
        LET copy == Construct(version, out'.json)
        IN  /\ \A v \in Versions : Construct(v, out'.json).outcome = "ok"
            /\ \A i \in DOMAIN arrays :
                 /\ TensorStoreAccepts(copy.specs[i]) /\ FromJsonOk(Block(copy.specs[i].attrs))
                 /\ Blank(copy.specs[i]) = Blank(arrays[i])
                 /\ copy.specs[i].attrs.dims = arrays[i].attrs.dims
                 /\ copy.specs[i].attrs.longName = Or(mem[i].longName, "")
                 /\ doc[i].nested = Absent =>
                      FromVariableJson(copy.specs[i].attrs.meta) = OpenVariable(doc[i]).user]_vars

\* What a commit and a reopening may lose: the decimals of a single histogram,
\* nulls, and an empty list of coordinates.
Written(a) ==
    [a EXCEPT !.user.stats = IF Len(@) = 1 THEN <<Binned(FALSE, @[1])>> ELSE @,
              !.user.attributes = {pair \in @ : pair[2] # Null}]

\* As a caller sees a Variable: without the chunk grid.
Attributes(v) ==
    [longName |-> v.longName, user |-> v.user,
     coords |-> IF v.coords = <<"">> THEN Absent ELSE v.coords]

Store == INSTANCE AttributeStore WITH
    hand    <- [i \in DOMAIN mem |-> Attributes(mem[i])],
    durable <- [i \in DOMAIN doc |-> Attributes(OpenVariable(doc[i]))]

\* Whichever of the shapes the attributes are written in, they are what an
\* opening finds: creation, commit and opening implement AttributeStore.
AttributesAreStored == Store!Spec

DimensionsRecorded == version = "V2" \/ header.root # Absent \/ header.mem.original.arrayDims # Absent

\* Whichever write of a commit comes last, a header variable keeps its
\* dimensions and the user's attributes on the store. (Its long name it keeps
\* only in some orders; dimensions recorded under dimension_names alone may go.)
HeaderKeeps ==
    header # Absent =>
        LET found == FromSpec(header.root, StoredHeader(version, header.stored))
        IN  /\ found.user = header.saved
            /\ DimensionsRecorded => found.labels = header.labels

\* Of the code: a histogram "can only be an integer if no decimal values are
\* detected anywhere inside of it" (stats.h:872).
HistogramKeepsDecimals ==
    phase = "open" =>
        \A i \in DOMAIN doc :
            LET stored == Items(StoredBlock(doc[i]).stats)
                found  == OpenVariable(doc[i]).user.stats
            IN  \A k \in DOMAIN stored :
                  (\E b \in DOMAIN stored[k].bins : stored[k].bins[b] % 2 = 1)
                    => found[k].bins = stored[k].bins
=============================================================================
