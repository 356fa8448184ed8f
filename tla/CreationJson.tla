---------------------------- MODULE CreationJson ----------------------------
(***************************************************************************)
(* The JSON a dataset is created from: the check of it                     *)
(* (dataset_validator.h, dataset_schema.h), the factory that turns it into *)
(* the specifications of the arrays (dataset_factory.h), and the way back  *)
(* from an array to its entry in the JSON (dataset.h).                     *)
(*                                                                         *)
(* A JSON is a sequence of variables                                       *)
(*   name, longName   strings; longName may be Absent or Null              *)
(*   type             [fields, formats]: one format, or those of a struct  *)
(*   dims             [objects, names, sizes]: with sizes, or names only   *)
(*   compressor       Absent, Null or a record of its keys; shuffle is     *)
(*                    [legacy, mode] with mode 0, 1 or 2                   *)
(*   coords           Absent, Null or [objects, names]                     *)
(*   meta             Absent, Null or a block (UserAttributes)             *)
(* The metadata of the dataset itself is left out: it is copied.           *)
(***************************************************************************)
EXTENDS UserAttributes, FiniteSets, Functions, SequencesExt

CONSTANT MaxSize     \* constants::kMaxSize

Shuffle == [legacy : BOOLEAN, mode : 0..2]

Compressor ==
    [name : Maybe(STRING), cname : Maybe(STRING), algorithm : Maybe(STRING), clevel : Maybe(Int),
     level : Maybe(Int), shuffle : Maybe(Shuffle), blocksize : Maybe(Int),
     mode : Maybe(STRING)]

VariableJson ==
    [name : STRING, longName : Maybe(STRING), type : [fields : BOOLEAN, formats : Seq(STRING)],
     dims : [objects : BOOLEAN, names : Seq(STRING), sizes : Seq(Int)],
     compressor : Maybe(Compressor), coords : Maybe([objects : BOOLEAN, names : Seq(STRING)]),
     meta : Maybe(MetadataBlock)]

\* Sizes are given for all dimensions or for none.
DatasetJsons ==
    {json \in Seq(VariableJson) : \A i \in DOMAIN json :
        Len(json[i].dims.sizes) = IF json[i].dims.objects THEN Len(json[i].dims.names) ELSE 0}

Versions == {"V2", "V3"}

-----------------------------------------------------------------------------
(* Data types *)

V2Code == [int8 |-> "<i1", int16 |-> "<i2", int32 |-> "<i4", int64 |-> "<i8",
           uint8 |-> "<u1", uint16 |-> "<u2", uint32 |-> "<u4", uint64 |-> "<u8",
           float16 |-> "<f2", float32 |-> "<f4", float64 |-> "<f8", bool |-> "|b1",
           complex64 |-> "<c8", complex128 |-> "<c16"]

Supported == DOMAIN V2Code

ToZarrDtype(version, format) == IF version = "V2" THEN V2Code[format] ELSE format

\* TensorStore writes a type of one byte without a byte order.
Stored(code) == CASE code = "<i1" -> "|i1" [] code = "<u1" -> "|u1" [] OTHER -> code

FromZarrV2Dtype(code) ==
    CHOOSE f \in Supported : code \in {V2Code[f], Stored(V2Code[f])}

\* The schema knows more than the factory: wider numbers, and fixed-length text.
ScalarType == Supported \cup {"float128", "complex256", "V240"}
FieldFormats == ScalarType \cup {"S8", "U4"}

ByteSize == [int8 |-> 1, int16 |-> 2, int32 |-> 4, int64 |-> 8,
             uint8 |-> 1, uint16 |-> 2, uint32 |-> 4, uint64 |-> 8,
             float16 |-> 2, float32 |-> 4, float64 |-> 8, bool |-> 1,
             complex64 |-> 8, complex128 |-> 16]

ScalarFill(version, format) ==
    CASE format \in {"float16", "float32", "float64"} -> "NaN"
      [] format \in {"complex64", "complex128"}       -> "[NaN, NaN]"
      [] format = "bool"                              -> IF version = "V3" THEN "false" ELSE "null"
      [] OTHER                                        -> "max"

\* The number of zero bytes is a uint16_t.
set_fill_value(version, type) ==
    IF type.fields
    THEN [value |-> "zeros",
          bytes |-> FoldSeq(LAMBDA f, n : (n + ByteSize[f]) % 65536, 0, type.formats)]
    ELSE [value |-> ScalarFill(version, type.formats[1]), bytes |-> 0]

-----------------------------------------------------------------------------
(* Compressors *)

NoKeys == [name |-> Absent, cname |-> Absent, algorithm |-> Absent, clevel |-> Absent,
           level |-> Absent, shuffle |-> Absent, blocksize |-> Absent, mode |-> Absent]

Or(value, default) == IF value = Absent THEN default ELSE value

\* algorithm, level and the numbers of shuffle, as releases before the schema wrote them.
normalize_legacy_blosc(c) ==
    IF ~Present(c) \/ c.name \notin {Absent, "blosc"} THEN c
    ELSE [c EXCEPT !.cname  = Or(@, c.algorithm),
                   !.clevel = Or(@, c.level),
                   !.algorithm = Absent, !.level = Absent,
                   !.shuffle = IF Present(@) THEN [@ EXCEPT !.legacy = FALSE] ELSE @]

BloscCname == {"lz4", "lz4hc", "blosclz", "snappy", "zlib", "zstd"}

\* The configuration of Blosc in the specification of an array, or Absent.
Codec == [cname : BloscCname, clevel : 0..9, shuffle : Shuffle, blocksize : Maybe(Int)]

\* The compressor that is read back from it.
BloscCompressor ==
    [name : {"blosc"}, cname : BloscCname, algorithm : {Absent}, clevel : 0..9, level : {Absent},
     shuffle : Shuffle, blocksize : Maybe(Int), mode : {Absent}]

ASSUME CodecAssumption ==
    \A none \in {Absent, Null} : none \notin Codec /\ none \notin Shuffle /\ none \notin BloscCompressor

ZFPMode    == {"fixed_rate", "fixed_precision", "fixed_accuracy", "reversible"}

Blosc(c) ==
    /\ c.algorithm = Absent /\ c.level = Absent /\ c.mode = Absent
    /\ c.cname \in BloscCname \cup {Absent}
    /\ c.clevel = Absent \/ c.clevel \in 0..9
    /\ Present(c.shuffle) => ~c.shuffle.legacy

\* The name is any string, in both.
ZFP(c) == c.mode \in ZFPMode /\ [c EXCEPT !.name = Absent, !.mode = Absent] = NoKeys

ValidCompressor(c) == c \in {Absent, Null} \/ Blosc(c) \/ ZFP(c)

\* apply_v2_compressor, apply_v3_codecs: V2 wants the shuffle as a number.
CompressorOk(c) == c = Absent \/ (c # Null /\ c.name = "blosc")

transform_compressor(version, c) ==
    IF c = Absent THEN Absent
    ELSE [cname     |-> Or(c.cname, "lz4"),
          clevel    |-> Or(c.clevel, 5),
          shuffle   |-> [legacy |-> version = "V2",
                         mode |-> IF Present(c.shuffle) THEN c.shuffle.mode ELSE 1],
          blocksize |-> Or(c.blocksize, 0)]

\* (mutant: the number of a V2 shuffle is handed on)
BloscCompressorFromConfigRaw(codec) ==
    [NoKeys EXCEPT !.name = "blosc", !.cname = codec.cname, !.clevel = codec.clevel,
                   !.shuffle = codec.shuffle, !.blocksize = codec.blocksize]

\* (mutant: the block size is left to its default)
BloscCompressorFromConfigUnblocked(codec) ==
    [NoKeys EXCEPT !.name = "blosc", !.cname = codec.cname, !.clevel = codec.clevel,
                   !.shuffle = [codec.shuffle EXCEPT !.legacy = FALSE]]

BloscCompressorFromConfig(codec) ==
    [NoKeys EXCEPT !.name = "blosc", !.cname = codec.cname, !.clevel = codec.clevel,
                   !.shuffle = [codec.shuffle EXCEPT !.legacy = FALSE],
                   !.blocksize = codec.blocksize]

CompressorFromSpec(codec) == IF codec = Absent THEN Absent ELSE BloscCompressorFromConfig(codec)

-----------------------------------------------------------------------------
(* validate_dataset *)

normalize_legacy_compressors(json) ==
    [i \in DOMAIN json |-> [json[i] EXCEPT !.compressor = normalize_legacy_blosc(@)]]

NamedDimensions(dims) == dims.objects => \A i \in DOMAIN dims.sizes : dims.sizes[i] > 0

ValidVariable(v) ==
    /\ Range(v.type.formats) \subseteq FieldFormats
    /\ NamedDimensions(v.dims)
    /\ ValidCompressor(v.compressor)
    /\ Present(v.meta) => VariableMetadata(v.meta)

validate_schema(json) == \A i \in DOMAIN json : ValidVariable(json[i])

IsDimensionCoordinate(v) == v.dims.objects /\ v.dims.names = <<v.name>>

VariableNames(json)        == {json[i].name : i \in DOMAIN json}
DimensionCoordinates(json) == {json[i].name : i \in {j \in DOMAIN json : IsDimensionCoordinate(json[j])}}

DimensionsKnown(json, v) == Range(v.dims.names) \subseteq DimensionCoordinates(json)

\* An object is no name of a variable.
CoordinatesKnown(json, v) ==
    Present(v.coords) =>
        \/ v.coords.names = <<>>
        \/ ~v.coords.objects /\ Range(v.coords.names) \subseteq VariableNames(json)

\* A variable that has the name of a dimension coordinate is not looked at.
validate_coordinates_present(json) ==
    \A i \in DOMAIN json :
        \/ json[i].name \in DimensionCoordinates(json)
        \/ DimensionsKnown(json, json[i]) /\ CoordinatesKnown(json, json[i])

validate_dataset(json) == validate_schema(json) /\ validate_coordinates_present(json)

-----------------------------------------------------------------------------
(* Construct *)

\* <<dimension, size>> wherever a size is given.
DeclaredSizes(json) ==
    UNION {{<<json[i].dims.names[k], json[i].dims.sizes[k]>> : k \in DOMAIN json[i].dims.sizes} :
           i \in DOMAIN json}

\* (mutant: the last size wins)
GetDimensionsOkLast(json) == \A d \in DeclaredSizes(json) : d[2] <= MaxSize

GetDimensionsOk(json) ==
    /\ \A d \in DeclaredSizes(json) : d[2] <= MaxSize
    /\ \A d, e \in DeclaredSizes(json) : d[1] = e[1] => d[2] = e[2]

\* dimensionMap[name] inserts 0 for a name it does not have.
SizeOf(json, name) ==
    IF \E d \in DeclaredSizes(json) : d[1] = name
    THEN (CHOOSE d \in DeclaredSizes(json) : d[1] = name)[2] ELSE 0

transform_shape(json, v) == [k \in DOMAIN v.dims.names |-> SizeOf(json, v.dims.names[k])]

HasGrid(v) == Present(v.meta) /\ v.meta.grid # Absent

\* Not in a null: configuration is looked up in what cannot hold it.
ChunksThrow(v) == HasGrid(v) /\ v.meta.grid = Null

transform_chunks(json, v) ==
    IF HasGrid(v) THEN v.meta.grid.shape ELSE transform_shape(json, v)

\* The names are joined with a space after each but the last one listed;
\* dimensions are left out. Seen as Dataset::Open splits the string again:
\* an empty last name where it ends in a space, <<"">> where it is empty.
transform_coordinates(v) ==
    LET listed == IF Present(v.coords) THEN v.coords.names ELSE <<>>
        kept   == SelectSeq(listed, LAMBDA c : c \notin Range(v.dims.names))
    IN  IF kept = <<>> THEN <<"">>
        ELSE IF Last(listed) \in Range(v.dims.names) THEN Append(kept, "") ELSE kept

CoordinatesThrow(v) == Present(v.coords) /\ v.coords.objects /\ v.coords.names # <<>>

transform_attributes(v) ==
    [dims     |-> v.dims.names,
     longName |-> Or(v.longName, ""),
     coords   |-> IF v.coords = Absent THEN Absent ELSE transform_coordinates(v),
     meta     |-> v.meta]

from_json_to_spec(version, json, v) ==
    [name   |-> v.name,
     fields |-> v.type.fields,
     codes  |-> [f \in DOMAIN v.type.formats |-> ToZarrDtype(version, v.type.formats[f])],
     codec  |-> transform_compressor(version, v.compressor),
     shape  |-> transform_shape(json, v),
     chunks |-> transform_chunks(json, v),
     fill   |-> set_fill_value(version, v.type),
     attrs  |-> transform_attributes(v)]

SpecRefused(v) == ~(Range(v.type.formats) \subseteq Supported) \/ ~CompressorOk(v.compressor)
SpecThrows(v)  == ~SpecRefused(v) /\ (ChunksThrow(v) \/ CoordinatesThrow(v))

\* The first variable that has no specification ends the construction.
SpecsOutcome(json) ==
    LET bad == {i \in DOMAIN json : SpecRefused(json[i]) \/ SpecThrows(json[i])}
    IN  IF bad = {} THEN "ok"
        ELSE IF SpecRefused(json[CHOOSE i \in bad : \A j \in bad : i <= j]) THEN "error" ELSE "throws"

\* json is changed in place: given is what the caller holds, json what is left of it.
Construct(version, given) ==
    LET json    == normalize_legacy_compressors(given)
        outcome == IF validate_dataset(json) /\ GetDimensionsOk(json)
                   THEN SpecsOutcome(json) ELSE "error"
    IN  [outcome |-> outcome,
         json    |-> json,
         specs   |-> IF outcome = "ok"
                     THEN [i \in DOMAIN json |-> from_json_to_spec(version, json, json[i])]
                     ELSE <<>>]

-----------------------------------------------------------------------------
(* From a stored array back to its entry: VariableToCreationJson *)

DataTypeFromSpec(version, array) ==
    [fields  |-> array.fields,
     formats |-> [f \in DOMAIN array.codes |->
                    IF version = "V2" THEN FromZarrV2Dtype(Stored(array.codes[f]))
                                      ELSE array.codes[f]]]

DimensionsFromVariable(array) ==
    IF array.attrs.dims = <<array.name>>
    THEN [objects |-> TRUE, names |-> array.attrs.dims, sizes |-> array.shape]
    ELSE [objects |-> FALSE, names |-> array.attrs.dims, sizes |-> <<>>]

\* long_name, coordinates and the three user attributes are those in hand.
VariableToCreationJson(version, array, longName, coordinates, block) ==
    [name       |-> array.name,
     type       |-> DataTypeFromSpec(version, array),
     dims       |-> DimensionsFromVariable(array),
     longName   |-> longName,
     compressor |-> CompressorFromSpec(array.codec),
     coords     |-> IF coordinates = Absent THEN Absent
                    ELSE [objects |-> FALSE, names |-> coordinates],
     meta       |-> [block EXCEPT !.grid = [regular |-> TRUE, shape |-> array.chunks]]]
=============================================================================
