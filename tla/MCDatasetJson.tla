--------------------------- MODULE MCDatasetJson ---------------------------
(* A line x, a variable data along it, and one aspect of data varied at a time. *)
EXTENDS DatasetJson

Scalar(f) == [fields |-> FALSE, formats |-> <<f>>]
Struct(s) == [fields |-> TRUE, formats |-> s]
Names(s)  == [objects |-> FALSE, names |-> s, sizes |-> <<>>]
Sized(s, n) == [objects |-> TRUE, names |-> s, sizes |-> n]

Plain(name, type, dims) ==
    [name |-> name, type |-> type, dims |-> dims, compressor |-> Absent,
     longName |-> Absent, coords |-> Absent, meta |-> Absent]

X    == Plain("x", Scalar("int32"), Sized(<<"x">>, <<2>>))
Lat  == Plain("lat", Scalar("float64"), Names(<<"x">>))
Data == Plain("data", Scalar("float32"), Names(<<"x">>))

With(data) == <<X, data>>

Types == {Scalar(f) : f \in {"int8", "bool", "complex128", "float128", "S8"}}
           \cup {Struct(<<"uint8", "float32">>), Struct(<<"float16", "U4">>)}

BloscOnly == [NoKeys EXCEPT !.name = "blosc"]
Mode(legacy, m) == [legacy |-> legacy, mode |-> m]
Compressors ==
    {Null, NoKeys, BloscOnly, [NoKeys EXCEPT !.name = "zfp"],
     [BloscOnly EXCEPT !.cname = "zstd", !.clevel = 7, !.shuffle = Mode(FALSE, 2)],
     [BloscOnly EXCEPT !.algorithm = "zlib", !.level = 3, !.shuffle = Mode(TRUE, 0)],
     [BloscOnly EXCEPT !.cname = "zstd", !.algorithm = "zlib", !.clevel = 1, !.level = 12],
     [BloscOnly EXCEPT !.level = 12], [BloscOnly EXCEPT !.shuffle = Null, !.blocksize = 64],
     [NoKeys EXCEPT !.name = "zfp", !.mode = "reversible"],
     [NoKeys EXCEPT !.name = "zfp", !.level = 3]}

Dimensions == {Sized(<<"x">>, <<2>>), Sized(<<"x">>, <<3>>), Sized(<<"x">>, <<9>>), Names(<<"x", "y">>),
               Sized(<<"x", "y">>, <<2, 3>>), Sized(<<"x">>, <<0>>)}

Listed(s) == [objects |-> FALSE, names |-> s]
Coords == {Null, Listed(<<>>), Listed(<<"x">>), Listed(<<"lat">>), Listed(<<"lat", "x">>),
           Listed(<<"x", "lat">>), Listed(<<"alt">>), [objects |-> TRUE, names |-> <<"lat">>]}

Item(bins)   == [bins |-> bins, whole |-> TRUE, text |-> FALSE]
OneStat(b)   == [array |-> FALSE, items |-> <<Item(b)>>]
TwoStats     == [array |-> TRUE, items |-> <<Item(<<2, 4>>), Item(<<1>>)>>]
Broken       == [array |-> FALSE, items |-> <<[Item(<<2>>) EXCEPT !.whole = FALSE]>>]
Unit(f)      == [form |-> f, items |-> <<"m">>]
Free         == {<<"k", "v">>, <<"n", Null>>}
MCPairs      == Free
Regular(s)   == [regular |-> TRUE, shape |-> s]

Blocks ==
    {[EmptyBlock EXCEPT !.stats = s, !.attributes = a] :
        s \in {Absent, OneStat(<<2, 4>>), OneStat(<<3>>), TwoStats}, a \in {Absent, Null, Free}}
      \cup {[EmptyBlock EXCEPT !.units = u, !.grid = g] :
              u \in {Absent, Unit("object")}, g \in {Absent, Regular(<<1>>)}}
      \cup {[EmptyBlock EXCEPT !.grid = g] :
              g \in {Null, Regular(<<1, 1>>), [regular |-> FALSE, shape |-> <<1>>]}}
      \cup {[EmptyBlock EXCEPT !.stats = s] : s \in {Null, Broken, [array |-> TRUE, items |-> <<>>]}}
      \cup {[EmptyBlock EXCEPT !.units = u] : u \in {Null, Unit("text")}}

MCJsons ==
    {With([Data EXCEPT !.type = t]) : t \in Types}
      \cup {With([Data EXCEPT !.compressor = c]) : c \in Compressors}
      \cup {With([Data EXCEPT !.dims = d]) : d \in Dimensions}
      \cup {<<X, Lat, [Data EXCEPT !.coords = c]>> : c \in Coords}
      \cup {<<[X EXCEPT !.coords = c], Data>> : c \in {Listed(<<"x">>), [objects |-> TRUE, names |-> <<"x">>]}}
      \cup {With([Data EXCEPT !.longName = n]) : n \in {Null, "", "amplitude"}}
      \cup {With([Data EXCEPT !.meta = m]) : m \in Blocks \cup {Null}}
      \cup {<<X, Plain("x", Scalar("int8"), Names(<<"y">>))>>}

MCForeignDocs ==
    {[longName |-> Absent, coords |-> Absent, nested |-> Absent,
      top |-> [EmptyBlock EXCEPT !.stats = s, !.units = u]] :
        s \in {Absent, [array |-> FALSE, items |-> <<[Item(<<3>>) EXCEPT !.text = TRUE]>>]},
        u \in {Absent, [form |-> "array", items |-> <<"m", "ms">>]}}

Attrs(a, p, n) == [arrayDims |-> a, plainDims |-> p, longName |-> n, user |-> {<<"k", "v">>}]
MCHeaderDocs ==
    {<<r, Attrs(a, p, n)>> : r \in {Absent, <<"x">>}, a \in {Absent, <<"x">>}, p \in {Absent, <<"x">>},
                             n \in {Absent, "File header"}}

MCUpdateBlocks ==
    {EmptyBlock, [EmptyBlock EXCEPT !.stats = OneStat(<<3>>)],
     [EmptyBlock EXCEPT !.stats = TwoStats, !.units = Unit("object"), !.attributes = Free]}
MCHeaderUpdates == {{<<"k", "w">>}}
=============================================================================
