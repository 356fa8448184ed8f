# A specification of MDIO (C++)

MDIO stores seismic datasets as Zarr V2 or V3 arrays through TensorStore. This
directory is a TLA+ model of the parts of `src/mdio/` in which order, failure,
sharing and boundaries decide whether the library is right: the metadata commit,
the creation and discovery of datasets, the JSON a dataset is created from and
the attributes that go through it, selection by index, label and coordinate, field
selection and element by element transforms, the chunk iterator and the statistics.
The modules are translated from the headers; `PROJECT.json` gives the lines of
each definition, the hazards of the code and the properties that guard them.

## 1. The system

| Component | State | Operations | What makes it correct |
|---|---|---|---|
| Variable attributes (`variable.h`, `stats.h`) | a shared cell with an immutable `UserAttributes`, the heap address remembered at construction, a publish flag | `UpdateAttributes`, `was_updated`, `PublishMetadata` | a change is noticed, and publishing changes nothing but attributes |
| Dataset (`dataset.h`) | a collection of variables, the dataset's JSON, the domain | `Open` (create, by path), `isel`/`sel`, `SelectField`, `CommitMetadata` | success means everything is durable; what is opened is what was created |
| Zarr layer (`zarr/*.h`) | none; the files `.zarray`, `.zattrs`, `.zgroup`, `.zmetadata`, `zarr.json` | version detection, reading and writing dataset and variable metadata | one format is found, no document is rebuilt from a part of itself |
| Header variables (`header_variable.h`) | attributes of variables without an array | `FromSpec`, `PublishMetadata` | no lost update against the arrays' own writer |
| Chunk iterator (`chunk_iterator.h`, `Variable::chunks`) | chunk indices, a linear index, the current box | `Create`, `++`, `*`, `==` | every cell once, none outside, it ends |
| Statistics (`stats.h`, `variable.h`) | an accumulator; a merged statsV1 | `ComputeStats`, `MergeStats` | the merge of the parts is the statistics of the whole |
| Selection (`variable.h`, `dataset.h`, `coordinate_selector.h`) | the runs a selector keeps, its cache of coordinates | `slice`, `isel`, `sel`, `filterByCoordinate`, `sortSelectionByKey`, `readSelection` | exactly the matching cells, each once |
| Field selection, transform (`dataset.h`, `transform.h`) | a pending opening; two buffers | `SelectField`, `TransformVariable` | the field has the slice of the variable; nothing is written after an error |
| Trim, delete (`utils/`) | a dataset of their own | `TrimDataset`, `DeleteDataset` | attributes survive, nothing else is deleted |
| Factory, validator, schema (`dataset_*.h`) | none | JSON to specifications | each variable gets the domain its dimensions say |

How they interact. A `Dataset` holds its variables by value, and a variable holds
its attributes through a shared pointer to a shared pointer, so `isel` makes
datasets that share attributes but not what each remembers of them.
`CommitMetadata` makes copies of the modified variables and starts, at once, one
publication for each and one write of the dataset's own files; continuations on
TensorStore's threads join the futures. `Dataset::Open` with a specification
does the same with creations. `SelectField` and `TransformVariable` also return
before they are done: the first changes the dataset's collection from its
continuation, the second writes from the callback of its read. Everything else is
synchronous in its caller.
Between processes the store is the only shared state, and there is no lock.

What is hard: the address comparison and reuse of memory; several writers of one
`zarr.json`, each of which reads it, changes a part and writes all of it; parts of
one call that fail while others succeed and are not waited for; a death between
two of its files; an opening that runs beside a creation; transfers that overlap;
attributes that are written in one shape and read in another; slices of slices,
whose indices are not from zero; the boundaries of boxes, bins and integer fields;
partials that arrive in any order.

## 2. Modules

| Module | Models | EXTENDED by |
|---|---|---|
| `MetadataCommit` | attributes in memory, slices, `CommitMetadata`, `PublishMetadata`, `TrimDataset`, failures, death | `MCMetadataCommit`, `MetadataCommitProofs` |
| `Publication` | abstract: what `MetadataCommit` promises of commits | instanced by `MetadataCommit` |
| `DatasetCreate` | `Dataset::Open` with a specification and with a path, on one store | `MCDatasetCreate`, `DatasetCreateProofs` |
| `ChunkGrid` | the loop over `Variable::chunks` | `MCChunkGrid`, `ChunkGridProofs` |
| `StatsMerge` | `ComputeStats` of parts, `MergeStats` of them | `MCStatsMerge`, `StatsMergeProofs` |
| `Slicing` | `Variable::slice` | `Selection`, `CoordinateSelector` |
| `Selection` | `Dataset::isel` and `sel` | `MCSelection`, `SelectionProofs` |
| `CoordinateSelector` | filters, sorts and reads of a selector | `MCCoordinateSelector`, `CoordinateSelectorProofs` |
| `UserAttributes` | parsing and serialisation of a variable's attributes | `CreationJson` |
| `CreationJson` | validation and `Construct`; an array's way back to its JSON | `HeaderVariable` |
| `HeaderVariable` | a variable without an array: reading, publishing | `DatasetJson` |
| `DatasetJson` | a dataset's life as JSON and attributes | `MCDatasetJson`, `DatasetJsonProofs` |
| `AttributeStore` | abstract: what `DatasetJson` promises of attributes | instanced by `DatasetJson` |
| `Transfer` | `SelectField`, `TransformVariable`, `isel` between them | `MCTransfer`, `TransferProofs` |

### MetadataCommit
The contents of a `UserAttributes` are a version number, unique to the update that
made it. `cell` says whose attribute cells a handle shares, `attrs` is the object
in each cell (address and version), `base` is `attributesAddress`, `flag` is
`toPublish`, `commit` the progress of each `CommitMetadata` call and `disk` the
three things on the store: each array's attributes, the rest of its metadata
(`shape`, which counts resizes) and the consolidated copy.

* `OpenDataset`, `Slice`, `UpdateAttributes`, `ClientCommit`, `TrimStart` are the
  client's calls. `Slice` rebuilds the variables that have one of the sliced
  labels and copies the others, as `Variable::slice` does.
* `PublishRead`, `PublishWrite`, `GroupWrite` are store operations of a commit,
  each of which may fail, with or without effect; `Resolve` is the continuation of
  `all_done_future`, with its order and its blocking; `TrimVariable`, `TrimCommit`
  are `TrimDataset`'s loop.
* `FreeAddrs` is the allocator. It never returns the address of the object that
  `make_shared` is about to replace, and may return any other.
* `Crash` is the death of the process: memory goes, unfinished operations are lost.

`Clients` chooses between one client that waits for each call and any number of
them that do not. The publish flag is shared by copies of a variable in the code;
only `TrimDataset` sets it, on a dataset that is gone when it returns, so the
model keeps it per handle.

`Publication` is the promise. It knows no addresses, no files and no format: of each
variable of a handle a commit will take it, will not, or may (`due`: changed
once, unchanged, changed more often); a commit takes at its call what these
variables hold then; each is published in one step or missed; it ends well only when
all it took is published, and ill once one is missed, while the others may still
be published. `MetadataCommit` implements it (`PublicationKept`) with `due` computed
from the updates since a Variable was made and the publish flag (`Due`), and `call`
from the publications under way (`Progress`); the read of a V3 publication and the
dataset-wide write are stutters.

### DatasetCreate
A file's content is the number of the creation that wrote it, 0 when there is
none. A creation (`call`) is its arguments, how far each array is (`var`: opened,
cleared by `kCreateClean`, created, `zarr.json` read, done), the dataset files
under way (`todo`), and whether its result is out. An opening (`reader`) detects
the version, reads the root, then the children, then each array and each
attribute file, one step each, while creations go on. `ReadFails`,
`VariableFails`, `DatasetFileFails` and `Die` may come anywhere.

Creations follow one another; one may still have files under way when the
next begins, since the first failing file ends the call. Left out: the `.zattrs` of a V2
dataset (no opening reads it), structured types beyond their second open, the v0
layout, a caller's specification for opening, `write_zmetadata` failing before it
starts a write.

### ChunkGrid
`Refuse`, `Begin`, `Body` and `Advance` are `ChunkRange::Create`, the constructor,
the loop's body and `++` with its wrap. `named` is the set of dimensions given to
`chunks(dims)`; `Projected` is the chunk shape it computes. `visited` is an
observer: the boxes the body was given. Integers are unbounded: sums are taken to
fit an `Index`.

### StatsMerge
`Partial(p)` is what `ComputeStats` returns for the positions that caller `p` has;
`MergePartial` is one turn of `MergeStats`' loop over any partial not yet seen,
as one of its four branches (`SkipNeutral`, `FoldBare`, `FoldFirstHistogram`,
`FoldHistogram`), `Finish` the checks and conversions after it. Samples are small
integers and centers are exact fractions. Rounding of `float`, `sumSquares` (the
same as `sum`) and malformed histograms are left out.

### Slicing, Selection
An array's domain is a sequence of axes, each an origin and the positions of the
stored array it still reads (`cells`), so that a slice of a slice, whose indices
start elsewhere, and a concatenation, which renumbers them, can be told apart from
a fresh domain. `Slice` is `Variable::slice` with its clamp, its fast path and
its handling of repeated labels. `DoIsel` and `DoIselVector` are the two `isel`,
`SelValue`, `SelList` and `SelRange` the three kinds of `sel`: the search in the
coordinate read through the dataset, nearest contained endpoints on rising and
falling axes, exact ones elsewhere, at most `kMaxNumSlices` windows. Left out:
descriptors by axis number, coordinates that are no dimension (for which `sel`
changes nothing), steps other than 1, which the code refuses elsewhere.

### CoordinateSelector
`kept` is `kept_runs_`, `cache` is `cached_variables_`, `stored` what a program may
rewrite under it. `FilterByCoordinate` is `_init_runs` for the first filter and
`_add_new_run` for the others, `SortSelectionByKey` a stable sort by the value at
each run's first cell, `ReadSelection` an `isel` and a read for each run.
`filters`, `keys` and `answer` are observers.

### UserAttributes, CreationJson, HeaderVariable, DatasetJson, AttributeStore
A creation JSON is a sequence of variables whose parts take the forms the schema
allows, and null where nothing forbids it. `Construct` is the factory with the
changes it makes in place to the caller's JSON: the check of codecs,
legacy compressors, sizes of dimensions, types, coordinates, the grid, fill values;
it returns specifications, an error or an exception. `DatasetJsons`,
`StoredAttributesType` and `MetadataBlock` say what may be in a JSON, on the store and
in an update: any strings, numbers and lists, absent or null. `DatasetJson` composes it with
what creation writes (`WriteVariableAttributes`), what opening finds
(`StoredBlock`, `OpenVariable`), what a commit writes (`PublishMetadata`) and what
`to_json` gives back. A header variable is published by two writers in V3 and
the model lets either be last (`Committed`). No operation of the store fails here:
that is in `DatasetCreate` and `MetadataCommit`.

`AttributeStore` is the promise: a caller has attributes in hand, the store has
attributes, an update changes one of the first, a commit makes the updates
durable, an opening takes what is durable. `DatasetJson` implements it with
`hand` the Variables without the grid and `durable` what an opening would find,
whichever of the four shapes it is in. `Written` is what the code loses on the
way: decimals of a single histogram's centers, null values, an empty list of
coordinates.

### Transfer
A view is an array, a kind (scalar, field, or the bytes of whole records), its
fields and a box. `FieldOpened` is `SelectField`'s continuation: the future gets
the slice and the collection gets the whole variable; without slices the
continuation throws and `alive` is false. A transfer reads the source in chunks, applies
the caller's transform to what it read (one that works, one that refuses a zero,
one that reports a byte too few) and writes the destination in chunks; reads and
writes of several transfers interleave and may fail. `start` and `undisturbed` are
observers. What a caller does with a transfer's views in the meantime does not
matter to it, since the views are copied.

## 3. Runs

| Run | Question | Shows |
|---|---|---|
| `commit_sole` | one client, both formats, trim, one failure or crash | what a successful commit guarantees; `Publication` is implemented |
| `commit_concurrent` | any clients, V3 | a success is settled, every commit resolves |
| `create_open` | two creations and an opening, one failure or death | success is whole, opening is whole and finds what was created |
| `json_round_trip` | 124 creation JSONs and 104 foreign datasets, both formats, three calls | the formats agree, attributes are stored, a copy is faithful |
| `selection` | two calls of `isel` and `sel` of any kind after each other | exactly what was asked for, in every variable |
| `selector` | filters, sorts, reads, writes under them, over every mask | each matching sample once, in the order of the keys |
| `transfer` | two transfers, slices and field selections | all or nothing, element by element, and an answer |
| `chunk_loop` | every loop in three dimensions | coverage, disjointness, termination |
| `stats_merge` | every merge of three partials | merged = whole, or an error |
| `address_reused` | violation | `was_updated` misses a second update (ABA) |
| `isel_inconsistent` | violation | a repeated label leaves the variables of a dataset sliced differently |
| `histogram_truncated` | violation | bin centers with decimals are read as integers |

The violations are findings: each is a sentence of the code's documentation that
the code does not keep, quoted in `PROJECT.json`.

What the passing properties say.

* **Commit.** `FirstUpdateDetected` is what address comparison
  can promise: no update is never seen as one, and the first always is, because the
  new object is made while the old one lives. `OkMeansSettled`: success leaves
  nothing in flight. `CommittedSurvives`: what one successful commit published is
  never replaced by something older. `AwaitedShapeKept`: a client that waits loses
  no resize to the read-modify-write of `zarr.json`. `ConsolidatedAgrees`: after a
  successful commit of an opened V2 dataset (not of a slice) `.zmetadata` and the
  `.zattrs` agree, also when an earlier session died half way. `CommitResolves`:
  no branch forgets the promise. `PublicationKept`: with any clients a commit
  publishes what its variables held at the call, each at one moment or not at all,
  and answers accordingly (run with one client, some of whose failed commits go on
  beside the next; proved for any).
* **Creation.** `CreateOkIsWhole`, `OpenedIsWhole`,
  `CreatedIsOpened` and `KCreateKeepsArrays` relate the creation's result to the
  store, the opening's to the index it read, and the two to each other.
* **JSON.** `VersionsAgree`: one JSON means the same arrays in V2 and V3, also
  after one construction changed it. `ShapesDeclared`: every dimension has the size
  of its coordinate and of the JSON. `OpensBySpec`: what creation stores does not
  contradict the specification it came from. `CopyIsFaithful`: what `to_json`
  returns can be created from, in either format, and gives the arrays again.
  `AttributesAreStored`: the refinement of `AttributeStore`. `HeaderKeeps`: a
  header variable keeps dimensions and attributes in either order of its writers.
* **Selection.** `IselIntersects`: an index slice keeps the indices in the range, and
  each still reads what it read. `SelExact` and `RangeContained`: values, lists and
  ranges select exactly their samples, on datasets sliced before too.
  `VariablesAgree`: the variables of a dataset are cut alike, unless one `isel`
  names a dimension twice. `MatchesReadOnce`
  and `RunsInKeyOrder`: the same for a selector and the order of its runs.
* **Transfer.** `SelectedIsSliced`: the field comes with the slice the variable had at
  the call. `OnlyWholeTransformsWrite`: the store changes only by a transform that
  went through every element. `TransferIsFaithful`: a success is the transform of
  what the source held, also where source and destination overlap.
  `FuturesResolve`: every future is answered.
* **Chunks.** `BodyGetsNewCells`: each box is inside the domain, not empty, and new.
  `DoneCovers`, `Terminates`: the loop ends, and then every cell was in one.
* **Statistics.** `MergeIsWhole` and `AgreedCentersMerge` compare the merge with
  `ComputeStats` of the whole variable and say what a merged histogram means when
  callers bin differently; `NearestBin` compares the edges and `upper_bound` with
  distances.

### Bounds
* Two variables are the fewest for a commit that is partly done, three addresses
  the fewest for ABA beside a free one; two updates let a memory address come
  back; two commits let a late write meet a newer one; one mishap at any point is
  the failure or crash, since the properties of one commit are about the first.
* Two creations show every way in which one meets what another left; the initial
  states also hold a dataset another program wrote without a variable index. The
  two specifications share one variable, and one has a header variable.
* Extents 0 to 5 with chunks 1 to 3 have an exact fit, a rest, a chunk
  larger than the extent, one chunk and an empty dimension, in every mixture of
  three dimensions; 0 as a chunk size is refused. The proofs cover every size.
* `MaxCount = 2` with three samples lets a total overflow that no partial does, and
  `MaxFloat = 3` the same for sums. Values lie on, between and outside the two
  centers. A caller without samples adds an empty partial, so three callers also
  stand for two. `BinCount = 2` stands for `kDefaultHistogramBinCount = 10`.
* Two calls of selection on a line of three and a line of two: the second meets
  domains with an offset and concatenated ones. Three descriptors let a label be
  repeated beside another one. The coordinates rise, fall, repeat, are unordered or
  hold a NaN. `kMaxNumSlices` is 2, so that reaching and passing it both happen.
* A selector over two rows of three has runs inside a row, over rows, up to the end
  of one and up to the last sample; every mask is tried. Three filters or sorts,
  one read and one write or reset are the shortest sequences in which a second key
  or a stale cache shows.
* The JSONs vary one aspect of one variable at a time beside a dimension and, where
  coordinates matter, a third variable: aspects meet only where the code
  relates them. Three calls are an update, a commit and an opening or a copy.
* Two transfers are the fewest that interfere; three calls put a slice or a field
  selection before or between them. Arrays have two rows, so that reads and
  writes have a first and a last chunk, and records have two fields, so that a field
  has a neighbour to destroy; two values tell elements apart.
* `SYMMETRY` is used where nothing names a handle, position or caller, and never
  with a liveness property.

### Fairness and deadlock
`CommitResolves` assumes weak fairness of each commit's store operations and
continuation: TensorStore completes every operation it accepted, with or without
an error, on its own threads. `FuturesResolve` assumes the same of each transfer's
reads and writes and of `SelectField`'s opening, and nothing of the caller.
`Terminates` assumes a loop that goes on. All else
is safety. `CHECK_DEADLOCK FALSE` everywhere: a client may stop calling, a merge
and a loop end.

## 4. Proofs

Everything here holds for every value of the constants that satisfies the named
assumptions: any number of variables, handles, arrays, samples, partials, calls,
failures and crashes, any rank and any sizes. Each invariant below was first run
through TLC on the bounds of section 3.

**What is assumed of the constants.** That bounds are natural numbers and sets have
the types their comments give; that `Closed` is no handle (`HandlesAssumption`);
that dimensions and header variables have names of their own (`NamesAssumption`,
`FilesAssumption`); that bin centers rise (`CentersAssumption`: malformed
histograms are left out); that the samples are finitely many. `Transfer` takes
any contents of the store (`InitialValue`) and any structures but records of
one byte, whose void view has the shape of an array with a last dimension of one
(`ArraysAssumption`). `DatasetJson` takes any
JSONs, stored attributes and updates of the types above; the attributes another
program stored are such that an opening accepts them (`InputsAssumption`), and the
value that stands for an absent key or null is no value
(`AbsentAssumption`, `CodecAssumption`). `MaxSize`, `kMaxSize` in the code, is
at least 2, the size of the array that stands for another program's.

* **MetadataCommit**, any clients (`MetadataCommitProofs`). With
  the types, `FirstUpdateDetected` and `OkMeansSettled` are each inductive. For the
  first, an update never returns the current address, counts for every handle that
  shares the cell, and a slice copies or renews address and count together. For the
  second, a result is given only when a future failed or all are ready, success
  needs every update, and no step changes a commit that has nothing under way.
* **MetadataCommit**, a sole client (`CommittedSurvives`,
  `AwaitedShapeKept`, `ConsolidatedAgrees`). None of them is inductive: what a write
  that comes late puts back depends on where its version came from. `SoleInv` orders
  versions: a client's handles are ahead of the store and of everything on its way
  there (`AheadInv`), no handle and no such write is older than what a kept commit
  published (`FloorInv`, `OkInv`), a commit that began with nothing in flight is the
  only one that has something there (`RunInv`), and a variable nobody touched is the
  same everywhere (`SameInv`), which is why a rewritten `.zmetadata` is right
  about it without its being published.
* **MetadataCommit** implements `Publication` (`ImplementsPublication`), any clients.
  The types and `FirstUpdateDetected` are most of it: a count of 0 or 1 decides what
  the address comparison says, a higher one leaves it open. `PublicInv` adds that a
  flagged variable belongs to a trim under way, whose attributes no other handle
  shares (so no update can reach it, and a client's commit resets no flag that
  matters), that calls are numbered, and that nothing is published that was not
  modified. Each action then is one of `Publication` (`PromiseBegin`,
  `PromisePublish`, `PromiseTrim`, ...) or a stutter (`PromiseGroup`).
* **DatasetCreate** (`DatasetCreateProofs`: `OpenedIsWhole`, `KCreateKeepsArrays`).
  `DiskInv`: no file is newer than the last call, and a root's marker and index
  are written together. `CallInv`: only the last call runs, and an array it has
  created is its own. `ReaderInv`: what the opening has is a part of
  what the root it read names, and the rest is still to be read unless something
  was bad; hence what it returns is all of it. `KCreateKeepsArrays` follows from
  `CallInv`: each step on an array belongs to the last call, and without `clean`
  it needs the array to be absent or its own.
* **What a creation promises** (`DatasetCreateProofs`: `CreateOkIsWhole`,
  `CreatedIsOpened`). `CreateInv` adds that each finished array of the last call is
  as that call wrote it, also across the read and the write of its `zarr.json`
  (`ArraysInv`), that a call ends well only with all of them (`EndInv`), and that
  its own files are on the store unless one failed (`FilesInv`). `ExpectInv` follows
  an opening: it is on its way to the last dataset, step by step, for as long as
  nothing disturbs that.
* **ChunkGrid** (`BodyGetsNewCells`, `DoneCovers`).
  The boxes given to the body are those of the grid's points at or before the
  iterator's in row-major order; the increment is the successor in that order, and
  two points' boxes are apart in the dimension where they differ. When no
  dimension can step, every point is at or before the iterator. That the loop ends
  only then is about another number, the linear index compared with
  `total_chunks_`: it has to be the row-major number of the point. Both are products
  over the dimensions, so this is an induction over the rank; it is done by taking
  the least dimension at which the claim fails.
* **StatsMerge** (`MergeIsWhole`, `AgreedCentersMerge`, `NearestBin`). `MergeInv`:
  what has been accumulated is the count, sum, extrema and, while all bin alike, the
  histogram, of the samples of the partials merged so far. Sums and extrema are folds
  over sets: that a sum splits over disjoint sets, and that each sample is in
  one bin, is proved by a smallest finite set for which it fails. `NearestBin`
  compares the edges half way with the distances to the centers.
* **Transfer** (`SelectedIsSliced`, `OnlyWholeTransformsWrite`,
  `TransferIsFaithful`). `TInv`: views are parts of their arrays and have the fields of
  their kind; of a transfer that is reading, buffer and store together are what the
  source held at the call, chunk by chunk; of one that writes, the buffer is all of
  it, was accepted by the transform, and what is written is its transform. A
  transfer keeps this while others go on because an overlapping write clears
  `undisturbed`, and an element of a field view is apart from its neighbours.
  Compatible views never take a dimension of the array for the bytes of a record.
* **DatasetJson** (`DatasetJsonProofs`: all seven properties of its run). `JsonInv`
  says what connects the shapes: the arrays are the specifications of
  the JSON; until a commit the store has what creation wrote from them; what is
  modified but not pending is stored as it would be published again (`Published`:
  `was_updated()` stays true after a commit, so every later commit writes it once
  more); and wherever a header variable's attributes are read from they hold
  its dimensions (`LabelsIn`), which one of the two writers of a commit may take
  from the other. From it, step by step, the refinement: `StoreCreate`,
  `StoreUpdate`, `StoreCommit` and `StoreReopen` map each action to one of
  `AttributeStore` or to a stutter, on the lemmas that reading back what is
  published gives what `Written` leaves of it (`ReadBack`, `CommitWrites`,
  `CreationWrites`). `ShapesDeclared` is that every dimension has a coordinate and a
  declared size is the only one (`DimensionHasCoordinate`, `SizeGiven`);
  `VersionsAgree` that normalising codecs twice is doing it once and that codes of
  data types and codecs read back as what they were written from.
  `CopyIsFaithful` needs that an open dataset is `Described`: its arrays are those
  of a JSON all of whose variables can be specified, and what is stored of
  them can be read (`CopyReady`). Then an entry of the copy has the fields of the
  variable the array was made of, and the sizes given in the copy's coordinates are
  those of the arrays. It is proved for JSONs that give no name twice
  (`NamesDiffer`), as `ShapesDeclared` is stated: of two variables of one name, one
  is not checked, its size may come from a variable that is no coordinate, and the
  copy, where only coordinates have sizes, may then lose it.

* **Selection** (`SelectionProofs`: all five properties of its run), for any number of
  dimensions, variables, sizes, coordinates, calls and descriptors. Coordinates are as
  long as their dimensions (`CoordinatesAssumption`), every dimension has one
  (`DimensionCoordinatesAssumption`), and nothing is assumed of their order. The
  inductive invariant is only that of the types, `IInv`: each property relates the
  dataset a call was given to the one it returned. What takes the work is what the
  calls do. Descriptors are grouped by label, put one behind the other, cut into
  windows, and each window is applied to what the one before left; `IselVectorFew`
  says that for at most `kMaxNumSlices` descriptors a label this refuses, and
  otherwise cuts, as if every dimension had been sliced once by all of its
  descriptors. It is an induction over labels, for which `Induction` does: counting
  down from a number left out would fit a finite set into a part of itself.
  `NarrowedReads` then gives `IselIntersects`, `CutPoints` that descriptors of
  single samples select them in their order (`SelExact`), and `BetweenInterval` that the
  binary searches from both ends enclose the samples between the endpoints
  (`RangeContained`). The proofs corrected two statements which held within the bounds
  of TLC alone. A concatenation may carry an origin beyond the size of its dimension,
  so `TypeOK` bounds only the positions. And a range that has samples can be refused
  where the variables disagree, so `RangeContained` promises success only if
  they agree; such datasets come from the `isel` of `IselInconsistent`.

* **CoordinateSelector** (`CoordinateSelectorProofs`: all three properties of its run),
  for coordinates of any number of dimensions and any sizes, any contents, variables
  and calls. Coordinates have a value for each of their cells (`ContentsAssumption`),
  and a program writes nothing else (`RewritesAssumption`). No property is
  inductive: a read takes its box from `kept` alone, and only the history says
  what that box has to do with the filter. The invariant adds it. `FilterInv`: with one
  filter the runs are those of the data in the cache, in some order, which a sort
  keeps because it permutes (`FoundAgain`); with more, no run has a descriptor
  (`InsideAre`). `AnswerInv`: an answer is the reading of the runs as they are.
  `OrderInv`: the order is that of the sorts so far (`SortedRunsAre`: a stable sort by
  one more key).
  From it `MatchesReadOnce` needs arithmetic. The number of a cell is split into
  digits by its strides (`Digit`, `FirstDifference`, `CellsOnto`). If the matches
  are a product of intervals, a run that crosses into another block of some dimension
  shows the later dimensions to be whole (`SidesFull`), so the run starts and ends
  with a block (`RunStartsBlock`, `RunEndsBlock`), and it is the box between its
  ends (`RunIsBox`): the code, which keeps only the ends, loses and gains nothing.
  `BoxIs` follows the descriptors through `isel`, `RunCells` gives the samples, and
  `FlattenEnumerates` that runs read one after the other give the union, each
  sample once, since different runs are apart. Trying this corrected
  two statements: that a set is a hyper-rectangle is now said of its sides,
  and what is promised of variables apart from the coordinates is for those of one
  dimension (section 6).

**Only model-checked.** Every invariant and action property of the passing runs is
proved. Liveness (`CommitResolves`, `FuturesResolve`, `Terminates`) is beyond TLAPS.
So is what would need an induction with an operator as parameter; where the data are
finite sets or numbers a least counterexample does instead, as above.

## 5. Plan

1. An abstract specification of creation (a dataset is absent, partial or whole), and
   `DatasetCreate` shown to implement it, as `MetadataCommit` does `Publication`.
2. `DeleteDataset` and two creations at once as actions of `DatasetCreate`.

Runs are few by intent: one for each question.

## 6. What the models show beside the properties

Behaviour met while translating, which a property excepts or which no sentence of
the documentation forbids clearly enough for a run of its own.

* **Commit.** `CommitMetadata` ignores the result of the dataset-wide write
  (dataset.h:1934): a failed `.zmetadata` or root is reported as success.
  `_dataset_only_callback_committed` runs on a copy (dataset.h:1916), so a published
  variable stays modified and a commit without changes succeeds, against
  dataset.h:1798-1799. A slice remembers addresses of its own: its commit can put
  attributes into `.zmetadata` that it does not publish.
* **Creation.** `kCreate` over an existing dataset refuses the arrays and replaces the
  root (dataset.h:1565, impl.h:157). A failed read in `v3::WriteVariableAttributes`
  is taken for an empty document: shape, type and codecs of the array are replaced by
  attributes alone, and the creation succeeds (zarr_v3.h:860). A dataset file that
  fails starts the collecting continuation early, and it blocks a thread of the pool
  (dataset.h:1593-1595). After a `kCreateClean` that died an opening may find old and
  new variables.
* **Statistics.** A partial without a histogram is refused after one with one and
  merged before it (stats.h:1071, against 977 and 986).
* **Selection.** Of several values given to `sel` one that does not occur leaves its
  dimension whole. More than `kMaxNumSlices` hits are cut out of a dataset that the
  first windows have renumbered. A selector's second filter yields runs without
  descriptors, since `intervals` was moved from (coordinate_selector.h:453), and its
  cache outlives `reset()`; it is keyed by the caller's `string_view`. A variable of
  several dimensions, none of them the coordinate's, is read whole once per run, where
  one of a single dimension is read for the first run only (coordinate_selector.h:199-207).
* **Field selection.** The collection gets the whole variable, updates that were not
  committed are gone from it. From a field view `intervals.pop_back()` takes a real
  dimension: the result is whole along it, and for a 1-D array the callback throws
  (dataset.h:1675, 1778).
* **Attributes.** A V2 commit nests them under `metadata`, with the chunk grid that
  dataset.h:1872 says is never serialised: the dataset's own specification is then
  refused, and `to_json` drops the attributes although dataset.h:1967 lists
  them. A commit also writes an empty list of coordinates that creation leaves out,
  drops top-level keys it does not know, and turns a single unit into a bare
  string, which `to_json` then refuses. An update with no recognised key empties the
  attributes. `"metadata": null` in V2, `"longName": null` and a null chunk grid
  throw.
* **Factory.** Of two variables with one name only one is looked at, and sizes may be
  zero. The schema's default codec is zstd, the code's lz4. A `zarr_version` in the
  JSON never validates.
* **Header variables.** The long name is lost when `PublishMetadata` writes last.
* **Delete.** The range deleted is the dataset's path as a prefix without a slash, so
  a sibling whose name begins with it is within it, and `keys().front()` is taken of
  an empty list if every variable is a header variable.

## 7. Not modelled

Spelling of data types and layout of JSON (formatting; their effects on
what is kept are modelled where a property needs them); the schema library; integer
overflow of chunk sums near 2^63 and rounding of `float`; `DeleteDataset` (what a
prefix covers is the key-value store's); the computation of the new shapes in
`TrimDataset`; the network drivers; tests, benchmarks, Python regression scripts,
examples, and the build.
