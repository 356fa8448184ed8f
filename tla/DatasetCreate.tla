--------------------------- MODULE DatasetCreate ---------------------------
(***************************************************************************)
(* How a dataset comes to be on the store and how it is found again:       *)
(* Dataset::Open with a specification (dataset.h), which creates every     *)
(* array through CreateVariable (variable.h) while write_zmetadata writes  *)
(* the dataset's own files, and Dataset::Open with a path, which detects   *)
(* the Zarr version (zarr/zarr_driver.h), reads the dataset's files        *)
(* (zarr/zarr_v2.h, zarr/zarr_v3.h) and opens each variable they name      *)
(* (OpenVariable). Creations follow one another, may fail or die half way, *)
(* and opening happens at any time.                                        *)
(*                                                                         *)
(* What a file says is abstracted to the number of the create call that    *)
(* wrote it; 0 is a file that is not there. Datasets are v1, their         *)
(* specifications come from the factory (Construct), and structured arrays *)
(* differ from the others only in being opened twice.                      *)
(***************************************************************************)
EXTENDS Integers, FiniteSets

CONSTANTS
    ArrayVars,    \* names of variables that are TensorStore arrays
    HeaderVars,   \* names of header-only variables: metadata and no array
    Specs,        \* the sets of names a create call is asked for
    Formats,      \* the formats a create call may ask for, within {"V2", "V3"}
    MaxCalls,     \* bound: creations
    MaxOpens,     \* bound: openings by path
    MaxMishaps    \* bound: failing store operations and process deaths

Names == ArrayVars \cup HeaderVars
Calls == 1..MaxCalls
Gens  == 0..MaxCalls

\* The dataset's own files that are not a variable's.
FileNames == {"zmetadata", "zgroup", "zarr.json"}

ASSUME NamesAssumption   == ArrayVars \cap HeaderVars = {}
ASSUME SpecsAssumption   == Specs \subseteq ((SUBSET Names) \ {{}})
ASSUME FilesAssumption   == FileNames \cap HeaderVars = {}
ASSUME FormatsAssumption == Formats \subseteq {"V2", "V3"}
ASSUME BoundsAssumption  == MaxCalls \in Nat /\ MaxOpens \in Nat /\ MaxMishaps \in Nat

VARIABLES
    disk,      \* format -> [marker, index, arr, att]: who wrote each file.
               \* V2: .zgroup, .zmetadata, <v>/.zarray, <v>/.zattrs.
               \* V3: marker and index are the root zarr.json, and
               \* <v>/zarr.json holds both arr and att.
    call,      \* create call -> its state
    begun,     \* create calls so far
    reader,    \* the opening by path in progress, or the last one
    opens,     \* openings so far
    mishaps    \* failures so far

vars == <<disk, call, begun, reader, opens, mishaps>>

-----------------------------------------------------------------------------
(* The two kinds of call *)

VarStates   == {"open", "cleared", "created", "read", "ok", "error"}
CallStates  == {"none", "waiting", "collecting", "ok", "error", "dead"}

DatasetFilesOfAll(format, names) ==
    IF format = "V2" THEN {"zmetadata", "zgroup"} ELSE {"zarr.json"} \cup names

\* The dataset's own files a call writes: v2::WriteConsolidatedMetadata, and
\* v3::WriteMetadata with the zarr.json of each header-only variable. The .zattrs
\* of a V2 dataset is left out: no opening reads it.
DatasetFiles(format, names) ==
    IF format = "V2" THEN {"zmetadata", "zgroup"}
                     ELSE {"zarr.json"} \cup (names \cap HeaderVars)

\* What is kept of a create call: what it was asked for (names, format, clean);
\* whether its root has a variable index; how far each array is (var) and what
\* was read of its zarr.json (seen, 0 if that failed: blind); the dataset files
\* under way (todo), and whether one will never be written (rootFailed).
NoCall == [state |-> "none", names |-> {}, format |-> "V3", clean |-> FALSE,
           indexed |-> TRUE, var |-> [v \in ArrayVars |-> "ok"],
           seen |-> [v \in ArrayVars |-> 0], todo |-> {}, rootFailed |-> FALSE,
           blind |-> {}]

\* A complete store another program wrote without the variable index
\* (mdio-python, or mdio-cpp before it had one).
Foreign(names) == [NoCall EXCEPT !.state = "ok", !.names = names, !.indexed = FALSE]

ReaderBusy   == {"detect3", "detect2", "root", "children", "variables"}
ReaderStates == ReaderBusy \cup {"idle", "ok", "error", "throws"}

\* What is kept of an opening: the root it found; the children to read, the
\* variables these make and the reads of them to do; whether something was
\* missing; who wrote what it got (arr, att); and the creation it ought to
\* return (expect), 0 if anything may happen to it.
NoReader == [state |-> "idle", format |-> "V3", root |-> 0, indexed |-> TRUE,
             children |-> {}, reads |-> {}, found |-> {}, bad |-> FALSE,
             missing |-> {},
             arr |-> [v \in Names |-> 0], att |-> [v \in Names |-> 0],
             expect |-> 0]

NothingOn == [marker |-> 0, index |-> 0, arr |-> [v \in Names |-> 0],
              att |-> [v \in Names |-> 0]]
EmptyDisk == [f \in {"V2", "V3"} |-> NothingOn]

ForeignDisk(names) ==
    LET node == [v \in Names |-> IF v \in names THEN 1 ELSE 0]
    IN  [EmptyDisk EXCEPT !["V3"] = [marker |-> 1, index |-> 1, arr |-> node, att |-> node]]

Init ==
    /\ \/ disk = EmptyDisk /\ begun = 0 /\ call = [c \in Calls |-> NoCall]
       \/ \E names \in Specs :
              /\ MaxCalls > 0 /\ names \subseteq ArrayVars
              /\ disk = ForeignDisk(names) /\ begun = 1
              /\ call = [c \in Calls |-> IF c = 1 THEN Foreign(names) ELSE NoCall]
    /\ reader = NoReader /\ opens = 0 /\ mishaps = 0

-----------------------------------------------------------------------------
(* Dataset::Open(metadata, json_variables, kCreate | kCreateClean) *)

Running(c) == call[c].state \in {"waiting", "collecting"}

\* The files and arrays a call still has under way after its result is out
\* are not waited for: the next call may begin.
CreateDataset(names, format, clean) ==
    /\ begun < MaxCalls
    /\ \A c \in Calls : ~Running(c)
    /\ begun' = begun + 1
    /\ call' = [call EXCEPT ![begun + 1] =
                  [NoCall EXCEPT
                     !.state = "waiting", !.names = names, !.format = format,
                     !.clean = clean,
                     !.var = [v \in ArrayVars |-> IF v \in names THEN "open" ELSE "ok"],
                     !.todo = DatasetFiles(format, names)]]
    /\ reader' = [reader EXCEPT !.expect = 0]
    /\ UNCHANGED <<disk, opens, mishaps>>

\* kCreateClean: TensorStore deletes everything below the array's own key.
DeleteArray(c, v) ==
    /\ call[c].clean /\ call[c].var[v] = "open"
    /\ disk' = [f \in {"V2", "V3"} |-> [disk[f] EXCEPT !.arr[v] = 0, !.att[v] = 0]]
    /\ call' = [call EXCEPT ![c].var[v] = "cleared"]
    /\ UNCHANGED <<begun, reader, opens, mishaps>>

MayCreateUnchecked(c, v) ==
    call[c].var[v] = IF call[c].clean THEN "cleared" ELSE "open"

\* The array's metadata file is there, whatever is in it.
Exists(format, v) ==
    \/ disk[format].arr[v] # 0
    \/ format = "V3" /\ disk["V3"].att[v] # 0

\* The array's metadata may be written: it is not there, or it was to be
\* deleted first.
MayCreate(c, v) ==
    IF call[c].clean THEN call[c].var[v] = "cleared"
                     ELSE call[c].var[v] = "open" /\ ~Exists(call[c].format, v)

CreateArray(c, v) ==
    /\ MayCreate(c, v)
    /\ disk' = [disk EXCEPT ![call[c].format].arr[v] = c,
                            ![call[c].format].att[v] =
                                IF call[c].format = "V3" THEN 0 ELSE @]
    /\ call' = [call EXCEPT ![c].var[v] = "created"]
    /\ UNCHANGED <<begun, reader, opens, mishaps>>

\* kCreate finds the array: tensorstore::Open fails.
CreateRefused(c, v) ==
    /\ ~call[c].clean /\ call[c].var[v] = "open"
    /\ Exists(call[c].format, v)
    /\ call' = [call EXCEPT ![c].var[v] = "error"]
    /\ UNCHANGED <<disk, begun, reader, opens, mishaps>>

\* v2::WriteVariableAttributes writes <v>/.zattrs.
WriteZattrs(c, v) ==
    /\ call[c].format = "V2" /\ call[c].var[v] = "created"
    /\ disk' = [disk EXCEPT !["V2"].att[v] = c]
    /\ call' = [call EXCEPT ![c].var[v] = "ok"]
    /\ UNCHANGED <<begun, reader, opens, mishaps>>

\* v3::WriteVariableAttributes reads <v>/zarr.json, puts the attributes in what
\* it read and writes it back. A read that failed is a document without
\* anything else in it, not an error.
ReadForAttributes(c, v) ==
    /\ call[c].format = "V3" /\ call[c].var[v] = "created"
    /\ \/ /\ call' = [call EXCEPT ![c].var[v] = "read", ![c].seen[v] = disk["V3"].arr[v]]
          /\ UNCHANGED mishaps
       \/ /\ mishaps < MaxMishaps /\ mishaps' = mishaps + 1
          /\ call' = [call EXCEPT ![c].var[v] = "read", ![c].seen[v] = 0,
                                  ![c].blind = @ \cup {v}]
    /\ UNCHANGED <<disk, begun, reader, opens>>

WriteWithAttributes(c, v) ==
    /\ call[c].var[v] = "read"
    /\ disk' = [disk EXCEPT !["V3"].arr[v] = call[c].seen[v], !["V3"].att[v] = c]
    /\ call' = [call EXCEPT ![c].var[v] = "ok"]
    /\ UNCHANGED <<begun, reader, opens, mishaps>>

\* Deleting, creating, reopening a structured array or writing fails.
VariableFails(c, v) ==
    /\ mishaps < MaxMishaps /\ mishaps' = mishaps + 1
    /\ call[c].var[v] \in {"open", "cleared", "created", "read"}
    /\ call' = [call EXCEPT ![c].var[v] = "error"]
    /\ UNCHANGED <<disk, begun, reader, opens>>

\* write_zmetadata was called beside the creations, whatever becomes of them.
WriteDatasetFile(c, file) ==
    /\ file \in call[c].todo
    /\ call' = [call EXCEPT ![c].todo = @ \ {file}]
    /\ disk' = CASE file = "zmetadata" -> [disk EXCEPT !["V2"].index = c]
                 [] file = "zgroup"    -> [disk EXCEPT !["V2"].marker = c]
                 [] file = "zarr.json" -> [disk EXCEPT !["V3"].index = c, !["V3"].marker = c]
                 [] OTHER              -> [disk EXCEPT !["V3"].arr[file] = c,
                                                       !["V3"].att[file] = c]
    /\ UNCHANGED <<begun, reader, opens, mishaps>>

DatasetFileFails(c, file) ==
    /\ mishaps < MaxMishaps /\ mishaps' = mishaps + 1
    /\ file \in call[c].todo
    /\ call' = [call EXCEPT ![c].todo = @ \ {file}, ![c].rootFailed = TRUE]
    /\ UNCHANGED <<disk, begun, reader, opens>>

VariablesDone(c) == \A v \in ArrayVars : call[c].var[v] \in {"ok", "error"}

\* all_done_future: the promise of a variable is fulfilled with OkStatus
\* whatever its result, so only the dataset's files can fail it early.
AllDoneReady(c) == call[c].rootFailed \/ (VariablesDone(c) /\ call[c].todo = {})

\* The continuation of all_done_future begins to collect the variables ...
StartCollecting(c) ==
    /\ call[c].state = "waiting" /\ AllDoneReady(c)
    /\ call' = [call EXCEPT ![c].state = "collecting"]
    /\ UNCHANGED <<disk, begun, reader, opens, mishaps>>

SomeVariableOk(c) == \E v \in call[c].names \cap ArrayVars : call[c].var[v] = "ok"

AllVariablesOk(c) == \A v \in ArrayVars : call[c].var[v] = "ok"

\* ... blocking on fvar.result() of each. readyFut is not looked at.
Collect(c) ==
    /\ call[c].state = "collecting" /\ VariablesDone(c)
    /\ call' = [call EXCEPT ![c].state = IF AllVariablesOk(c) THEN "ok" ELSE "error"]
    /\ UNCHANGED <<disk, begun, reader, opens, mishaps>>

\* The creating process dies with everything it has under way.
Die(c) ==
    /\ mishaps < MaxMishaps /\ mishaps' = mishaps + 1
    /\ Running(c) \/ call[c].todo # {}
    /\ call' = [call EXCEPT ![c].state = IF Running(c) THEN "dead" ELSE @,
                            ![c].todo = {}, ![c].rootFailed = @ \/ call[c].todo # {},
                            ![c].var = [v \in ArrayVars |-> IF call[c].var[v] = "ok" THEN "ok"
                                                             ELSE "error"]]
    /\ UNCHANGED <<disk, begun, reader, opens>>

CreateStep(c) ==
    \/ \E v \in ArrayVars :
          \/ DeleteArray(c, v) \/ CreateArray(c, v) \/ CreateRefused(c, v)
          \/ WriteZattrs(c, v) \/ ReadForAttributes(c, v) \/ WriteWithAttributes(c, v)
    \/ \E file \in call[c].todo : WriteDatasetFile(c, file)
    \/ StartCollecting(c)
    \/ Collect(c)

-----------------------------------------------------------------------------
(* Dataset::Open(path): from_zmetadata, then the open of each variable *)

\* The last create call is over, no dataset file failed to be written, and no root
\* of the format that is looked for first hides it: it should be found.
Settled(c) ==
    /\ c > 0
    /\ call[c].state = "ok" /\ call[c].blind = {}
    /\ \A d \in Calls : call[d].todo = {} /\ ~call[d].rootFailed
    /\ call[c].format = "V2" => disk["V3"].marker = 0

OpenPath ==
    /\ opens < MaxOpens /\ opens' = opens + 1
    /\ reader.state \notin ReaderBusy
    /\ reader' = [NoReader EXCEPT !.state = "detect3",
                                  !.expect = IF Settled(begun) THEN begun ELSE 0]
    /\ UNCHANGED <<disk, call, begun, mishaps>>

DetectV2First ==
    /\ reader.state = "detect3"
    /\ reader' = IF disk["V2"].marker # 0
                 THEN [reader EXCEPT !.state = "root", !.format = "V2"]
                 ELSE [reader EXCEPT !.state = IF disk["V3"].marker # 0 THEN "root" ELSE "error"]
    /\ UNCHANGED <<disk, call, begun, opens, mishaps>>

\* DetectVersion: a read of zarr.json that fails is a store without one.
DetectV3 ==
    /\ reader.state = "detect3"
    /\ reader' = [reader EXCEPT !.state = IF disk["V3"].marker # 0 THEN "root" ELSE "detect2"]
    /\ UNCHANGED <<disk, call, begun, opens, mishaps>>

DetectV2 ==
    /\ reader.state = "detect2"
    /\ reader' = [reader EXCEPT !.state = IF disk["V2"].marker # 0 THEN "root" ELSE "error",
                                !.format = "V2"]
    /\ UNCHANGED <<disk, call, begun, opens, mishaps>>


\* What a List of the store finds: the children with a zarr.json.
Candidates == {v \in Names : Exists("V3", v)}

\* Both reads of OpenVariable, for each array.
VariableReads(names) == (names \cap ArrayVars) \X {"arr", "att"}

\* OnZmetadataRead: every variable .zmetadata names. A header-only one is in it
\* whole, so only the arrays are left to open.
ReadZmetadata ==
    /\ reader.state = "root" /\ reader.format = "V2"
    /\ LET c == disk["V2"].index
           whole == [v \in Names |-> IF v \in call[c].names \cap HeaderVars THEN c ELSE 0]
       IN  reader' = IF c = 0 THEN [reader EXCEPT !.state = "error"]
                     ELSE [reader EXCEPT !.state = "variables", !.root = c,
                                         !.found = call[c].names,
                                         !.reads = VariableReads(call[c].names),
                                         !.arr = whole, !.att = whole]
    /\ UNCHANGED <<disk, call, begun, opens, mishaps>>

\* OnV3RootReadComplete: the variable index of the root, or a List.
ReadRoot ==
    /\ reader.state = "root" /\ reader.format = "V3"
    /\ LET c == disk["V3"].index
           candidates == IF call[c].indexed THEN call[c].names ELSE Candidates
       IN  reader' = IF candidates = {} THEN [reader EXCEPT !.state = "error"]
                     ELSE [reader EXCEPT !.state = "children", !.root = c,
                                         !.indexed = call[c].indexed,
                                         !.children = candidates]
    /\ UNCHANGED <<disk, call, begun, opens, mishaps>>

ChildNeverBad(isArray) == FALSE

\* BuildVariableSpecs: a child that is not array metadata is an error when the
\* index named it, and is passed over when the store was listed.
ChildBad(isArray) == ~isArray /\ reader.indexed

\* The child of a header-only variable is all there is to read of it.
ChildRead(v, isArray) ==
    [reader EXCEPT !.children = @ \ {v},
                   !.found = IF isArray THEN @ \cup {v} ELSE @,
                   !.bad = @ \/ ChildBad(isArray),
                   !.arr[v] = IF v \in HeaderVars THEN disk["V3"].arr[v] ELSE 0,
                   !.att[v] = IF v \in HeaderVars THEN disk["V3"].att[v] ELSE 0]

ReadChild(v) ==
    /\ reader.state = "children" /\ v \in reader.children
    /\ reader' = ChildRead(v, disk["V3"].arr[v] # 0)
    /\ UNCHANGED <<disk, call, begun, opens, mishaps>>

\* OnV3ChildReadsComplete.
ChildrenRead ==
    /\ reader.state = "children" /\ reader.children = {}
    /\ reader' = IF reader.bad \/ reader.found = {}
                 THEN [reader EXCEPT !.state = "error"]
                 ELSE [reader EXCEPT !.state = "variables", !.reads = VariableReads(reader.found)]
    /\ UNCHANGED <<disk, call, begun, opens, mishaps>>

\* OpenVariable: tensorstore::Open of the array ...
OpenArray(v) ==
    /\ reader.state = "variables" /\ <<v, "arr">> \in reader.reads
    /\ reader' = [reader EXCEPT !.reads = @ \ {<<v, "arr">>},
                                !.arr[v] = disk[reader.format].arr[v],
                                !.bad = @ \/ disk[reader.format].arr[v] = 0]
    /\ UNCHANGED <<disk, call, begun, opens, mishaps>>

\* ... and a read of .zattrs or zarr.json beside it. A V3 document without the
\* attributes is NotFound; a missing V2 one is parsed as if it had content.
ReadAttributes(v) ==
    /\ reader.state = "variables" /\ <<v, "att">> \in reader.reads
    /\ LET att == disk[reader.format].att[v] IN
       reader' = [reader EXCEPT !.reads = @ \ {<<v, "att">>}, !.att[v] = att,
                                !.bad = @ \/ (att = 0 /\ reader.format = "V3"),
                                !.missing = IF att = 0 THEN @ \cup {v} ELSE @]
    /\ UNCHANGED <<disk, call, begun, opens, mishaps>>

\* Any read of the opening fails. Version detection takes it for a missing
\* file, and a List passes over the child.
ReadFails ==
    /\ mishaps < MaxMishaps /\ mishaps' = mishaps + 1
    /\ \/ reader.state = "detect3" /\ reader' = [reader EXCEPT !.state = "detect2", !.expect = 0]
       \/ /\ reader.state \in {"detect2", "root"}
          /\ reader' = [reader EXCEPT !.state = "error", !.expect = 0]
       \/ /\ reader.state = "children"
          /\ \E v \in reader.children :
                reader' = [ChildRead(v, FALSE) EXCEPT !.expect = 0]
       \/ /\ reader.state = "variables"
          /\ \E read \in reader.reads :
                reader' = [reader EXCEPT !.reads = @ \ {read}, !.bad = TRUE, !.expect = 0]
    /\ UNCHANGED <<disk, call, begun, opens>>

\* make_variable of a variable whose .zattrs was missing assigns into a JSON
\* value that is no object: an exception, not a status.
OpenDone ==
    /\ reader.state = "variables" /\ reader.reads = {}
    /\ reader' = [reader EXCEPT !.state =
                    IF /\ reader.format = "V2"
                       /\ \E v \in reader.missing : reader.arr[v] # 0 THEN "throws"
                    ELSE IF reader.bad THEN "error" ELSE "ok"]
    /\ UNCHANGED <<disk, call, begun, opens, mishaps>>

ReadStep ==
    \/ DetectV3 \/ DetectV2 \/ ReadZmetadata \/ ReadRoot \/ ChildrenRead \/ OpenDone
    \/ \E v \in Names : ReadChild(v) \/ OpenArray(v) \/ ReadAttributes(v)

-----------------------------------------------------------------------------
Next ==
    \/ \E names \in Specs, format \in Formats, clean \in BOOLEAN :
          CreateDataset(names, format, clean)
    \/ \E c \in Calls :
          \/ CreateStep(c)
          \/ \E v \in ArrayVars : VariableFails(c, v)
          \/ \E file \in call[c].todo : DatasetFileFails(c, file)
          \/ Die(c)
    \/ OpenPath
    \/ ReadStep
    \/ ReadFails

Spec == Init /\ [][Next]_vars

-----------------------------------------------------------------------------
(* Properties *)

DiskType ==
    [{"V2", "V3"} ->
       [marker : Gens, index : Gens, arr : [Names -> Gens], att : [Names -> Gens]]]

CallType ==
    [state : CallStates, names : SUBSET Names, format : {"V2", "V3"},
     clean : BOOLEAN, indexed : BOOLEAN, var : [ArrayVars -> VarStates],
     seen : [ArrayVars -> Gens], todo : SUBSET (FileNames \cup HeaderVars),
     rootFailed : BOOLEAN, blind : SUBSET ArrayVars]

ReaderType ==
    [state : ReaderStates, format : {"V2", "V3"}, root : Gens, indexed : BOOLEAN,
     children : SUBSET Names, reads : SUBSET (ArrayVars \X {"arr", "att"}),
     found : SUBSET Names, bad : BOOLEAN, missing : SUBSET ArrayVars,
     arr : [Names -> Gens], att : [Names -> Gens], expect : Gens]

\* Every variable has a value of its kind.
TypeOK ==
    /\ disk \in DiskType /\ call \in [Calls -> CallType] /\ reader \in ReaderType
    /\ begun \in Gens /\ opens \in 0..MaxOpens /\ mishaps \in 0..MaxMishaps

\* A creation that reported success has written the metadata and the
\* attributes of every array it was asked for, except where the attributes
\* were put into a document that could not be read. When no dataset file ever
\* failed (a call such a failure ends leaves others of its files under way, which
\* may land on the next dataset), the store also names exactly its variables
\* (dataset.h, Dataset::Open: the continuation of all_done_future).
CreateOkIsWhole ==
    \A c \in Calls : c = begun /\ call[c].state = "ok" /\ call[c].indexed =>
        LET d == disk[call[c].format] IN
        /\ \A v \in (call[c].names \cap ArrayVars) \ call[c].blind : d.arr[v] = c /\ d.att[v] = c
        /\ (\A e \in Calls : ~call[e].rootFailed) => d.index = c /\ d.marker = c

\* An opening that succeeds through the variable index or .zmetadata has every
\* variable that names, each with its metadata and its attributes, whatever
\* creation, failure or death it ran into: never a part of a dataset, as the
\* index is authoritative (zarr/zarr_v3.h:745).
OpenedIsWhole ==
    reader.state = "ok" /\ reader.indexed =>
        /\ reader.found = call[reader.root].names
        /\ \A v \in reader.found : reader.arr[v] # 0 /\ reader.att[v] # 0

\* Once a creation has reported success and its own files are written, an
\* opening that no later creation disturbs returns that dataset: all its
\* variables, as that creation wrote them, and neither an error nor an
\* exception.
CreatedIsOpened ==
    reader.expect # 0 =>
        /\ reader.state \notin {"error", "throws"}
        /\ reader.state = "ok" =>
              /\ reader.found = call[reader.expect].names
              /\ \A v \in reader.found : /\ reader.arr[v] = reader.expect
                                         /\ reader.att[v] = reader.expect

\* A kCreate call never touches an array another creation made: neither its
\* metadata nor its attributes change until a kCreateClean call comes.
KCreateKeepsArrays ==
    [][\A f \in {"V2", "V3"}, v \in ArrayVars :
          begun > 0 /\ begun' = begun /\ ~call[begun].clean /\ disk[f].arr[v] \notin {0, begun}
            => disk'[f].arr[v] = disk[f].arr[v] /\ disk'[f].att[v] = disk[f].att[v]]_vars

=============================================================================
