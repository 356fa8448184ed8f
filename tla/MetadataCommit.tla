--------------------------- MODULE MetadataCommit ---------------------------
(***************************************************************************)
(* How MDIO tracks changed user attributes in memory and publishes them to *)
(* the store: VariableBase (variable.h), Dataset::CommitMetadata and the   *)
(* copies isel makes (dataset.h), the two PublishMetadata layouts (Zarr V2 *)
(* .zattrs, Zarr V3 zarr.json), the dataset-wide metadata write            *)
(* (zarr/zarr_v2.h, zarr/zarr_v3.h) and utils::TrimDataset.                *)
(*                                                                         *)
(* The content of a UserAttributes object is abstracted to a version: the  *)
(* n-th successful update anywhere produces version n, the store starts at *)
(* version 0. What a Variable remembers of it is its heap address, which   *)
(* the allocator may hand out again once the object is gone.               *)
(***************************************************************************)
EXTENDS Integers, FiniteSets

CONSTANTS
    NumVars,      \* variables of the dataset, numbered in the order of their keys
    Handles,      \* Dataset objects the program can hold
    NumAddrs,     \* heap addresses the objects of one variable can have
    Reuse,        \* may the allocator reuse an address a Variable still remembers?
    Clients,      \* the values of "sole" explored
    Formats,      \* the store formats explored, a subset of {"V2", "V3"}
    MaxUpdates,   \* bound: successful UpdateAttributes calls
    MaxCommits,   \* bound: CommitMetadata calls
    MaxTrims,     \* bound: TrimDataset calls
    MaxMishaps    \* bound: failing store operations and process crashes

ASSUME NumVarsAssumption == NumVars \in Nat \ {0}
ASSUME NumAddrsAssumption == NumAddrs \in Nat \ {0}
ASSUME ReuseAssumption   == Reuse \in BOOLEAN
ASSUME ClientsAssumption == Clients \subseteq BOOLEAN
ASSUME FormatsAssumption == Formats \subseteq {"V2", "V3"}
ASSUME BoundsAssumption  ==
    /\ MaxUpdates \in Nat /\ MaxCommits \in Nat /\ MaxTrims \in Nat
    /\ MaxMishaps \in Nat

Vars    == 1..NumVars
Addrs   == 1..NumAddrs
Commits == 1..MaxCommits

Closed == "closed"
ASSUME HandlesAssumption == Closed \notin Handles

VARIABLES
    \* -- the program's memory
    cell,      \* handle -> the handle whose attribute cells it shares, or Closed
    attrs,     \* cell -> variable -> the current UserAttributes object
    base,      \* handle -> variable -> attributesAddress
    flag,      \* handle -> variable -> toPublish
    trimAt,    \* handle -> 0, or the next variable TrimDataset resizes
    commit,    \* commit -> its state
    \* -- the store
    disk,      \* attr: .zattrs / zarr.json, shape: .zarray / zarr.json, meta: .zmetadata
    \* -- fixed in the initial state
    format,    \* "V2" or "V3"
    sole,      \* one client, which opens the dataset once and waits for its futures?
    \* -- observers and bounds
    since,     \* handle -> variable -> updates since that Variable was constructed
    resized,   \* variable -> resizes the store acknowledged
    used       \* how much of each bound is used

memory == <<cell, attrs, base, flag, trimAt>>
fixed  == <<format, sole>>
vars   == <<cell, attrs, base, flag, trimAt, commit, disk, format, sole,
            since, resized, used>>

(***************************************************************************)
(* Types                                                                   *)
(***************************************************************************)
Object == [addr : Addrs, ver : Nat]

PubState   == {"none", "read", "write", "ok", "failed", "lost"}
GroupState == {"none", "write", "ok", "failed", "lost"}

CommitState ==
    [st    : {"idle", "running", "done", "dead"},
     h     : Handles \cup {Closed},
     root  : BOOLEAN,              \* observer: is h an opened dataset, not a slice?
     alone : BOOLEAN,              \* observer: nothing was in flight when it started
     mod   : SUBSET Vars,          \* modifiedVariables
     snap  : [Vars -> Nat],        \* the attributes json_vars and attributes hold
     seen  : [Vars -> Nat],        \* V3: the rest of the zarr.json that was read
     pub   : [Vars -> PubState],   \* PublishMetadata of each modified variable
     group : GroupState,           \* write_zmetadata
     res   : {"none", "ok", "error", "unmodified"}]

\* Every variable has a value of its kind: a handle remembers an address and
\* shares the cells of a handle.
TypeOK ==
    /\ cell \in [Handles -> Handles \cup {Closed}]
    /\ attrs \in [Handles -> [Vars -> Object]]
    /\ base \in [Handles -> [Vars -> Addrs]]
    /\ flag \in [Handles -> [Vars -> BOOLEAN]]
    /\ trimAt \in [Handles -> 0..(NumVars + 1)]
    /\ commit \in [Commits -> CommitState]
    /\ disk \in [attr : [Vars -> Nat], shape : [Vars -> Nat], meta : [Vars -> Nat]]
    /\ format \in {"V2", "V3"}
    /\ sole \in BOOLEAN
    /\ since \in [Handles -> [Vars -> Nat]]
    /\ resized \in [Vars -> Nat]
    /\ used \in [updates : Nat, commits : Nat, trims : Nat, mishaps : Nat]

(***************************************************************************)
(* Reading the state                                                       *)
(***************************************************************************)
Open == {h \in Handles : cell[h] # Closed}

Current(h, v) == attrs[cell[h]][v]

\* VariableBase::was_updated: the address differs from the one remembered.
WasUpdated(h, v) == base[h][v] # Current(h, v).addr

\* What CommitMetadata puts in modifiedVariables.
Modified(h) == {v \in Vars : WasUpdated(h, v) \/ flag[h][v]}

\* Addresses make_shared<UserAttributes> can return for a new object of v. The
\* object being replaced is still alive, so its address is not among them.
\* (Addresses are only ever compared with earlier ones of the same variable
\* and cell, so those the other objects occupy need not be told apart.)
Remembered(h, v) == {base[g][v] : g \in {g \in Open : cell[g] = cell[h]}}
\* (mutant: the old object is released before the new one is allocated)
FreeAddrsAfterRelease(h, v) == Addrs
FreeAddrs(h, v)  == Addrs \ ({Current(h, v).addr}
                             \cup (IF Reuse THEN {} ELSE Remembered(h, v)))

InFlight(c) == c.group = "write" \/ \E v \in Vars : c.pub[v] \in {"read", "write"}
Quiet       == \A k \in Commits : ~InFlight(commit[k]) /\ commit[k].st # "running"

Trimming == {h \in Open : trimAt[h] # 0}

\* A sole client makes no call while a commit or a trim of its own is
\* unfinished; otherwise several threads or processes make calls at any time.
ClientFree == sole => /\ \A k \in Commits : commit[k].st # "running"
                      /\ Trimming = {}

(***************************************************************************)
(* Initial state: a dataset on disk, no Dataset object in memory.          *)
(***************************************************************************)
Zero       == [v \in Vars |-> 0]
Unflagged  == [v \in Vars |-> FALSE]
\* (mutant: the address is never set, as by the default constructor)
UnsetAddr  == [v \in Vars |-> 0]
FirstAddr  == [v \in Vars |-> 1]
IdleCommit ==
    [st |-> "idle", h |-> Closed, root |-> FALSE, alone |-> FALSE, mod |-> {},
     snap |-> Zero, seen |-> Zero, pub |-> [v \in Vars |-> "none"],
     group |-> "none", res |-> "none"]

\* New objects with the given attributes, one for each variable.
Objects(vers) == [v \in Vars |-> [addr |-> 1, ver |-> vers[v]]]

Init ==
    /\ cell = [h \in Handles |-> Closed]
    /\ attrs = [h \in Handles |-> Objects(Zero)]
    /\ base = [h \in Handles |-> FirstAddr]
    /\ flag = [h \in Handles |-> Unflagged]
    /\ trimAt = [h \in Handles |-> 0]
    /\ commit = [k \in Commits |-> IdleCommit]
    /\ disk = [attr |-> Zero, shape |-> Zero, meta |-> Zero]
    /\ format \in Formats
    /\ sole \in Clients
    /\ since = [h \in Handles |-> Zero]
    /\ resized = Zero
    /\ used = [updates |-> 0, commits |-> 0, trims |-> 0, mishaps |-> 0]

(***************************************************************************)
(* Constructing Variables                                                  *)
(***************************************************************************)

\* (mutant of Construct: the attributes come from the consolidated metadata)
ConstructFromConsolidated(h, trim) ==
    /\ cell[h] = Closed
    /\ attrs' = [attrs EXCEPT ![h] = Objects(disk.meta)]
    /\ base' = [base EXCEPT ![h] = FirstAddr]
    /\ cell' = [cell EXCEPT ![h] = h]
    /\ flag' = [flag EXCEPT ![h] = Unflagged]
    /\ since' = [since EXCEPT ![h] = Zero]
    /\ trimAt' = [trimAt EXCEPT ![h] = trim]

\* Dataset::Open by path: every Variable reads its attributes from the store,
\* gets a UserAttributes object of its own and remembers its address. (Every
\* file is read in the same step.)
Construct(h, trim) ==
    /\ cell[h] = Closed
    /\ attrs' = [attrs EXCEPT ![h] = Objects(disk.attr)]
    /\ base' = [base EXCEPT ![h] = FirstAddr]
    /\ cell' = [cell EXCEPT ![h] = h]
    /\ flag' = [flag EXCEPT ![h] = Unflagged]
    /\ since' = [since EXCEPT ![h] = Zero]
    /\ trimAt' = [trimAt EXCEPT ![h] = trim]

\* A handle is opened once its own cells are not shared by an older slice.
OpenDataset(h) ==
    /\ ClientFree
    /\ sole => Open = {}
    /\ \A g \in Open : cell[g] # h
    /\ Construct(h, 0)
    /\ UNCHANGED <<commit, disk, fixed, resized, used>>

\* Dataset::isel: a Variable with one of the sliced labels is rebuilt by the
\* constructor (it shares the attribute cell and remembers the address of the
\* object it finds there); one without is a plain copy of the original.
Slice(g, h, sliced) ==
    /\ ClientFree
    /\ h \in Open \ Trimming
    /\ cell[g] = Closed
    /\ cell' = [cell EXCEPT ![g] = cell[h]]
    /\ base' = [base EXCEPT ![g] =
                    [v \in Vars |-> IF v \in sliced THEN Current(h, v).addr ELSE base[h][v]]]
    /\ flag' = [flag EXCEPT ![g] =
                    [v \in Vars |-> v \notin sliced /\ flag[h][v]]]
    /\ since' = [since EXCEPT ![g] =
                    [v \in Vars |-> IF v \in sliced THEN 0 ELSE since[h][v]]]
    /\ UNCHANGED <<attrs, trimAt, commit, disk, fixed, resized, used>>

(***************************************************************************)
(* VariableBase::UpdateAttributes: a new object replaces the current one   *)
(* for every Variable that shares the cell. (A document FromJson rejects   *)
(* changes nothing.)                                                       *)
(***************************************************************************)
UpdateAttributes(h, v) ==
    /\ ClientFree
    /\ h \in Open \ Trimming
    /\ used.updates < MaxUpdates
    /\ \E a \in FreeAddrs(h, v) :
        attrs' = [attrs EXCEPT ![cell[h]][v] = [addr |-> a, ver |-> used.updates + 1]]
    /\ since' = [g \in Handles |->
                    IF cell[g] = cell[h] THEN [since[g] EXCEPT ![v] = @ + 1] ELSE since[g]]
    /\ used' = [used EXCEPT !.updates = @ + 1]
    /\ UNCHANGED <<cell, base, flag, trimAt, commit, disk, fixed, resized>>

(***************************************************************************)
(* Dataset::CommitMetadata                                                 *)
(***************************************************************************)
StartedCommit(h) ==
    [IdleCommit EXCEPT
        !.st    = "running",
        !.h     = h,
        !.root  = (cell[h] = h),
        !.alone = Quiet,
        !.mod   = Modified(h),
        !.snap  = [v \in Vars |-> Current(h, v).ver],
        !.pub   = [v \in Vars |-> IF v \notin Modified(h) THEN "none"
                                  ELSE IF format = "V3" THEN "read" ELSE "write"],
        !.group = "write"]

\* The synchronous part: collect the modified variables, reset the publish
\* flags, and start the dataset-wide write and one PublishMetadata each.
CommitMetadata(k, h) ==
    /\ used.commits < MaxCommits
    /\ k = used.commits + 1
    /\ commit' = [commit EXCEPT ![k] =
                    IF Modified(h) = {}
                    THEN [IdleCommit EXCEPT !.st = "done", !.h = h, !.res = "unmodified"]
                    ELSE StartedCommit(h)]
    /\ flag' = [flag EXCEPT ![h] = Unflagged]
    /\ used' = [used EXCEPT !.commits = @ + 1]
    /\ UNCHANGED <<attrs, base, disk, fixed, since, resized>>

ClientCommit(k, h) ==
    /\ ClientFree
    /\ h \in Open \ Trimming
    /\ CommitMetadata(k, h)
    /\ UNCHANGED <<cell, trimAt>>

\* An operation of the store reports an error (a write may have reached the
\* store all the same), or the process dies.
Mishap == used.mishaps < MaxMishaps /\ used' = [used EXCEPT !.mishaps = @ + 1]

\* write_zmetadata. V2: .zattrs, .zgroup and .zmetadata in parallel, the last
\* with the attributes of every variable; V3: the root zarr.json, which holds
\* no variable's attributes.
GroupWrite(k) ==
    /\ commit[k].group = "write"
    /\ \/ /\ commit' = [commit EXCEPT ![k].group = "ok"]
          /\ disk' = IF format = "V2" THEN [disk EXCEPT !.meta = commit[k].snap] ELSE disk
          /\ UNCHANGED used
       \/ /\ Mishap
          /\ commit' = [commit EXCEPT ![k].group = "failed"]
          /\ \/ UNCHANGED disk
             \/ /\ format = "V2"
                /\ disk' = [disk EXCEPT !.meta = commit[k].snap]
    /\ UNCHANGED <<memory, fixed, since, resized>>

\* (mutant of PublishRead: the document is rebuilt from what the handle knew
\* when it was opened)
PublishReadCached(k, v) ==
    /\ commit[k].pub[v] = "read"
    /\ commit' = [commit EXCEPT ![k].pub[v] = "write"]
    /\ UNCHANGED <<memory, disk, fixed, since, resized, used>>

\* (mutant of PublishRead: a failed read drops the promise)
PublishReadForgets(k, v) ==
    /\ commit[k].pub[v] = "read"
    /\ \/ /\ commit' = [commit EXCEPT ![k].pub[v] = "write", ![k].seen[v] = disk.shape[v]]
          /\ UNCHANGED used
       \/ /\ Mishap
          /\ commit' = [commit EXCEPT ![k].pub[v] = "lost"]
    /\ UNCHANGED <<memory, disk, fixed, since, resized>>

\* PublishMetadata, V3: the zarr.json is read first; a failed read or parse
\* ends the publish.
PublishRead(k, v) ==
    /\ commit[k].pub[v] = "read"
    /\ \/ /\ commit' = [commit EXCEPT ![k].pub[v] = "write", ![k].seen[v] = disk.shape[v]]
          /\ UNCHANGED used
       \/ /\ Mishap
          /\ commit' = [commit EXCEPT ![k].pub[v] = "failed"]
    /\ UNCHANGED <<memory, disk, fixed, since, resized>>

\* (mutant of Published: the attributes are taken at the write, not at the call)
PublishedLate(k, v) ==
    [disk EXCEPT !.attr[v] = IF commit[k].h \in Open THEN Current(commit[k].h, v).ver ELSE @]

\* The array as a publish writes it. V2 replaces .zattrs; V3 writes back the
\* whole document it has read, with the attributes replaced.
Published(k, v) ==
    IF format = "V2"
    THEN [disk EXCEPT !.attr[v] = commit[k].snap[v]]
    ELSE [disk EXCEPT !.attr[v] = commit[k].snap[v], !.shape[v] = commit[k].seen[v]]

\* PublishMetadata's write. _dataset_only_callback_committed then runs on the
\* copy CommitMetadata made, so no handle's base changes.
PublishWrite(k, v) ==
    /\ commit[k].pub[v] = "write"
    /\ \/ /\ commit' = [commit EXCEPT ![k].pub[v] = "ok"]
          /\ disk' = Published(k, v)
          /\ UNCHANGED used
       \/ /\ Mishap
          /\ commit' = [commit EXCEPT ![k].pub[v] = "failed"]
          /\ disk' \in {disk, Published(k, v)}
    /\ UNCHANGED <<memory, fixed, since, resized>>

\* (mutant of AllDoneReady: the dataset-wide write is not waited for)
AllPublished(c) == \A v \in c.mod : c.pub[v] \in {"ok", "failed"}

\* WaitAllFuture: ready with the first error, or when everything is ready.
AllDoneReady(c) ==
    \/ c.group = "failed"
    \/ \E v \in c.mod : c.pub[v] = "failed"
    \/ c.group = "ok" /\ \A v \in c.mod : c.pub[v] = "ok"

\* (mutant of Resolve: the results of the updates are not looked at)
ResolveUnchecked(k) ==
    /\ commit[k].st = "running"
    /\ AllDoneReady(commit[k])
    /\ commit' = [commit EXCEPT ![k].st = "done", ![k].res = "ok"]
    /\ UNCHANGED <<memory, disk, fixed, since, resized, used>>

\* The continuation: it takes the updates in order, blocking on each, and
\* reports the first error; the dataset-wide write is not among them.
Resolve(k) ==
    /\ commit[k].st = "running"
    /\ AllDoneReady(commit[k])
    /\ \/ /\ \A v \in commit[k].mod : commit[k].pub[v] = "ok"
          /\ commit' = [commit EXCEPT ![k].st = "done", ![k].res = "ok"]
       \/ /\ \E v \in commit[k].mod :
                /\ commit[k].pub[v] = "failed"
                /\ \A u \in commit[k].mod : u < v => commit[k].pub[u] = "ok"
          /\ commit' = [commit EXCEPT ![k].st = "done", ![k].res = "error"]
    /\ UNCHANGED <<memory, disk, fixed, since, resized, used>>

(***************************************************************************)
(* utils::TrimDataset: opens the dataset by path, then flags and resizes   *)
(* every variable in order, waiting for each; commits at the end, and      *)
(* returns as soon as one resize fails. Its Dataset is gone when it        *)
(* returns.                                                                *)
(***************************************************************************)
TrimStart(h) ==
    /\ ClientFree
    /\ used.trims < MaxTrims
    /\ \A g \in Open : cell[g] # h
    /\ Construct(h, 1)
    /\ used' = [used EXCEPT !.trims = @ + 1]
    /\ UNCHANGED <<commit, disk, fixed, resized>>

TrimVariable(h) ==
    /\ h \in Trimming
    /\ trimAt[h] \in Vars
    /\ LET v == trimAt[h] IN
        \/ /\ flag' = [flag EXCEPT ![h][v] = TRUE]
           /\ disk' = [disk EXCEPT !.shape[v] = @ + 1]
           /\ resized' = [resized EXCEPT ![v] = @ + 1]
           /\ trimAt' = [trimAt EXCEPT ![h] = v + 1]
           /\ UNCHANGED <<cell, used>>
        \/ /\ Mishap
           /\ cell' = [cell EXCEPT ![h] = Closed]
           /\ flag' = [flag EXCEPT ![h] = Unflagged]
           /\ trimAt' = [trimAt EXCEPT ![h] = 0]
           /\ UNCHANGED <<disk, resized>>
    /\ UNCHANGED <<attrs, base, commit, fixed, since>>

TrimCommit(k, h) ==
    /\ h \in Trimming
    /\ trimAt[h] = NumVars + 1
    /\ CommitMetadata(k, h)
    /\ cell' = [cell EXCEPT ![h] = Closed]
    /\ trimAt' = [trimAt EXCEPT ![h] = 0]

(***************************************************************************)
(* The process dies: its memory is gone and so is every operation that has *)
(* not reached the store.                                                  *)
(***************************************************************************)
Dead(c) ==
    [c EXCEPT !.st    = IF @ = "running" THEN "dead" ELSE @,
              !.group = IF @ = "write" THEN "lost" ELSE @,
              !.pub   = [v \in Vars |-> IF @[v] \in {"read", "write"} THEN "lost" ELSE @[v]]]

Crash ==
    /\ Mishap
    /\ cell' = [h \in Handles |-> Closed]
    /\ attrs' = [h \in Handles |-> Objects(Zero)]
    /\ base' = [h \in Handles |-> FirstAddr]
    /\ flag' = [h \in Handles |-> Unflagged]
    /\ trimAt' = [h \in Handles |-> 0]
    /\ since' = [h \in Handles |-> Zero]
    /\ commit' = [k \in Commits |-> Dead(commit[k])]
    /\ UNCHANGED <<disk, fixed, resized>>

(***************************************************************************)
(* Specification                                                           *)
(***************************************************************************)
Client ==
    \/ \E h \in Handles : OpenDataset(h) \/ TrimStart(h)
    \/ \E g, h \in Handles, sliced \in SUBSET Vars : Slice(g, h, sliced)
    \/ \E h \in Handles, v \in Vars : UpdateAttributes(h, v)
    \/ \E k \in Commits, h \in Handles : ClientCommit(k, h)

\* Work already under way: store operations, continuations, a trim's loop.
Background ==
    \/ \E k \in Commits : GroupWrite(k) \/ Resolve(k)
    \/ \E k \in Commits, v \in Vars : PublishRead(k, v) \/ PublishWrite(k, v)
    \/ \E h \in Handles : TrimVariable(h)
    \/ \E k \in Commits, h \in Handles : TrimCommit(k, h)

Next == Client \/ Background \/ Crash

Spec == Init /\ [][Next]_vars

\* Every store operation that was started ends, well or badly, and its
\* continuation runs: TensorStore completes each operation on its thread pool.
CommitStep(k) ==
    \/ GroupWrite(k) \/ Resolve(k)
    \/ \E v \in Vars : PublishRead(k, v) \/ PublishWrite(k, v)

FairSpec == Spec /\ \A k \in Commits : WF_vars(CommitStep(k))

(***************************************************************************)
(* Properties                                                              *)
(***************************************************************************)

\* What was_updated() can promise when it compares addresses: a Variable that
\* saw no update since it was constructed is never reported as modified, and
\* one that saw exactly one update always is, whichever addresses the
\* allocator hands out, because make_shared runs before the old object dies.
FirstUpdateDetected ==
    \A h \in Open, v \in Vars :
        /\ since[h][v] = 0 => ~WasUpdated(h, v)
        /\ since[h][v] = 1 => WasUpdated(h, v)

\* "Checks if the User Attributes have changed since construction": every
\* changed Variable is reported, so that CommitMetadata publishes it.
ChangesDetected ==
    \A h \in Open, v \in Vars : since[h][v] > 0 => WasUpdated(h, v)

\* A commit that reports success has nothing left in flight: each of its
\* variables is published, and the dataset-wide write has ended.
OkMeansSettled ==
    \A k \in Commits : commit[k].res = "ok" =>
        /\ commit[k].group \in {"ok", "failed"}
        /\ \A v \in commit[k].mod : commit[k].pub[v] = "ok"

\* For a sole client: once a commit that started with
\* nothing in flight succeeds, the store never goes back to older attributes
\* of a variable it published, whatever fails or crashes later.
CommittedSurvives ==
    sole => \A k \in Commits :
        commit[k].res = "ok" /\ commit[k].alone =>
            \A v \in commit[k].mod : disk.attr[v] >= commit[k].snap[v]

\* Publishing attributes keeps "the array's other metadata (codecs, shape,
\* fill value, etc)": every resize the store acknowledged stays in the array's
\* metadata.
OtherMetadataKept == disk.shape = resized

\* The same for a sole client, while no commit leaves work behind: the V3
\* read-modify-write then starts from the current document.
AwaitedShapeKept ==
    sole /\ (\A k \in Commits : commit[k].res # "error") => OtherMetadataKept

\* The commits which end successfully, dataset-wide write included, in a step.
Succeeds(k) == /\ commit[k].st = "running" /\ commit[k].group = "ok"
               /\ commit'[k].res = "ok"

\* V2 keeps each variable's attributes twice. For a sole client, when address
\* comparison has missed no change, a successful commit leaves the consolidated .zmetadata equal to
\* all the .zattrs, also after a crash between the two kinds of write.
ConsolidatedAgrees ==
    [][ \A k \in Commits :
          Succeeds(k) /\ sole /\ format = "V2" /\ commit[k].alone /\ commit[k].root
          /\ ChangesDetected
            => disk'.meta = disk'.attr ]_vars

\* Every commit's future becomes ready, also when operations fail; only a
\* crash of the process ends the wait otherwise.
CommitResolves ==
    \A k \in Commits : commit[k].st = "running" ~> commit[k].st \in {"done", "dead"}

\* What a Variable of h shows to a commit, whatever the addresses.
Due(h, v) ==
    CASE cell[h] = Closed -> "no"
      [] cell[h] # Closed /\ (flag[h][v] \/ since[h][v] = 1) -> "yes"
      [] cell[h] # Closed /\ ~flag[h][v] /\ since[h][v] = 0 -> "no"
      [] OTHER -> "maybe"

Progress(c) ==
    [state  |-> IF c.st = "done" THEN c.res ELSE c.st,
     takes  |-> [v \in c.mod |-> c.snap[v]],
     left   |-> {v \in Vars : c.pub[v] \in {"read", "write"}},
     missed |-> {v \in Vars : c.pub[v] = "failed"}]

Promise == INSTANCE Publication WITH
    Contents <- 0..MaxUpdates,
    shares   <- cell,
    held     <- [h \in Handles |-> [v \in Vars |-> attrs[h][v].ver]],
    due      <- [h \in Handles |-> [v \in Vars |-> Due(h, v)]],
    call     <- [k \in Commits |-> Progress(commit[k])],
    stored   <- disk.attr

\* Addresses, files, what is read before it is written and the order of the
\* futures implement Publication, for any clients and both formats.
PublicationKept == Promise!Spec
=============================================================================
