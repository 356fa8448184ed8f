----------------------- MODULE MetadataCommitProofs -----------------------
(***************************************************************************)
(* Machine-checked proofs about MetadataCommit, for every number of        *)
(* variables, handles, addresses, updates, commits, trims and mishaps.     *)
(***************************************************************************)
EXTENDS MetadataCommit, TLAPS

USE NumVarsAssumption, NumAddrsAssumption, ReuseAssumption, ClientsAssumption,
    FormatsAssumption, BoundsAssumption

LEMMA AddrOne == 1 \in Addrs
BY DEF Addrs

LEMMA ConstantTypes ==
    /\ Zero \in [Vars -> Nat]
    /\ Unflagged \in [Vars -> BOOLEAN]
    /\ FirstAddr \in [Vars -> Addrs]
    /\ \A vers \in [Vars -> Nat] : Objects(vers) \in [Vars -> Object]
    /\ IdleCommit \in CommitState
BY AddrOne DEF Zero, Unflagged, FirstAddr, Objects, Object, IdleCommit, CommitState,
    PubState, GroupState

LEMMA InitType == Init => TypeOK
<1> SUFFICES ASSUME Init PROVE TypeOK
    OBVIOUS
<1>1. cell \in [Handles -> Handles \cup {Closed}] /\ trimAt \in [Handles -> 0..(NumVars + 1)]
    BY DEF Init
<1>2. /\ attrs \in [Handles -> [Vars -> Object]] /\ base \in [Handles -> [Vars -> Addrs]]
      /\ flag \in [Handles -> [Vars -> BOOLEAN]] /\ since \in [Handles -> [Vars -> Nat]]
      /\ resized \in [Vars -> Nat]
    BY ConstantTypes DEF Init
<1>3. commit \in [Commits -> CommitState]
    BY ConstantTypes DEF Init
<1>4. disk \in [attr : [Vars -> Nat], shape : [Vars -> Nat], meta : [Vars -> Nat]]
    BY ConstantTypes DEF Init
<1>5. format \in {"V2", "V3"} /\ sole \in BOOLEAN
    BY DEF Init
<1>6. used \in [updates : Nat, commits : Nat, trims : Nat, mishaps : Nat]
    BY DEF Init
<1> QED
    BY <1>1, <1>2, <1>3, <1>4, <1>5, <1>6 DEF TypeOK

(***************************************************************************)
(* Types are preserved, one lemma per action.                              *)
(***************************************************************************)

\* A handle that is open has the cells of some handle.
LEMMA CurrentType ==
    ASSUME TypeOK, NEW h \in Open, NEW v \in Vars
    PROVE  cell[h] \in Handles /\ Current(h, v) \in Object
BY DEF TypeOK, Open, Current

LEMMA ConstructType ==
    ASSUME TypeOK, NEW h \in Handles, NEW trim \in 0..1, Construct(h, trim)
    PROVE  /\ cell' \in [Handles -> Handles \cup {Closed}]
           /\ attrs' \in [Handles -> [Vars -> Object]]
           /\ base' \in [Handles -> [Vars -> Addrs]]
           /\ flag' \in [Handles -> [Vars -> BOOLEAN]]
           /\ trimAt' \in [Handles -> 0..(NumVars + 1)]
           /\ since' \in [Handles -> [Vars -> Nat]]
<1>1. Objects(disk.attr) \in [Vars -> Object]
    BY ConstantTypes DEF TypeOK
<1>2. trim \in 0..(NumVars + 1)
    OBVIOUS
<1> QED
    BY <1>1, <1>2, ConstantTypes DEF TypeOK, Construct

Counters == [updates : Nat, commits : Nat, trims : Nat, mishaps : Nat]

LEMMA CountersType ==
    ASSUME TypeOK
    PROVE  /\ [used EXCEPT !.updates = @ + 1] \in Counters
           /\ [used EXCEPT !.commits = @ + 1] \in Counters
           /\ [used EXCEPT !.trims = @ + 1] \in Counters
           /\ [used EXCEPT !.mishaps = @ + 1] \in Counters
<1>1. used \in Counters
    BY DEF TypeOK, Counters
<1> QED
    BY <1>1 DEF Counters

LEMMA MishapType ==
    ASSUME TypeOK, Mishap
    PROVE  used' \in Counters
BY CountersType DEF Mishap

LEMMA OpenDatasetType ==
    ASSUME TypeOK, NEW h \in Handles, OpenDataset(h)
    PROVE  TypeOK'
<1>1. 0 \in 0..1 /\ Construct(h, 0)
    BY DEF OpenDataset
<1> QED
    BY <1>1, ConstructType DEF TypeOK, OpenDataset, fixed

LEMMA SliceType ==
    ASSUME TypeOK, NEW g \in Handles, NEW h \in Handles, NEW sliced \in SUBSET Vars,
           Slice(g, h, sliced)
    PROVE  TypeOK'
<1>1. h \in Open /\ cell[h] \in Handles
    BY CurrentType DEF Slice, Open, TypeOK
<1>2. base' \in [Handles -> [Vars -> Addrs]]
    BY <1>1, CurrentType DEF Slice, TypeOK, Object
<1>3. cell' \in [Handles -> Handles \cup {Closed}]
    BY <1>1 DEF Slice, TypeOK
<1>4. flag' \in [Handles -> [Vars -> BOOLEAN]] /\ since' \in [Handles -> [Vars -> Nat]]
    BY DEF Slice, TypeOK
<1> QED
    BY <1>2, <1>3, <1>4 DEF Slice, TypeOK, fixed

LEMMA UpdateAttributesType ==
    ASSUME TypeOK, NEW h \in Handles, NEW v \in Vars, UpdateAttributes(h, v)
    PROVE  TypeOK'
<1>1. h \in Open /\ cell[h] \in Handles
    BY CurrentType DEF UpdateAttributes, Open, TypeOK
<1>2. attrs' \in [Handles -> [Vars -> Object]]
    <2>1. PICK a \in FreeAddrs(h, v) :
            attrs' = [attrs EXCEPT ![cell[h]][v] = [addr |-> a, ver |-> used.updates + 1]]
        BY DEF UpdateAttributes
    <2>2. [addr |-> a, ver |-> used.updates + 1] \in Object
        BY <2>1 DEF FreeAddrs, Object, TypeOK
    <2> QED
        BY <1>1, <2>1, <2>2 DEF TypeOK
<1>3. since' \in [Handles -> [Vars -> Nat]]
    BY DEF UpdateAttributes, TypeOK
<1>4. used' \in Counters
    BY CountersType DEF UpdateAttributes
<1> QED
    BY <1>2, <1>3, <1>4 DEF UpdateAttributes, TypeOK, fixed, Counters

LEMMA CommitMetadataType ==
    ASSUME TypeOK, NEW k \in Commits, NEW h \in Open, CommitMetadata(k, h)
    PROVE  /\ commit' \in [Commits -> CommitState]
           /\ flag' \in [Handles -> [Vars -> BOOLEAN]]
           /\ used' \in Counters
<1>1. h \in Handles
    BY DEF Open
<1>2. StartedCommit(h) \in CommitState
    <2>1. [v \in Vars |-> Current(h, v).ver] \in [Vars -> Nat]
        BY CurrentType DEF Object
    <2>2. [v \in Vars |-> IF v \notin Modified(h) THEN "none"
                          ELSE IF format = "V3" THEN "read" ELSE "write"]
             \in [Vars -> PubState]
        BY DEF PubState
    <2>3. Modified(h) \in SUBSET Vars /\ Quiet \in BOOLEAN /\ (cell[h] = h) \in BOOLEAN
        BY DEF Modified, Quiet
    <2> QED
        BY <1>1, <2>1, <2>2, <2>3, ConstantTypes
        DEF StartedCommit, CommitState, IdleCommit, GroupState
<1>3. [IdleCommit EXCEPT !.st = "done", !.h = h, !.res = "unmodified"] \in CommitState
    BY <1>1, ConstantTypes DEF CommitState, IdleCommit
<1>4. commit' \in [Commits -> CommitState]
    BY <1>2, <1>3 DEF CommitMetadata, TypeOK
<1>5. flag' \in [Handles -> [Vars -> BOOLEAN]]
    BY ConstantTypes DEF CommitMetadata, TypeOK
<1>6. used' \in Counters
    BY CountersType DEF CommitMetadata
<1> QED
    BY <1>4, <1>5, <1>6

LEMMA ClientCommitType ==
    ASSUME TypeOK, NEW k \in Commits, NEW h \in Handles, ClientCommit(k, h)
    PROVE  TypeOK'
<1>1. h \in Open /\ CommitMetadata(k, h)
    BY DEF ClientCommit
<1> QED
    BY <1>1, CommitMetadataType DEF ClientCommit, CommitMetadata, TypeOK, fixed, Counters

\* Replacing one commit leaves commits well formed; so do the new states a
\* step gives one.
LEMMA CommitReplaced ==
    ASSUME TypeOK, NEW k \in Commits, NEW d \in CommitState,
           commit' = [commit EXCEPT ![k] = d]
    PROVE  commit' \in [Commits -> CommitState]
BY DEF TypeOK

LEMMA CommitFieldType ==
    ASSUME NEW c \in CommitState, NEW v \in Vars
    PROVE  /\ \A g \in GroupState : [c EXCEPT !.group = g] \in CommitState
           /\ \A p \in PubState : [c EXCEPT !.pub[v] = p] \in CommitState
           /\ \A n \in Nat : [c EXCEPT !.pub[v] = "write", !.seen[v] = n] \in CommitState
           /\ \A r \in {"ok", "error"} : [c EXCEPT !.st = "done", !.res = r] \in CommitState
BY DEF CommitState, PubState

DiskType == [attr : [Vars -> Nat], shape : [Vars -> Nat], meta : [Vars -> Nat]]

LEMMA GroupWriteType ==
    ASSUME TypeOK, NEW k \in Commits, GroupWrite(k)
    PROVE  TypeOK'
<1>1. commit[k].snap \in [Vars -> Nat]
    BY DEF TypeOK, CommitState
<1>2. disk \in DiskType /\ [disk EXCEPT !.meta = commit[k].snap] \in DiskType
    BY <1>1 DEF TypeOK, DiskType
<1>3. disk' \in DiskType
    BY <1>2 DEF GroupWrite
<1>4. used' \in Counters
    BY MishapType DEF GroupWrite, TypeOK, Counters
<1>5. commit' \in [Commits -> CommitState]
    <2>1. commit[k] \in CommitState /\ 1 \in Vars
        BY DEF TypeOK, Vars
    <2>2. /\ [commit[k] EXCEPT !.group = "ok"] \in CommitState
          /\ [commit[k] EXCEPT !.group = "failed"] \in CommitState
        BY <2>1, CommitFieldType DEF GroupState
    <2> QED
        BY <2>2 DEF GroupWrite, TypeOK
<1> QED
    BY <1>3, <1>4, <1>5 DEF GroupWrite, TypeOK, memory, fixed, Counters, DiskType

LEMMA PublishReadType ==
    ASSUME TypeOK, NEW k \in Commits, NEW v \in Vars, PublishRead(k, v)
    PROVE  TypeOK'
<1>1. disk.shape[v] \in Nat
    BY DEF TypeOK
<1>2. used' \in Counters
    BY MishapType DEF PublishRead, TypeOK, Counters
<1>3. commit' \in [Commits -> CommitState]
    <2>1. commit[k] \in CommitState
        BY DEF TypeOK
    <2>2. /\ [commit[k] EXCEPT !.pub[v] = "write", !.seen[v] = disk.shape[v]] \in CommitState
          /\ [commit[k] EXCEPT !.pub[v] = "failed"] \in CommitState
        BY <1>1, <2>1, CommitFieldType DEF PubState
    <2> QED
        BY <2>2 DEF PublishRead, TypeOK
<1> QED
    BY <1>2, <1>3 DEF PublishRead, TypeOK, memory, fixed, Counters

LEMMA PublishedType ==
    ASSUME TypeOK, NEW k \in Commits, NEW v \in Vars
    PROVE  disk \in DiskType /\ Published(k, v) \in DiskType
<1>1. disk \in DiskType
    BY DEF TypeOK, DiskType
<1>2. commit[k].snap[v] \in Nat /\ commit[k].seen[v] \in Nat
    BY DEF TypeOK, CommitState
<1> QED
    BY <1>1, <1>2 DEF Published, DiskType

LEMMA PublishWriteType ==
    ASSUME TypeOK, NEW k \in Commits, NEW v \in Vars, PublishWrite(k, v)
    PROVE  TypeOK'
<1>1. disk' \in DiskType
    BY PublishedType DEF PublishWrite
<1>2. used' \in Counters
    BY MishapType DEF PublishWrite, TypeOK, Counters
<1>3. commit' \in [Commits -> CommitState]
    <2>1. commit[k] \in CommitState
        BY DEF TypeOK
    <2>2. /\ [commit[k] EXCEPT !.pub[v] = "ok"] \in CommitState
          /\ [commit[k] EXCEPT !.pub[v] = "failed"] \in CommitState
        BY <2>1, CommitFieldType DEF PubState
    <2> QED
        BY <2>2 DEF PublishWrite, TypeOK
<1> QED
    BY <1>1, <1>2, <1>3 DEF PublishWrite, TypeOK, memory, fixed, Counters, DiskType

LEMMA ResolveType ==
    ASSUME TypeOK, NEW k \in Commits, Resolve(k)
    PROVE  TypeOK'
<1>1. commit' \in [Commits -> CommitState]
    <2>1. commit[k] \in CommitState /\ 1 \in Vars
        BY DEF TypeOK, Vars
    <2>2. /\ [commit[k] EXCEPT !.st = "done", !.res = "ok"] \in CommitState
          /\ [commit[k] EXCEPT !.st = "done", !.res = "error"] \in CommitState
        BY <2>1, CommitFieldType
    <2> QED
        BY <2>2 DEF Resolve, TypeOK
<1> QED
    BY <1>1 DEF Resolve, TypeOK, memory, fixed

LEMMA TrimStartType ==
    ASSUME TypeOK, NEW h \in Handles, TrimStart(h)
    PROVE  TypeOK'
<1>1. 1 \in 0..1 /\ Construct(h, 1)
    BY DEF TrimStart
<1>2. used' \in Counters
    BY CountersType DEF TrimStart
<1> QED
    BY <1>1, <1>2, ConstructType DEF TypeOK, TrimStart, fixed, Counters

\* What resizing one variable does to the functions it changes.
LEMMA ResizeTypes ==
    ASSUME TypeOK, NEW h \in Handles, NEW v \in Vars
    PROVE  /\ [disk EXCEPT !.shape[v] = @ + 1] \in DiskType
           /\ [resized EXCEPT ![v] = @ + 1] \in [Vars -> Nat]
           /\ [flag EXCEPT ![h][v] = TRUE] \in [Handles -> [Vars -> BOOLEAN]]
<1>1. disk \in DiskType /\ resized \in [Vars -> Nat] /\ flag \in [Handles -> [Vars -> BOOLEAN]]
    BY DEF TypeOK, DiskType
<1>2. disk.shape[v] + 1 \in Nat /\ resized[v] + 1 \in Nat
    BY <1>1 DEF DiskType
<1>3. [disk.shape EXCEPT ![v] = @ + 1] \in [Vars -> Nat]
    BY <1>1, <1>2 DEF DiskType
<1> QED
    BY <1>1, <1>2, <1>3 DEF DiskType

LEMMA TrimVariableType ==
    ASSUME TypeOK, NEW h \in Handles, TrimVariable(h)
    PROVE  TypeOK'
<1>1. PICK v \in Vars : v = trimAt[h]
    BY DEF TrimVariable
<1>2. v + 1 \in 0..(NumVars + 1) /\ 0 \in 0..(NumVars + 1)
    BY DEF Vars
<1>3. disk' \in DiskType
    BY <1>1, ResizeTypes DEF TrimVariable, TypeOK, DiskType
<1>4. resized' \in [Vars -> Nat]
    BY <1>1, ResizeTypes DEF TrimVariable, TypeOK
<1>5. used' \in Counters
    BY MishapType DEF TrimVariable, TypeOK, Counters
<1>6. flag' \in [Handles -> [Vars -> BOOLEAN]]
    <2>1. \/ flag' = [flag EXCEPT ![h][v] = TRUE]
          \/ flag' = [flag EXCEPT ![h] = Unflagged]
        <3>1. \/ flag' = [flag EXCEPT ![h][trimAt[h]] = TRUE]
              \/ flag' = [flag EXCEPT ![h] = Unflagged]
            BY DEF TrimVariable
        <3> QED
            BY <1>1, <3>1
    <2>2. [flag EXCEPT ![h] = Unflagged] \in [Handles -> [Vars -> BOOLEAN]]
        BY ConstantTypes DEF TypeOK
    <2>3. [flag EXCEPT ![h][v] = TRUE] \in [Handles -> [Vars -> BOOLEAN]]
        BY ResizeTypes
    <2> QED
        BY <2>1, <2>2, <2>3
<1>7. trimAt' \in [Handles -> 0..(NumVars + 1)]
    BY <1>1, <1>2 DEF TrimVariable, TypeOK
<1>8. cell' \in [Handles -> Handles \cup {Closed}]
    BY DEF TrimVariable, TypeOK
<1> QED
    BY <1>3, <1>4, <1>5, <1>6, <1>7, <1>8
    DEF TrimVariable, TypeOK, fixed, Counters, DiskType

LEMMA TrimCommitType ==
    ASSUME TypeOK, NEW k \in Commits, NEW h \in Handles, TrimCommit(k, h)
    PROVE  TypeOK'
<1>1. h \in Open /\ CommitMetadata(k, h)
    BY DEF TrimCommit, Trimming
<1>2. cell' \in [Handles -> Handles \cup {Closed}] /\ trimAt' \in [Handles -> 0..(NumVars + 1)]
    BY <1>1 DEF TrimCommit, TypeOK
<1> QED
    BY <1>1, <1>2, CommitMetadataType DEF CommitMetadata, TypeOK, fixed, Counters

LEMMA CrashType ==
    ASSUME TypeOK, Crash
    PROVE  TypeOK'
<1>1. ASSUME NEW c \in CommitState PROVE Dead(c) \in CommitState
    BY DEF Dead, CommitState, GroupState, PubState
<1>2. commit' \in [Commits -> CommitState]
    BY <1>1 DEF Crash, TypeOK
<1>3. /\ cell' \in [Handles -> Handles \cup {Closed}]
      /\ trimAt' \in [Handles -> 0..(NumVars + 1)]
      /\ attrs' \in [Handles -> [Vars -> Object]] /\ base' \in [Handles -> [Vars -> Addrs]]
      /\ flag' \in [Handles -> [Vars -> BOOLEAN]] /\ since' \in [Handles -> [Vars -> Nat]]
    BY ConstantTypes DEF Crash
<1>4. used' \in Counters
    BY MishapType DEF Crash
<1> QED
    BY <1>2, <1>3, <1>4 DEF Crash, TypeOK, fixed, Counters

LEMMA StutterType ==
    ASSUME TypeOK, UNCHANGED vars
    PROVE  TypeOK'
BY DEF TypeOK, vars

LEMMA TypeStep ==
    ASSUME TypeOK, [Next]_vars
    PROVE  TypeOK'
<1>1. ASSUME NEW h \in Handles, OpenDataset(h) \/ TrimStart(h)
      PROVE  TypeOK'
    BY <1>1, OpenDatasetType, TrimStartType
<1>2. ASSUME NEW g \in Handles, NEW h \in Handles, NEW sliced \in SUBSET Vars,
             Slice(g, h, sliced)
      PROVE  TypeOK'
    BY <1>2, SliceType
<1>3. ASSUME NEW h \in Handles, NEW v \in Vars, UpdateAttributes(h, v)
      PROVE  TypeOK'
    BY <1>3, UpdateAttributesType
<1>4. ASSUME NEW k \in Commits, NEW h \in Handles, ClientCommit(k, h) \/ TrimCommit(k, h)
      PROVE  TypeOK'
    BY <1>4, ClientCommitType, TrimCommitType
<1>5. ASSUME NEW k \in Commits, GroupWrite(k) \/ Resolve(k)
      PROVE  TypeOK'
    BY <1>5, GroupWriteType, ResolveType
<1>6. ASSUME NEW k \in Commits, NEW v \in Vars, PublishRead(k, v) \/ PublishWrite(k, v)
      PROVE  TypeOK'
    BY <1>6, PublishReadType, PublishWriteType
<1>7. ASSUME NEW h \in Handles, TrimVariable(h)
      PROVE  TypeOK'
    BY <1>7, TrimVariableType
<1>8. CASE Crash
    BY <1>8, CrashType
<1>9. CASE UNCHANGED vars
    BY <1>9, StutterType
<1> QED
    BY <1>1, <1>2, <1>3, <1>4, <1>5, <1>6, <1>7, <1>8, <1>9
    DEF Next, Client, Background

\* Every reachable state is well typed, whatever fails and in whatever order
\* the store's operations complete.
THEOREM TypeCorrect == Spec => []TypeOK
<1>1. Init => TypeOK
    BY InitType
<1>2. TypeOK /\ [Next]_vars => TypeOK'
    BY TypeStep
<1> QED
    BY <1>1, <1>2, PTL DEF Spec

(***************************************************************************)
(* Address comparison detects the first update (variable.h, was_updated).  *)
(* The property is inductive with the types: an object's address is chosen *)
(* outside the current one, and a slice copies or re-reads address and     *)
(* count together.                                                         *)
(***************************************************************************)

\* The part of FirstUpdateDetected about one Variable.
FirstUpdateOf(h, v) ==
    /\ since[h][v] = 0 => ~WasUpdated(h, v)
    /\ since[h][v] = 1 => WasUpdated(h, v)

\* A step that leaves the memory of the open handles alone, or only closes
\* some of them, keeps what is known of each.
LEMMA FirstUpdateKept ==
    ASSUME FirstUpdateDetected, UNCHANGED <<attrs, base, since>>,
           \A h \in Open' : h \in Open /\ cell'[h] = cell[h]
    PROVE  FirstUpdateDetected'
BY DEF FirstUpdateDetected, WasUpdated, Current

LEMMA FirstUpdateConstruct ==
    ASSUME TypeOK, FirstUpdateDetected, NEW h \in Handles, NEW trim \in 0..1,
           Construct(h, trim), \A g \in Open : cell[g] # h
    PROVE  FirstUpdateDetected'
<1> SUFFICES ASSUME NEW g \in Open', NEW v \in Vars PROVE FirstUpdateOf(g, v)'
    BY DEF FirstUpdateDetected, FirstUpdateOf
<1>1. CASE g = h
    <2>1. attrs'[h][v].addr = 1 /\ base'[h][v] = 1 /\ since'[h][v] = 0 /\ cell'[h] = h
        BY <1>1 DEF Construct, Objects, FirstAddr, Zero, TypeOK
    <2> QED
        BY <1>1, <2>1 DEF FirstUpdateOf, WasUpdated, Current
<1>2. CASE g # h
    <2>1. g \in Open /\ g \in Handles /\ cell'[g] = cell[g] /\ cell[g] # h /\ cell[g] \in Handles
        BY <1>2 DEF Open, Construct, TypeOK
    <2>2. attrs'[cell[g]] = attrs[cell[g]] /\ base'[g] = base[g] /\ since'[g] = since[g]
        BY <1>2, <2>1 DEF Construct, TypeOK
    <2> QED
        BY <2>1, <2>2 DEF FirstUpdateDetected, FirstUpdateOf, WasUpdated, Current
<1> QED
    BY <1>1, <1>2

LEMMA FirstUpdateSlice ==
    ASSUME TypeOK, FirstUpdateDetected, NEW g \in Handles, NEW h \in Handles,
           NEW sliced \in SUBSET Vars, Slice(g, h, sliced)
    PROVE  FirstUpdateDetected'
<1> SUFFICES ASSUME NEW f \in Open', NEW v \in Vars PROVE FirstUpdateOf(f, v)'
    BY DEF FirstUpdateDetected, FirstUpdateOf
<1>1. h \in Open /\ attrs' = attrs
    BY DEF Slice
<1>2. CASE f = g
    <2>1. cell'[g] = cell[h]
        BY DEF Slice, TypeOK
    <2>2. base'[g][v] = IF v \in sliced THEN Current(h, v).addr ELSE base[h][v]
        BY DEF Slice, TypeOK
    <2>3. since'[g][v] = IF v \in sliced THEN 0 ELSE since[h][v]
        BY DEF Slice, TypeOK
    <2>4. Current(g, v)' = Current(h, v)
        BY <1>1, <2>1 DEF Current
    <2> QED
        BY <1>1, <1>2, <2>2, <2>3, <2>4 DEF FirstUpdateDetected, FirstUpdateOf, WasUpdated
<1>3. CASE f # g
    <2>1. f \in Open /\ cell'[f] = cell[f]
        BY <1>3 DEF Open, Slice, TypeOK
    <2>2. base'[f] = base[f] /\ since'[f] = since[f]
        BY <1>3, <2>1 DEF Slice, TypeOK, Open
    <2> QED
        BY <1>1, <2>1, <2>2 DEF FirstUpdateDetected, FirstUpdateOf, WasUpdated, Current
<1> QED
    BY <1>2, <1>3

LEMMA FirstUpdateUpdate ==
    ASSUME TypeOK, FirstUpdateDetected, NEW h \in Handles, NEW u \in Vars,
           UpdateAttributes(h, u)
    PROVE  FirstUpdateDetected'
<1> SUFFICES ASSUME NEW f \in Open', NEW v \in Vars PROVE FirstUpdateOf(f, v)'
    BY DEF FirstUpdateDetected, FirstUpdateOf
<1>1. /\ f \in Open /\ f \in Handles /\ h \in Open
      /\ cell' = cell /\ base' = base /\ cell[f] \in Handles /\ cell[h] \in Handles
    BY DEF Open, UpdateAttributes, TypeOK
<1>2. PICK a \in FreeAddrs(h, u) :
        attrs' = [attrs EXCEPT ![cell[h]][u] = [addr |-> a, ver |-> used.updates + 1]]
    BY DEF UpdateAttributes
<1>3. CASE cell[f] = cell[h] /\ v = u
    <2>1. since'[f][v] = since[f][v] + 1 /\ since[f][v] \in Nat
        BY <1>1, <1>3 DEF UpdateAttributes, TypeOK
    <2>2. Current(f, v)'.addr = a
        BY <1>1, <1>2, <1>3 DEF Current, TypeOK
    <2>3. since[f][v] = 0 => base[f][v] = Current(h, u).addr
        BY <1>1, <1>3 DEF FirstUpdateDetected, WasUpdated, Current
    <2>4. a # Current(h, u).addr
        BY DEF FreeAddrs
    <2> QED
        BY <1>1, <2>1, <2>2, <2>3, <2>4 DEF FirstUpdateOf, WasUpdated
<1>4. CASE ~(cell[f] = cell[h] /\ v = u)
    <2>1. since'[f][v] = since[f][v]
        BY <1>1, <1>4 DEF UpdateAttributes, TypeOK
    <2>2. attrs'[cell[f]][v] = attrs[cell[f]][v]
        BY <1>1, <1>2, <1>4 DEF TypeOK
    <2> QED
        BY <1>1, <2>1, <2>2 DEF FirstUpdateDetected, FirstUpdateOf, WasUpdated, Current
<1> QED
    BY <1>3, <1>4

\* The steps that construct no Variable and replace no attributes.
LEMMA FirstUpdateElsewhere ==
    ASSUME TypeOK, FirstUpdateDetected,
           \/ \E k \in Commits, h \in Handles : ClientCommit(k, h) \/ TrimCommit(k, h)
           \/ \E k \in Commits : GroupWrite(k) \/ Resolve(k)
           \/ \E k \in Commits, v \in Vars : PublishRead(k, v) \/ PublishWrite(k, v)
           \/ \E h \in Handles : TrimVariable(h)
           \/ UNCHANGED vars
    PROVE  FirstUpdateDetected'
<1>1. UNCHANGED <<attrs, base, since>>
    BY DEF ClientCommit, TrimCommit, CommitMetadata, GroupWrite, Resolve, PublishRead,
        PublishWrite, TrimVariable, memory, vars
<1>2. \/ cell' = cell
      \/ \E h \in Handles : cell' = [cell EXCEPT ![h] = Closed]
    BY DEF ClientCommit, TrimCommit, GroupWrite, Resolve, PublishRead,
        PublishWrite, TrimVariable, memory, vars
<1>3. \A h \in Open' : h \in Open /\ cell'[h] = cell[h]
    BY <1>2 DEF Open, TypeOK
<1> QED
    BY <1>1, <1>3, FirstUpdateKept

LEMMA FirstUpdateStep ==
    ASSUME TypeOK, FirstUpdateDetected, [Next]_vars
    PROVE  FirstUpdateDetected'
<1>1. ASSUME NEW h \in Handles, OpenDataset(h) \/ TrimStart(h)
      PROVE  FirstUpdateDetected'
    <2>1. /\ \A g \in Open : cell[g] # h
          /\ Construct(h, 0) \/ Construct(h, 1)
        BY <1>1 DEF OpenDataset, TrimStart
    <2> QED
        BY <2>1, FirstUpdateConstruct
<1>2. ASSUME NEW g \in Handles, NEW h \in Handles, NEW sliced \in SUBSET Vars,
             Slice(g, h, sliced)
      PROVE  FirstUpdateDetected'
    BY <1>2, FirstUpdateSlice
<1>3. ASSUME NEW h \in Handles, NEW v \in Vars, UpdateAttributes(h, v)
      PROVE  FirstUpdateDetected'
    BY <1>3, FirstUpdateUpdate
<1>4. CASE Crash
    <2>1. Open' = {}
        BY <1>4 DEF Crash, Open
    <2> QED
        BY <2>1 DEF FirstUpdateDetected
<1>5. CASE \/ \E k \in Commits, h \in Handles : ClientCommit(k, h) \/ TrimCommit(k, h)
           \/ \E k \in Commits : GroupWrite(k) \/ Resolve(k)
           \/ \E k \in Commits, v \in Vars : PublishRead(k, v) \/ PublishWrite(k, v)
           \/ \E h \in Handles : TrimVariable(h)
           \/ UNCHANGED vars
    BY <1>5, FirstUpdateElsewhere
<1> QED
    BY <1>1, <1>2, <1>3, <1>4, <1>5 DEF Next, Client, Background

\* was_updated() never reports a Variable that saw no update, and always one
\* that saw exactly one, whatever addresses the allocator reuses: the new
\* object is made before the old one dies.
THEOREM FirstUpdateCorrect == Spec => []FirstUpdateDetected
<1>1. Init => FirstUpdateDetected
    BY DEF Init, FirstUpdateDetected, Open
<1>2. TypeOK /\ FirstUpdateDetected /\ [Next]_vars => FirstUpdateDetected'
    BY FirstUpdateStep
<1> QED
    BY <1>1, <1>2, TypeCorrect, PTL DEF Spec

(***************************************************************************)
(* A successful commit is settled. What must be seen is that no step       *)
(* changes a commit that has ended well: the store operations it started   *)
(* are over, and the number of a commit is never used again.               *)
(***************************************************************************)

Settled(c) ==
    c.res = "ok" =>
        /\ c.group \in {"ok", "failed"}
        /\ \A v \in c.mod : c.pub[v] = "ok"

\* A step that replaces one commit by a settled one.
LEMMA SettledReplaced ==
    ASSUME TypeOK, OkMeansSettled, NEW k \in Commits, NEW d,
           commit' = [commit EXCEPT ![k] = d], Settled(d)
    PROVE  OkMeansSettled'
BY DEF TypeOK, OkMeansSettled, Settled

\* A publish's step keeps a commit settled: a settled commit has no publish
\* under way.
LEMMA SettledPublish ==
    ASSUME NEW c \in CommitState, NEW v \in Vars, Settled(c), c.pub[v] \in {"read", "write"},
           NEW p, NEW n
    PROVE  /\ Settled([c EXCEPT !.pub[v] = p])
           /\ Settled([c EXCEPT !.pub[v] = p, !.seen[v] = n])
<1> DEFINE pub == [c.pub EXCEPT ![v] = p]
           seen == [c.seen EXCEPT ![v] = n]
<1>1. c.pub \in [Vars -> PubState] /\ c.mod \subseteq Vars
    BY DEF CommitState
<1>2. c.res = "ok" => v \notin c.mod
    BY DEF Settled
<1>3. \A u \in Vars : u # v => pub[u] = c.pub[u]
    BY <1>1
<1>4. Settled([c EXCEPT !.pub = pub])
    <2>1. [c EXCEPT !.pub = pub].pub = pub
        BY DEF CommitState
    <2> HIDE DEF pub
    <2> QED
        BY <1>1, <1>2, <1>3, <2>1 DEF Settled, CommitState
<1>5. Settled([c EXCEPT !.pub = pub, !.seen = seen])
    <2>1. [c EXCEPT !.pub = pub, !.seen = seen].pub = pub
        BY DEF CommitState
    <2> HIDE DEF pub, seen
    <2> QED
        BY <1>1, <1>2, <1>3, <2>1 DEF Settled, CommitState
<1> QED
    BY <1>4, <1>5

LEMMA SettledStep ==
    ASSUME TypeOK, OkMeansSettled, [Next]_vars
    PROVE  OkMeansSettled'
<1>1. ASSUME NEW k \in Commits, NEW h \in Handles, CommitMetadata(k, h)
      PROVE  OkMeansSettled'
    <2> DEFINE d == IF Modified(h) = {}
                    THEN [IdleCommit EXCEPT !.st = "done", !.h = h, !.res = "unmodified"]
                    ELSE StartedCommit(h)
    <2>1. commit' = [commit EXCEPT ![k] = d]
        BY <1>1 DEF CommitMetadata
    <2>2. d.res # "ok"
        BY DEF StartedCommit, IdleCommit
    <2> QED
        BY <2>1, <2>2, SettledReplaced DEF Settled
<1>2. ASSUME NEW k \in Commits, GroupWrite(k)
      PROVE  OkMeansSettled'
    <2>1. commit[k].res # "ok"
        BY <1>2 DEF GroupWrite, OkMeansSettled
    <2>2. PICK g \in {"ok", "failed"} : commit' = [commit EXCEPT ![k].group = g]
        BY <1>2 DEF GroupWrite
    <2>3. [commit[k] EXCEPT !.group = g].res = commit[k].res
        BY DEF TypeOK, CommitState
    <2> QED
        BY <2>1, <2>2, <2>3, SettledReplaced DEF Settled
<1>3. ASSUME NEW k \in Commits, NEW v \in Vars, PublishRead(k, v) \/ PublishWrite(k, v)
      PROVE  OkMeansSettled'
    <2>1. /\ commit[k] \in CommitState /\ commit[k].pub[v] \in {"read", "write"}
          /\ Settled(commit[k])
        BY <1>3 DEF PublishRead, PublishWrite, TypeOK, OkMeansSettled, Settled
    <2>2. /\ Settled([commit[k] EXCEPT !.pub[v] = "write", !.seen[v] = disk.shape[v]])
          /\ Settled([commit[k] EXCEPT !.pub[v] = "ok"])
          /\ Settled([commit[k] EXCEPT !.pub[v] = "failed"])
        BY <2>1, SettledPublish
    <2>3. \/ commit' = [commit EXCEPT ![k] =
                            [commit[k] EXCEPT !.pub[v] = "write", !.seen[v] = disk.shape[v]]]
          \/ commit' = [commit EXCEPT ![k] = [commit[k] EXCEPT !.pub[v] = "ok"]]
          \/ commit' = [commit EXCEPT ![k] = [commit[k] EXCEPT !.pub[v] = "failed"]]
        BY <1>3 DEF PublishRead, PublishWrite
    <2> QED
        BY <2>2, <2>3, SettledReplaced
<1>4. ASSUME NEW k \in Commits, Resolve(k)
      PROVE  OkMeansSettled'
    <2>1. commit[k] \in CommitState /\ AllDoneReady(commit[k])
        BY <1>4 DEF Resolve, TypeOK
    <2>2. CASE /\ \A v \in commit[k].mod : commit[k].pub[v] = "ok"
               /\ commit' = [commit EXCEPT ![k].st = "done", ![k].res = "ok"]
        <3> DEFINE d == [commit[k] EXCEPT !.st = "done", !.res = "ok"]
        <3>1. commit[k].group \in {"ok", "failed"}
            BY <2>1, <2>2 DEF AllDoneReady
        <3>2. /\ d.group = commit[k].group /\ d.mod = commit[k].mod
              /\ d.pub = commit[k].pub
            BY <2>1 DEF CommitState
        <3>3. Settled(d)
            BY <2>2, <3>1, <3>2 DEF Settled
        <3>4. commit' = [commit EXCEPT ![k] = d]
            BY <2>2
        <3> QED
            BY <3>3, <3>4, SettledReplaced
    <2>3. CASE commit' = [commit EXCEPT ![k].st = "done", ![k].res = "error"]
        <3>1. Settled([commit[k] EXCEPT !.st = "done", !.res = "error"])
            BY <2>1 DEF Settled, CommitState
        <3> QED
            BY <2>3, <3>1, SettledReplaced
    <2> QED
        BY <1>4, <2>2, <2>3 DEF Resolve
<1>5. CASE Crash
    <2>1. ASSUME NEW c \in CommitState, Settled(c)
          PROVE  Settled(Dead(c))
        BY <2>1 DEF Settled, Dead, CommitState
    <2>2. \A k \in Commits : commit[k] \in CommitState /\ Settled(commit[k])
        BY DEF TypeOK, OkMeansSettled, Settled
    <2>3. \A k \in Commits : commit'[k] = Dead(commit[k])
        BY <1>5 DEF Crash
    <2> QED
        BY <2>1, <2>2, <2>3 DEF OkMeansSettled, Settled
<1>6. CASE UNCHANGED commit
    BY <1>6 DEF OkMeansSettled
<1> QED
    BY <1>1, <1>2, <1>3, <1>4, <1>5, <1>6
    DEF Next, Client, Background, OpenDataset, Slice, UpdateAttributes, ClientCommit,
        TrimStart, TrimVariable, TrimCommit, vars

\* A commit that reports success has published every variable it set out to
\* publish, and nothing of it is in flight any more: CommitMetadata waits for
\* all its futures and looks at the result of each update.
THEOREM SettledCorrect == Spec => []OkMeansSettled
<1>1. Init => OkMeansSettled
    BY DEF Init, OkMeansSettled, IdleCommit
<1>2. TypeOK /\ OkMeansSettled /\ [Next]_vars => OkMeansSettled'
    BY SettledStep
<1> QED
    BY <1>1, <1>2, TypeCorrect, PTL DEF Spec

-----------------------------------------------------------------------------
(***************************************************************************)
(* What a sole client of a dataset can rely on, proved for every number of *)
(* variables, handles, addresses, updates, commits, trims and mishaps: a   *)
(* commit which succeeded is never undone, a resize is never lost, and the *)
(* two copies of the attributes that Zarr V2 keeps agree after a commit.   *)
(* A sole client opens the dataset once (slices and the handles TrimDataset*)
(* opens for itself aside) and makes no call while one of its own calls is *)
(* unfinished; its operations may fail, the process may crash, and what a  *)
(* failed commit leaves behind may still be under way in later calls.      *)
(***************************************************************************)

USE HandlesAssumption

(***************************************************************************)
(* The inductive invariant                                                 *)
(***************************************************************************)

\* The handles the client itself holds.
Session == Open \ Trimming

Version(h, v) == Current(h, v).ver

\* A publish of v that may still change the store.
Flying(c, v) == c.pub[v] \in {"read", "write"}

Running(k) == commit[k].st = "running"

\* The commits whose promise is being kept or still open: they started with
\* nothing in flight and have not failed.
Holding(k) == commit[k].alone /\ (commit[k].res = "ok" \/ Running(k))

\* Shape of a state: unused commits are idle, a trim has flagged what it has
\* passed, only modified variables are published, no version is from the future.
FormInv ==
    /\ \A h \in Handles : cell[h] = Closed => trimAt[h] = 0
    /\ \A h \in Trimming, v \in Vars : v < trimAt[h] => flag[h][v]
    /\ \A k \in Commits :
          /\ k > used.commits => commit[k] = IdleCommit
          /\ commit[k].res = "ok" => commit[k].st = "done"
          /\ Running(k) => commit[k].res = "none"
          /\ \A v \in Vars : Flying(commit[k], v) =>
                v \in commit[k].mod /\ commit[k].snap[v] <= used.updates
    /\ \A h \in Handles, v \in Vars : attrs[h][v].ver <= used.updates
    /\ \A v \in Vars : disk.attr[v] <= used.updates

\* One call at a time: a trim has cells of its own, the client's handles share
\* theirs, and there is at most one trim or running commit.
OneInv ==
    /\ \A g, h \in Trimming : g = h
    /\ \A h \in Trimming : cell[h] = h /\ \A g \in Open : cell[g] = h => g = h
    /\ \A g, h \in Session : cell[g] = cell[h] /\ cell[g] \in Session
    /\ (\E k \in Commits : Running(k)) => Trimming = {}
    /\ \A j, k \in Commits : Running(j) /\ Running(k) => j = k

\* No handle holds attributes older than those a kept commit publishes.
FloorInv ==
    \A k \in Commits : Holding(k) =>
        \A v \in commit[k].mod, h \in Open : commit[k].snap[v] <= Version(h, v)

\* After a successful commit neither the store nor what is on its way to the
\* store is older.
OkInv ==
    \A k \in Commits : commit[k].alone /\ commit[k].res = "ok" =>
        \A v \in commit[k].mod :
            /\ commit[k].snap[v] <= disk.attr[v]
            /\ \A l \in Commits : Flying(commit[l], v) => commit[k].snap[v] <= commit[l].snap[v]

\* A running commit that started alone is alone: what it has written is there.
RunInv ==
    \A k \in Commits : commit[k].alone /\ Running(k) =>
        /\ \A l \in Commits \ {k} : ~InFlight(commit[l])
        /\ \A v \in commit[k].mod : commit[k].pub[v] = "ok" => disk.attr[v] = commit[k].snap[v]
        /\ format = "V2" /\ commit[k].group = "ok" => disk.meta = commit[k].snap

\* The client's handles are ahead of the store, of what is on its way there,
\* and of what a trim has read.
AheadInv ==
    \A h \in Session, v \in Vars :
        /\ disk.attr[v] <= Version(h, v)
        /\ \A l \in Commits : Flying(commit[l], v) => commit[l].snap[v] <= Version(h, v)
        /\ \A t \in Trimming : Version(t, v) <= Version(h, v)

\* The client has not changed v since it opened the dataset.
Untouched(v) == Session = {} \/ \E h \in Session : cell[h] = h /\ since[h][v] = 0

\* The attributes of an untouched variable are the same everywhere.
SameInv ==
    \A v \in Vars : Untouched(v) =>
        /\ \A h \in Open : Version(h, v) = disk.attr[v]
        /\ \A l \in Commits : Flying(commit[l], v) => commit[l].snap[v] = disk.attr[v]

\* A running commit of an opened dataset publishes every variable, or its
\* handle still stands as it found it.
WholeInv ==
    \A k \in Commits : Running(k) /\ commit[k].alone /\ commit[k].root =>
        \/ commit[k].mod = Vars
        \/ /\ commit[k].h \in Session /\ cell[commit[k].h] = commit[k].h
           /\ \A v \in Vars :
                /\ commit[k].snap[v] = Version(commit[k].h, v)
                /\ v \notin commit[k].mod => ~WasUpdated(commit[k].h, v)

NoError == \A k \in Commits : commit[k].res # "error"

\* While no commit has failed, only a running commit publishes, and the shape
\* it has read is the one in the store.
ShapeInv ==
    NoError =>
        /\ disk.shape = resized
        /\ \A k \in Commits, v \in Vars :
              /\ Flying(commit[k], v) => Running(k)
              /\ format = "V3" /\ commit[k].pub[v] = "write" => commit[k].seen[v] = disk.shape[v]

SoleParts ==
    /\ FormInv /\ OneInv /\ FloorInv /\ OkInv /\ RunInv
    /\ AheadInv /\ SameInv /\ WholeInv /\ ShapeInv

SoleInv == sole => SoleParts

LEMMA SoleInit == Init => SoleInv
<1> SUFFICES ASSUME Init PROVE SoleParts
    BY DEF SoleInv
<1>1. /\ Open = {} /\ Trimming = {} /\ Session = {}
      /\ \A h \in Handles : trimAt[h] = 0
      /\ \A h \in Handles, v \in Vars : attrs[h][v].ver = 0
      /\ \A v \in Vars : disk.attr[v] = 0
      /\ disk.shape = resized
    BY DEF Init, Open, Trimming, Session, Objects, Zero
<1>2. \A k \in Commits :
          /\ commit[k] = IdleCommit /\ commit[k].res = "none" /\ ~Running(k)
          /\ \A v \in Vars : ~Flying(commit[k], v)
    BY DEF Init, IdleCommit, Running, Flying
<1>3. FormInv
    BY <1>1, <1>2 DEF FormInv, Init
<1>4. OneInv
    BY <1>1, <1>2 DEF OneInv
<1>5. FloorInv /\ OkInv /\ RunInv /\ WholeInv
    BY <1>2 DEF FloorInv, OkInv, RunInv, WholeInv, Holding
<1>6. AheadInv /\ SameInv
    BY <1>1, <1>2 DEF AheadInv, SameInv
<1>7. ShapeInv
    BY <1>1, <1>2 DEF ShapeInv, Flying
<1> QED
    BY <1>3, <1>4, <1>5, <1>6, <1>7 DEF SoleParts

(***************************************************************************)
(* The steps, pointwise                                                    *)
(***************************************************************************)

LEMMA VersionTypes ==
    ASSUME TypeOK
    PROVE  /\ \A h \in Open, v \in Vars : Version(h, v) \in Nat /\ cell[h] \in Handles
           /\ \A v \in Vars : disk.attr[v] \in Nat
           /\ \A k \in Commits : /\ commit[k] \in CommitState
                                 /\ commit[k].mod \subseteq Vars
                                 /\ \A v \in Vars : commit[k].snap[v] \in Nat
           /\ used.updates \in Nat
BY DEF TypeOK, Open, Version, Current, Object, CommitState

\* The store operations and the continuation of one commit.
StoreStep(k) ==
    \/ GroupWrite(k) \/ Resolve(k)
    \/ \E v \in Vars : PublishRead(k, v) \/ PublishWrite(k, v)

\* What such a step makes of the commit, d, and of the store.
StoreEffect(k, d) ==
    /\ d.alone = commit[k].alone /\ d.mod = commit[k].mod /\ d.snap = commit[k].snap
    /\ d.root = commit[k].root /\ d.h = commit[k].h
    /\ \/ d.st = commit[k].st /\ d.res = commit[k].res
       \/ /\ commit[k].st = "running" /\ d.st = "done" /\ disk' = disk
          /\ d.pub = commit[k].pub
          /\ \/ d.res = "ok" /\ \A v \in d.mod : d.pub[v] = "ok"
             \/ d.res = "error"
    /\ d.group = "write" => commit[k].group = "write"
    /\ d.group = "ok" => \/ commit[k].group = "ok" /\ disk'.meta = disk.meta
                         \/ format = "V2" => disk'.meta = commit[k].snap
    /\ disk'.meta = disk.meta \/ commit[k].group = "write"
    /\ \A v \in Vars :
        /\ Flying(d, v) => Flying(commit[k], v)
        /\ d.pub[v] = "ok" => \/ commit[k].pub[v] = "ok"
                              \/ disk'.attr[v] = commit[k].snap[v]
        /\ \/ disk'.attr[v] = disk.attr[v]
           \/ Flying(commit[k], v) /\ disk'.attr[v] = commit[k].snap[v]
        /\ \/ disk'.shape[v] = disk.shape[v]
           \/ /\ format = "V3" /\ commit[k].pub[v] = "write"
              /\ disk'.shape[v] = commit[k].seen[v]
        /\ d.pub[v] = "write" =>
              \/ commit[k].pub[v] = "write" /\ d.seen[v] = commit[k].seen[v]
              \/ d.seen[v] = disk.shape[v]

LEMMA GroupWriteEffect ==
    ASSUME TypeOK, NEW k \in Commits, GroupWrite(k)
    PROVE  \E d \in CommitState : commit' = [commit EXCEPT ![k] = d] /\ StoreEffect(k, d)
<1>1. commit[k] \in CommitState /\ disk \in DiskType /\ commit[k].snap \in [Vars -> Nat]
    BY DEF TypeOK, CommitState, DiskType
<1>2. PICK g \in {"ok", "failed"} :
        /\ commit' = [commit EXCEPT ![k] = [commit[k] EXCEPT !.group = g]]
        /\ \/ g = "failed" /\ disk' = disk
           \/ format = "V2" /\ disk' = [disk EXCEPT !.meta = commit[k].snap]
           \/ format # "V2" /\ disk' = disk
    BY DEF GroupWrite
<1> DEFINE d == [commit[k] EXCEPT !.group = g]
<1>3. /\ d \in CommitState /\ d.group = g
      /\ d.alone = commit[k].alone /\ d.mod = commit[k].mod /\ d.snap = commit[k].snap
      /\ d.root = commit[k].root /\ d.h = commit[k].h
      /\ d.st = commit[k].st /\ d.res = commit[k].res
      /\ d.pub = commit[k].pub /\ d.seen = commit[k].seen
    BY <1>1 DEF CommitState, GroupState
<1>4. disk'.attr = disk.attr /\ disk'.shape = disk.shape
    BY <1>1, <1>2 DEF DiskType
<1>5. disk' = [disk EXCEPT !.meta = commit[k].snap] => disk'.meta = commit[k].snap
    BY <1>1 DEF DiskType
<1>6. commit[k].group = "write"
    BY DEF GroupWrite
<1>7. commit' = [commit EXCEPT ![k] = d]
    BY <1>2
<1> HIDE DEF d
<1>8. StoreEffect(k, d)
    BY <1>2, <1>3, <1>4, <1>5, <1>6 DEF StoreEffect, Flying
<1> QED
    BY <1>3, <1>7, <1>8

LEMMA ResolveEffect ==
    ASSUME TypeOK, NEW k \in Commits, Resolve(k)
    PROVE  \E d \in CommitState : commit' = [commit EXCEPT ![k] = d] /\ StoreEffect(k, d)
<1>1. commit[k] \in CommitState
    BY DEF TypeOK
<1>2. PICK r \in {"ok", "error"} :
        /\ commit' = [commit EXCEPT ![k] = [commit[k] EXCEPT !.st = "done", !.res = r]]
        /\ r = "ok" => \A v \in commit[k].mod : commit[k].pub[v] = "ok"
    BY DEF Resolve
<1> DEFINE d == [commit[k] EXCEPT !.st = "done", !.res = r]
<1>3. /\ d \in CommitState /\ d.group = commit[k].group
      /\ d.alone = commit[k].alone /\ d.mod = commit[k].mod /\ d.snap = commit[k].snap
      /\ d.root = commit[k].root /\ d.h = commit[k].h
      /\ d.st = "done" /\ d.res = r
      /\ d.pub = commit[k].pub /\ d.seen = commit[k].seen
    BY <1>1 DEF CommitState
<1>4. commit[k].st = "running" /\ disk' = disk
    BY DEF Resolve
<1>5. commit' = [commit EXCEPT ![k] = d]
    BY <1>2
<1> HIDE DEF d
<1>6. StoreEffect(k, d)
    BY <1>2, <1>3, <1>4 DEF StoreEffect, Flying
<1> QED
    BY <1>3, <1>5, <1>6

LEMMA PublishReadEffect ==
    ASSUME TypeOK, NEW k \in Commits, NEW u \in Vars, PublishRead(k, u)
    PROVE  \E d \in CommitState : commit' = [commit EXCEPT ![k] = d] /\ StoreEffect(k, d)
<1>1. commit[k] \in CommitState /\ disk.shape \in [Vars -> Nat]
    BY DEF TypeOK, CommitState
<1>2. PICK p \in {"write", "failed"}, n \in Nat :
        /\ commit' = [commit EXCEPT ![k] = [commit[k] EXCEPT !.pub[u] = p, !.seen[u] = n]]
        /\ p = "write" => n = disk.shape[u]
    <2>1. CASE commit' = [commit EXCEPT ![k] =
                            [commit[k] EXCEPT !.pub[u] = "write", !.seen[u] = disk.shape[u]]]
        BY <1>1, <2>1
    <2>2. CASE commit' = [commit EXCEPT ![k] = [commit[k] EXCEPT !.pub[u] = "failed"]]
        <3>1. commit[k].seen \in [Vars -> Nat] /\ commit[k].seen[u] \in Nat
            BY <1>1 DEF CommitState
        <3>2. [commit[k].seen EXCEPT ![u] = commit[k].seen[u]] = commit[k].seen
            BY <3>1
        <3>3. [commit[k] EXCEPT !.pub[u] = "failed"]
                = [commit[k] EXCEPT !.pub[u] = "failed", !.seen[u] = commit[k].seen[u]]
            BY <1>1, <3>2 DEF CommitState
        <3>4. commit' = [commit EXCEPT ![k] =
                            [commit[k] EXCEPT !.pub[u] = "failed", !.seen[u] = commit[k].seen[u]]]
            BY <2>2, <3>3
        <3> QED
            BY <3>1, <3>4
    <2> QED
        BY <2>1, <2>2 DEF PublishRead
<1> DEFINE d == [commit[k] EXCEPT !.pub[u] = p, !.seen[u] = n]
<1>3. /\ d \in CommitState /\ d.group = commit[k].group
      /\ d.alone = commit[k].alone /\ d.mod = commit[k].mod /\ d.snap = commit[k].snap
      /\ d.root = commit[k].root /\ d.h = commit[k].h
      /\ d.st = commit[k].st /\ d.res = commit[k].res
    BY <1>1 DEF CommitState, PubState
<1>4. \A v \in Vars : /\ d.pub[v] = IF v = u THEN p ELSE commit[k].pub[v]
                      /\ d.seen[v] = IF v = u THEN n ELSE commit[k].seen[v]
    BY <1>1 DEF CommitState
<1>5. commit[k].pub[u] = "read" /\ disk' = disk
    BY DEF PublishRead
<1>6. commit' = [commit EXCEPT ![k] = d]
    BY <1>2
<1> HIDE DEF d
<1>7. StoreEffect(k, d)
    BY <1>2, <1>3, <1>4, <1>5 DEF StoreEffect, Flying
<1> QED
    BY <1>3, <1>6, <1>7

LEMMA PublishWriteEffect ==
    ASSUME TypeOK, NEW k \in Commits, NEW u \in Vars, PublishWrite(k, u)
    PROVE  \E d \in CommitState : commit' = [commit EXCEPT ![k] = d] /\ StoreEffect(k, d)
<1>1. /\ commit[k] \in CommitState /\ disk \in DiskType
      /\ commit[k].snap \in [Vars -> Nat] /\ commit[k].seen \in [Vars -> Nat]
    BY DEF TypeOK, CommitState, DiskType
<1>2. PICK p \in {"ok", "failed"} :
        /\ commit' = [commit EXCEPT ![k] = [commit[k] EXCEPT !.pub[u] = p]]
        /\ disk' = Published(k, u) \/ (p = "failed" /\ disk' = disk)
    BY DEF PublishWrite
<1> DEFINE d == [commit[k] EXCEPT !.pub[u] = p]
<1>3. /\ d \in CommitState /\ d.group = commit[k].group
      /\ d.alone = commit[k].alone /\ d.mod = commit[k].mod /\ d.snap = commit[k].snap
      /\ d.root = commit[k].root /\ d.h = commit[k].h
      /\ d.st = commit[k].st /\ d.res = commit[k].res /\ d.seen = commit[k].seen
    BY <1>1 DEF CommitState, PubState
<1>4. \A v \in Vars : d.pub[v] = IF v = u THEN p ELSE commit[k].pub[v]
    BY <1>1 DEF CommitState
<1>5. commit[k].pub[u] = "write"
    BY DEF PublishWrite
<1>6. /\ Published(k, u).meta = disk.meta
      /\ \A v \in Vars :
          /\ Published(k, u).attr[v] = IF v = u THEN commit[k].snap[u] ELSE disk.attr[v]
          /\ Published(k, u).shape[v] =
                IF v = u /\ format # "V2" THEN commit[k].seen[u] ELSE disk.shape[v]
    BY <1>1 DEF Published, DiskType
<1>7. commit' = [commit EXCEPT ![k] = d]
    BY <1>2
<1>8. format = "V2" \/ format = "V3"
    BY DEF TypeOK
<1> HIDE DEF d
<1>9. disk' = disk /\ p = "failed" => StoreEffect(k, d)
    BY <1>3, <1>4, <1>5 DEF StoreEffect, Flying
<1>10. disk' = Published(k, u) => StoreEffect(k, d)
    BY <1>2, <1>3, <1>4, <1>5, <1>6, <1>8 DEF StoreEffect, Flying
<1> QED
    BY <1>2, <1>3, <1>7, <1>9, <1>10

LEMMA StoreStepEffect ==
    ASSUME TypeOK, NEW k \in Commits, StoreStep(k)
    PROVE  /\ \E d \in CommitState : commit' = [commit EXCEPT ![k] = d] /\ StoreEffect(k, d)
           /\ UNCHANGED <<memory, fixed, since, resized>>
           /\ used'.updates = used.updates /\ used'.commits = used.commits
<1>1. UNCHANGED <<memory, fixed, since, resized>>
    BY DEF StoreStep, GroupWrite, Resolve, PublishRead, PublishWrite
<1>2. used' = used \/ used' = [used EXCEPT !.mishaps = @ + 1]
    BY DEF StoreStep, GroupWrite, Resolve, PublishRead, PublishWrite, Mishap
<1>3. used'.updates = used.updates /\ used'.commits = used.commits
    BY <1>2 DEF TypeOK
<1> QED
    BY <1>1, <1>3, GroupWriteEffect, ResolveEffect, PublishReadEffect, PublishWriteEffect
    DEF StoreStep
(***************************************************************************)
(* Store operations and continuations keep the invariant.                  *)
(***************************************************************************)
LEMMA SoleStoreStep ==
    ASSUME TypeOK, TypeOK', SoleParts, NEW k \in Commits, StoreStep(k)
    PROVE  SoleParts'
<1>1. PICK d \in CommitState : commit' = [commit EXCEPT ![k] = d] /\ StoreEffect(k, d)
    BY StoreStepEffect
<1>2. /\ commit'[k] = d /\ \A l \in Commits : l # k => commit'[l] = commit[l]
      /\ \A l \in Commits : commit'[l].mod = commit[l].mod /\ commit'[l].snap = commit[l].snap
                            /\ commit'[l].alone = commit[l].alone /\ commit'[l].h = commit[l].h
                            /\ commit'[l].root = commit[l].root
    BY <1>1 DEF TypeOK, StoreEffect
<1>3. /\ cell' = cell /\ trimAt' = trimAt /\ flag' = flag /\ attrs' = attrs /\ base' = base
      /\ since' = since /\ format' = format /\ resized' = resized
      /\ used'.updates = used.updates /\ used'.commits = used.commits
    BY StoreStepEffect DEF memory, fixed
<1>4. /\ Open' = Open /\ Trimming' = Trimming /\ Session' = Session
      /\ \A h, v : Version(h, v)' = Version(h, v)
      /\ \A h, v : WasUpdated(h, v)' = WasUpdated(h, v)
      /\ \A v : Untouched(v)' = Untouched(v)
    BY <1>3 DEF Open, Trimming, Session, Version, WasUpdated, Current, Untouched
<1>5. \A l \in Commits, v \in Vars : Flying(commit[l], v)' => Flying(commit[l], v)
    BY <1>1, <1>2 DEF StoreEffect, Flying
<1>6. \A l \in Commits :
        /\ Running(l)' => Running(l) /\ commit'[l].res = commit[l].res
        /\ commit'[l].res = commit[l].res \/ (l = k /\ Running(k))
    BY <1>1, <1>2 DEF StoreEffect, Running
<1>7. \A v \in Vars : \/ disk'.attr[v] = disk.attr[v]
                      \/ Flying(commit[k], v) /\ disk'.attr[v] = commit[k].snap[v]
    BY <1>1 DEF StoreEffect
<1>8. FormInv'
    <2>1. \A h \in Handles : cell'[h] = Closed => trimAt'[h] = 0
        BY <1>3 DEF SoleParts, FormInv
    <2>2. \A h \in Trimming', v \in Vars : v < trimAt'[h] => flag'[h][v]
        BY <1>3, <1>4 DEF SoleParts, FormInv
    <2>3. \A l \in Commits : l > used'.commits => commit'[l] = IdleCommit
        <3>1. k > used.commits => commit[k] = IdleCommit
            BY DEF SoleParts, FormInv
        <3>2. commit[k] # IdleCommit
            <4>1. /\ IdleCommit.group = "none" /\ IdleCommit.st = "idle"
                  /\ \A v \in Vars : IdleCommit.pub[v] = "none"
                BY DEF IdleCommit
            <4> QED
                BY <4>1 DEF StoreStep, GroupWrite, Resolve, PublishRead, PublishWrite
        <3> QED
            BY <1>2, <1>3, <3>1, <3>2 DEF SoleParts, FormInv
    <2>4. \A l \in Commits : /\ commit'[l].res = "ok" => commit'[l].st = "done"
                             /\ Running(l)' => commit'[l].res = "none"
        BY <1>1, <1>2 DEF SoleParts, FormInv, StoreEffect, Running
    <2>5. \A l \in Commits, v \in Vars : Flying(commit[l], v)' =>
            v \in commit'[l].mod /\ commit'[l].snap[v] <= used'.updates
        BY <1>2, <1>3, <1>5 DEF SoleParts, FormInv
    <2>6. \A h \in Handles, v \in Vars : attrs'[h][v].ver <= used'.updates
        BY <1>3 DEF SoleParts, FormInv
    <2>7. \A v \in Vars : disk'.attr[v] <= used'.updates
        BY <1>3, <1>7 DEF SoleParts, FormInv
    <2> QED
        BY <2>1, <2>2, <2>3, <2>4, <2>5, <2>6, <2>7 DEF FormInv
<1>9. OneInv'
    BY <1>3, <1>4, <1>6 DEF SoleParts, OneInv
<1>10. FloorInv'
    BY <1>2, <1>4, <1>6 DEF SoleParts, FloorInv, Holding
<1>11. OkInv'
    <2> SUFFICES ASSUME NEW j \in Commits, commit'[j].alone, commit'[j].res = "ok",
                        NEW v \in commit'[j].mod
                 PROVE  /\ commit'[j].snap[v] <= disk'.attr[v]
                        /\ \A l \in Commits : Flying(commit[l], v)' =>
                                commit'[j].snap[v] <= commit'[l].snap[v]
        BY DEF OkInv
    <2>1. commit[j].alone /\ v \in commit[j].mod /\ v \in Vars
        BY <1>2, VersionTypes
    <2>2. CASE commit[j].res = "ok"
        BY <1>2, <1>5, <1>7, <2>1, <2>2 DEF SoleParts, OkInv
    <2>3. CASE commit[j].res # "ok"
        <3>1. j = k /\ Running(k)
            BY <1>6, <2>3
        <3>2. disk' = disk /\ d.pub = commit[k].pub /\ commit[k].pub[v] = "ok"
            BY <1>1, <1>2, <2>3, <3>1 DEF StoreEffect
        <3>3. disk.attr[v] = commit[k].snap[v]
            BY <2>1, <3>1, <3>2 DEF SoleParts, RunInv
        <3>4. \A l \in Commits : ~Flying(commit[l], v)
            BY <2>1, <3>1, <3>2 DEF SoleParts, RunInv, Flying, InFlight
        <3> QED
            BY <1>2, <1>5, <2>1, <3>1, <3>2, <3>3, <3>4, VersionTypes
    <2> QED
        BY <2>2, <2>3
<1>12. RunInv'
    <2> SUFFICES ASSUME NEW j \in Commits, commit'[j].alone, Running(j)'
                 PROVE  /\ \A l \in Commits \ {j} : ~InFlight(commit[l])'
                        /\ \A v \in commit'[j].mod : commit'[j].pub[v] = "ok" =>
                                disk'.attr[v] = commit'[j].snap[v]
                        /\ format' = "V2" /\ commit'[j].group = "ok" =>
                                disk'.meta = commit'[j].snap
        BY DEF RunInv
    <2>1. commit[j].alone /\ Running(j) /\ commit[j].mod \subseteq Vars
        BY <1>2, <1>6, VersionTypes
    <2>2. \A l \in Commits \ {j} : ~InFlight(commit[l])
        BY <2>1 DEF SoleParts, RunInv
    <2>3. \A l \in Commits : InFlight(commit[l])' => InFlight(commit[l])
        <3>1. \A l \in Commits : commit'[l].group = "write" => commit[l].group = "write"
            BY <1>1, <1>2 DEF StoreEffect
        <3> QED
            BY <1>5, <3>1 DEF InFlight, Flying
    <2>4. CASE j # k
        <3>1. commit[k].group # "write" /\ \A v \in Vars : ~Flying(commit[k], v)
            BY <2>2, <2>4 DEF InFlight, Flying
        <3>2. disk'.meta = disk.meta /\ \A v \in Vars : disk'.attr[v] = disk.attr[v]
            BY <1>1, <1>7, <3>1 DEF StoreEffect
        <3> QED
            BY <1>2, <1>3, <2>1, <2>2, <2>3, <2>4, <3>2 DEF SoleParts, RunInv
    <2>5. CASE j = k
        <3>1. \A v \in commit[k].mod : commit'[k].pub[v] = "ok" =>
                disk'.attr[v] = commit[k].snap[v]
            BY <1>1, <1>2, <1>7, <2>1, <2>5 DEF SoleParts, RunInv, StoreEffect
        <3>2. format = "V2" /\ commit'[k].group = "ok" => disk'.meta = commit[k].snap
            BY <1>1, <1>2, <2>1, <2>5 DEF SoleParts, RunInv, StoreEffect
        <3> QED
            BY <1>2, <1>3, <2>2, <2>3, <2>5, <3>1, <3>2
    <2> QED
        BY <2>4, <2>5
<1>13. AheadInv'
    BY <1>2, <1>4, <1>5, <1>7 DEF SoleParts, AheadInv
<1>14. SameInv'
    BY <1>2, <1>4, <1>5, <1>7 DEF SoleParts, SameInv
<1>15. WholeInv'
    BY <1>2, <1>3, <1>4, <1>6 DEF SoleParts, WholeInv
<1>16. ShapeInv'
    <2> SUFFICES ASSUME NoError'
                 PROVE  /\ disk'.shape = resized'
                        /\ \A l \in Commits, v \in Vars :
                              /\ Flying(commit[l], v)' => Running(l)'
                              /\ format' = "V3" /\ commit'[l].pub[v] = "write" =>
                                    commit'[l].seen[v] = disk'.shape[v]
        BY DEF ShapeInv
    <2>1. NoError
        <3>1. Running(k) => commit[k].res = "none"
            BY DEF SoleParts, FormInv
        <3> QED
            BY <1>6, <3>1 DEF NoError
    <2>2. \A v \in Vars : disk'.shape[v] = disk.shape[v]
        BY <1>1, <2>1 DEF StoreEffect, SoleParts, ShapeInv
    <2>3. disk'.shape = disk.shape
        BY <2>2 DEF TypeOK
    <2>4. ASSUME NEW l \in Commits, NEW v \in Vars, Flying(commit[l], v)'
          PROVE  Running(l)'
        <3>1. Flying(commit[l], v) /\ Running(l)
            BY <1>5, <2>1, <2>4 DEF SoleParts, ShapeInv
        <3>2. CASE l # k
            BY <1>2, <3>1, <3>2 DEF Running
        <3>3. CASE l = k
            <4>1. v \in d.mod /\ d.pub[v] # "ok"
                BY <1>1, <1>2, <2>4, <3>1, <3>3 DEF SoleParts, FormInv, StoreEffect, Flying
            <4>2. d.res # "error"
                BY <1>2 DEF NoError
            <4> QED
                BY <1>1, <1>2, <3>1, <3>3, <4>1, <4>2 DEF StoreEffect, Running
        <3> QED
            BY <3>2, <3>3
    <2>5. ASSUME NEW l \in Commits, NEW v \in Vars,
                 format' = "V3", commit'[l].pub[v] = "write"
          PROVE  commit'[l].seen[v] = disk'.shape[v]
        BY <1>1, <1>2, <1>3, <2>1, <2>2, <2>5 DEF StoreEffect, SoleParts, ShapeInv
    <2> QED
        BY <1>3, <2>1, <2>3, <2>4, <2>5 DEF SoleParts, ShapeInv
<1> QED
    BY <1>8, <1>9, <1>10, <1>11, <1>12, <1>13, <1>14, <1>15, <1>16 DEF SoleParts

(***************************************************************************)
(* Commits: the client's own and the one that ends a trim.                 *)
(***************************************************************************)

\* The two states CommitMetadata leaves a commit in.
UnmodifiedEffect(d) ==
    d.st = "done" /\ d.res = "unmodified" /\ d.group = "none"
    /\ \A v \in Vars : d.pub[v] = "none"

StartedEffect(h, d) ==
    /\ d.st = "running" /\ d.res = "none" /\ d.h = h /\ d.mod = Modified(h)
    /\ d.alone = Quiet /\ (d.root <=> cell[h] = h) /\ d.group = "write"
    /\ \A v \in Vars :
        /\ d.snap[v] = Version(h, v)
        /\ Flying(d, v) => v \in d.mod
        /\ d.pub[v] # "ok"
        /\ format = "V3" => d.pub[v] # "write"

LEMMA CommitMetadataEffect ==
    ASSUME TypeOK, NEW k \in Commits, NEW h \in Open, CommitMetadata(k, h)
    PROVE  /\ \E d \in CommitState :
                /\ commit' = [commit EXCEPT ![k] = d]
                /\ UnmodifiedEffect(d) \/ StartedEffect(h, d)
           /\ UNCHANGED <<attrs, base, disk, fixed, since, resized>>
           /\ k > used.commits /\ used'.updates = used.updates /\ used'.commits = k
           /\ \A g \in Handles : g # h => flag'[g] = flag[g]
<1>1. commit'[k] \in CommitState
    BY CommitMetadataType
<1>4. k > used.commits /\ used'.updates = used.updates /\ used'.commits = k
    BY DEF CommitMetadata, TypeOK
<1>5. \A g \in Handles : g # h => flag'[g] = flag[g]
    BY DEF CommitMetadata, TypeOK
<1>2. CASE Modified(h) = {}
    <2> DEFINE d == [IdleCommit EXCEPT !.st = "done", !.h = h, !.res = "unmodified"]
    <2>1. commit' = [commit EXCEPT ![k] = d] /\ d = commit'[k]
        BY <1>2 DEF CommitMetadata, TypeOK
    <2>2. UnmodifiedEffect(d)
        BY DEF UnmodifiedEffect, IdleCommit
    <2> QED
        BY <1>1, <1>4, <1>5, <2>1, <2>2 DEF CommitMetadata
<1>3. CASE Modified(h) # {}
    <2>1. commit' = [commit EXCEPT ![k] = StartedCommit(h)] /\ StartedCommit(h) = commit'[k]
        BY <1>3 DEF CommitMetadata, TypeOK
    <2>2. StartedEffect(h, StartedCommit(h))
        BY DEF StartedEffect, StartedCommit, IdleCommit, Flying, Version
    <2> QED
        BY <1>1, <1>4, <1>5, <2>1, <2>2 DEF CommitMetadata
<1> QED
    BY <1>2, <1>3

LEMMA SoleCommit ==
    ASSUME TypeOK, TypeOK', SoleParts, NEW k \in Commits, NEW h \in Open, CommitMetadata(k, h),
           \A l \in Commits : ~Running(l),
           \A s \in Session, v \in Vars : Version(h, v) <= Version(s, v),
           h \in Session \/ Modified(h) = Vars,
           Open' = Session, Trimming' = {},
           \A g \in Open' : cell'[g] = cell[g],
           \A g \in Handles : cell'[g] = Closed => trimAt'[g] = 0
    PROVE  SoleParts'
<1>1. PICK d \in CommitState : /\ commit' = [commit EXCEPT ![k] = d]
                               /\ UnmodifiedEffect(d) \/ StartedEffect(h, d)
    BY CommitMetadataEffect
<1>2. commit'[k] = d /\ \A l \in Commits : l # k => commit'[l] = commit[l]
    BY <1>1 DEF TypeOK
<1>3. /\ attrs' = attrs /\ base' = base /\ disk' = disk /\ format' = format
      /\ since' = since /\ resized' = resized
      /\ k > used.commits /\ used'.updates = used.updates /\ used'.commits = k
    BY CommitMetadataEffect DEF fixed
<1>4. /\ Session' = Session /\ Session \subseteq Open
      /\ \A s \in Session, v \in Vars : /\ Version(s, v)' = Version(s, v)
                                        /\ WasUpdated(s, v)' = WasUpdated(s, v)
      /\ \A s \in Session : cell'[s] = cell[s] /\ since'[s] = since[s]
      /\ \A v \in Vars : Untouched(v)' => Untouched(v)
    BY <1>3 DEF Session, Version, WasUpdated, Current, Untouched
<1>5. commit[k].res = "none"
    <2>1. commit[k] = IdleCommit
        BY <1>3 DEF SoleParts, FormInv
    <2> QED
        BY <2>1 DEF IdleCommit
<1>6. \A v \in Vars : Flying(d, v) => /\ Running(k)' /\ v \in d.mod
                                      /\ d.snap[v] = Version(h, v)
    BY <1>1, <1>2 DEF UnmodifiedEffect, StartedEffect, Flying, Running
<1>7. FormInv'
    <2>1. \A l \in Commits : l > used'.commits => commit'[l] = IdleCommit
        BY <1>2, <1>3 DEF SoleParts, FormInv, TypeOK, Commits
    <2>2. \A l \in Commits : /\ commit'[l].res = "ok" => commit'[l].st = "done"
                             /\ Running(l)' => commit'[l].res = "none"
        BY <1>1, <1>2 DEF SoleParts, FormInv, Running, UnmodifiedEffect, StartedEffect
    <2>3. \A v \in Vars : Version(h, v) <= used.updates
        BY VersionTypes DEF SoleParts, FormInv, Version, Current
    <2>4. \A l \in Commits, v \in Vars : Flying(commit[l], v)' =>
            v \in commit'[l].mod /\ commit'[l].snap[v] <= used'.updates
        BY <1>2, <1>3, <1>6, <2>3 DEF SoleParts, FormInv
    <2>5. \A g \in Handles, v \in Vars : attrs'[g][v].ver <= used'.updates
        BY <1>3 DEF SoleParts, FormInv
    <2>6. \A v \in Vars : disk'.attr[v] <= used'.updates
        BY <1>3 DEF SoleParts, FormInv
    <2> QED
        BY <2>1, <2>2, <2>4, <2>5, <2>6 DEF FormInv
<1>8. OneInv'
    <2>1. \A l \in Commits : Running(l)' => l = k
        BY <1>2 DEF Running
    <2> QED
        BY <1>4, <2>1 DEF SoleParts, OneInv
<1>9. FloorInv'
    <2> SUFFICES ASSUME NEW j \in Commits, Holding(j)', NEW v \in commit'[j].mod,
                        NEW s \in Open'
                 PROVE  commit'[j].snap[v] <= Version(s, v)'
        BY DEF FloorInv
    <2>1. CASE j = k
        <3>1. StartedEffect(h, d) /\ v \in Vars
            BY <1>1, <1>2, <2>1 DEF Holding, Running, UnmodifiedEffect, CommitState
        <3> QED
            BY <1>2, <1>4, <2>1, <3>1 DEF StartedEffect
    <2>2. CASE j # k
        <3>1. Holding(j)
            BY <1>2, <2>2 DEF Holding, Running
        <3> QED
            BY <1>2, <1>4, <2>2, <3>1, VersionTypes DEF SoleParts, FloorInv
    <2> QED
        BY <2>1, <2>2
<1>10. OkInv'
    <2> SUFFICES ASSUME NEW j \in Commits, commit'[j].alone, commit'[j].res = "ok",
                        NEW v \in commit'[j].mod
                 PROVE  /\ commit'[j].snap[v] <= disk'.attr[v]
                        /\ \A l \in Commits : Flying(commit[l], v)' =>
                                commit'[j].snap[v] <= commit'[l].snap[v]
        BY DEF OkInv
    <2>1. j # k
        BY <1>1, <1>2 DEF UnmodifiedEffect, StartedEffect
    <2>2. /\ commit[j].alone /\ commit[j].res = "ok" /\ v \in commit[j].mod /\ v \in Vars
          /\ commit'[j] = commit[j]
        BY <1>2, <2>1, VersionTypes
    <2>3. commit[j].snap[v] <= Version(h, v)
        BY <2>2 DEF SoleParts, FloorInv, Holding
    <2> QED
        BY <1>2, <1>3, <1>6, <2>2, <2>3 DEF SoleParts, OkInv
<1>11. RunInv'
    <2> SUFFICES ASSUME NEW j \in Commits, commit'[j].alone, Running(j)'
                 PROVE  /\ \A l \in Commits \ {j} : ~InFlight(commit[l])'
                        /\ \A v \in commit'[j].mod : commit'[j].pub[v] # "ok"
                        /\ commit'[j].group # "ok"
        BY DEF RunInv
    <2>1. j = k
        BY <1>2 DEF Running
    <2>2. StartedEffect(h, d) /\ Quiet
        BY <1>1, <1>2, <2>1 DEF UnmodifiedEffect, StartedEffect, Running
    <2> QED
        BY <1>2, <2>1, <2>2, VersionTypes DEF StartedEffect, Quiet, CommitState, InFlight
<1>12. AheadInv'
    <2> SUFFICES ASSUME NEW s \in Session, NEW v \in Vars
                 PROVE  /\ disk.attr[v] <= Version(s, v)
                        /\ \A l \in Commits : Flying(commit[l], v)' =>
                                commit'[l].snap[v] <= Version(s, v)
        BY <1>3, <1>4 DEF AheadInv
    <2> QED
        BY <1>2, <1>6 DEF SoleParts, AheadInv
<1>13. SameInv'
    BY <1>2, <1>3, <1>4, <1>6 DEF SoleParts, SameInv
<1>14. WholeInv'
    <2> SUFFICES ASSUME NEW j \in Commits, Running(j)', commit'[j].root
                 PROVE  \/ commit'[j].mod = Vars
                        \/ /\ commit'[j].h \in Session' /\ cell'[commit'[j].h] = commit'[j].h
                           /\ \A v \in Vars :
                                /\ commit'[j].snap[v] = Version(commit[j].h, v)'
                                /\ v \notin commit'[j].mod => ~WasUpdated(commit[j].h, v)'
        BY DEF WholeInv
    <2>1. j = k
        BY <1>2 DEF Running
    <2>2. StartedEffect(h, d) /\ cell[h] = h
        BY <1>1, <1>2, <2>1 DEF UnmodifiedEffect, StartedEffect, Running
    <2>3. commit'[j].h = h /\ commit'[j].mod = Modified(h)
        BY <1>2, <2>1, <2>2 DEF StartedEffect
    <2>4. CASE Modified(h) = Vars
        BY <2>3, <2>4
    <2>5. CASE h \in Session
        <3>1. h \in Session' /\ cell'[h] = h
            BY <1>4, <2>2, <2>5
        <3>2. \A v \in Vars : /\ Version(commit[j].h, v)' = Version(h, v)
                              /\ WasUpdated(commit[j].h, v)' = WasUpdated(h, v)
            BY <1>4, <2>3, <2>5 DEF Version, WasUpdated, Current
        <3>3. \A v \in Vars : /\ commit'[j].snap[v] = Version(h, v)
                              /\ v \notin commit'[j].mod => ~WasUpdated(h, v)
            BY <1>2, <2>1, <2>2 DEF StartedEffect, Modified
        <3> QED
            BY <2>3, <3>1, <3>2, <3>3
    <2> QED
        BY <2>4, <2>5
<1>15. ShapeInv'
    <2> SUFFICES ASSUME NoError'
                 PROVE  /\ disk.shape = resized
                        /\ \A l \in Commits, v \in Vars :
                              /\ Flying(commit[l], v)' => Running(l)'
                              /\ format = "V3" /\ commit'[l].pub[v] = "write" =>
                                    commit'[l].seen[v] = disk.shape[v]
        BY <1>3 DEF ShapeInv
    <2>1. NoError
        BY <1>2, <1>5 DEF NoError
    <2>2. format = "V3" => \A v \in Vars : d.pub[v] # "write"
        BY <1>1 DEF UnmodifiedEffect, StartedEffect
    <2> QED
        BY <1>2, <1>6, <2>1, <2>2 DEF SoleParts, ShapeInv, Running
<1> QED
    BY <1>7, <1>8, <1>9, <1>10, <1>11, <1>12, <1>13, <1>14, <1>15 DEF SoleParts

\* A sole client makes no call while one of its own is unfinished.
LEMMA FreeClient ==
    ASSUME sole, ClientFree
    PROVE  Trimming = {} /\ \A k \in Commits : ~Running(k)
BY DEF ClientFree, Running

LEMMA SoleClientCommit ==
    ASSUME TypeOK, TypeOK', sole, SoleParts, NEW k \in Commits, NEW h \in Handles,
           ClientCommit(k, h)
    PROVE  SoleParts'
<1>1. /\ CommitMetadata(k, h) /\ h \in Open /\ h \in Session
      /\ Trimming = {} /\ \A l \in Commits : ~Running(l)
      /\ cell' = cell /\ trimAt' = trimAt
    BY DEF ClientCommit, ClientFree, Session, Running
<1>2. Open' = Session /\ Trimming' = {} /\ Session = Open
    BY <1>1 DEF Open, Trimming, Session
<1>3. \A s \in Session, v \in Vars : Version(h, v) <= Version(s, v)
    BY <1>1, <1>2, VersionTypes DEF SoleParts, OneInv, Version, Current
<1>4. \A g \in Handles : cell'[g] = Closed => trimAt'[g] = 0
    BY <1>1 DEF SoleParts, FormInv
<1> QED
    BY <1>1, <1>2, <1>3, <1>4, SoleCommit

\* The commit that ends a trim: every variable has been flagged.
LEMMA SoleTrimCommit ==
    ASSUME TypeOK, TypeOK', SoleParts, NEW k \in Commits, NEW h \in Handles,
           TrimCommit(k, h)
    PROVE  SoleParts'
<1>1. CommitMetadata(k, h) /\ h \in Open /\ h \in Trimming /\ trimAt[h] = NumVars + 1
    BY DEF TrimCommit, Trimming
<1>2. Trimming = {h} /\ \A l \in Commits : ~Running(l)
    BY <1>1 DEF SoleParts, OneInv
<1>3. \A g \in Handles : /\ cell'[g] = IF g = h THEN Closed ELSE cell[g]
                         /\ trimAt'[g] = IF g = h THEN 0 ELSE trimAt[g]
    BY DEF TrimCommit, TypeOK
<1>4. Closed \notin Open' /\ Open' = Session /\ Trimming' = {}
    BY <1>2, <1>3 DEF Open, Trimming, Session
<1>5. \A s \in Session, v \in Vars : Version(h, v) <= Version(s, v)
    BY <1>1 DEF SoleParts, AheadInv
<1>6. Modified(h) = Vars
    <2>1. \A v \in Vars : v < trimAt[h]
        BY <1>1 DEF Vars
    <2>2. \A v \in Vars : flag[h][v]
        BY <1>1, <2>1 DEF SoleParts, FormInv
    <2> QED
        BY <2>2 DEF Modified
<1>7. /\ \A g \in Open' : cell'[g] = cell[g]
      /\ \A g \in Handles : cell'[g] = Closed => trimAt'[g] = 0
    BY <1>2, <1>3, <1>4 DEF SoleParts, FormInv, Session, Open
<1> QED
    BY <1>1, <1>2, <1>4, <1>5, <1>6, <1>7, SoleCommit

(***************************************************************************)
(* Opening, slicing, updating                                              *)
(***************************************************************************)

\* Construct, pointwise.
LEMMA ConstructEffect ==
    ASSUME TypeOK, SoleParts, NEW h \in Handles, NEW trim \in 0..1, Construct(h, trim),
           Trimming = {}, \A g \in Open : cell[g] # h
    PROVE  /\ h \notin Open /\ Open' = Open \cup {h} /\ Session = Open
           /\ cell'[h] = h /\ trimAt'[h] = trim
           /\ \A v \in Vars : /\ since'[h][v] = 0 /\ Version(h, v)' = disk.attr[v]
                              /\ attrs'[h][v].ver = disk.attr[v]
           /\ \A g \in Handles : g # h => /\ cell'[g] = cell[g] /\ trimAt'[g] = trimAt[g]
                                          /\ attrs'[g] = attrs[g] /\ flag'[g] = flag[g]
           /\ \A g \in Open : /\ trimAt'[g] = 0 /\ cell'[g] = cell[g] /\ since'[g] = since[g]
                              /\ \A v \in Vars : Version(g, v)' = Version(g, v)
<1>1. h \notin Open
    BY DEF Construct, Open
<1>2. \A g \in Handles :
        /\ cell'[g] = IF g = h THEN h ELSE cell[g]
        /\ trimAt'[g] = IF g = h THEN trim ELSE trimAt[g]
        /\ attrs'[g] = IF g = h THEN Objects(disk.attr) ELSE attrs[g]
        /\ flag'[g] = IF g = h THEN Unflagged ELSE flag[g]
        /\ since'[g] = IF g = h THEN Zero ELSE since[g]
    BY DEF Construct, TypeOK
<1>3. Open' = Open \cup {h}
    BY <1>2 DEF Open
<1>4. Session = Open /\ \A g \in Open : trimAt[g] = 0
    BY DEF Session, Trimming
<1>5. \A v \in Vars : /\ since'[h][v] = 0 /\ Version(h, v)' = disk.attr[v]
                      /\ attrs'[h][v].ver = disk.attr[v]
    <2>1. cell'[h] = h /\ attrs'[h] = Objects(disk.attr) /\ since'[h] = Zero
        BY <1>2
    <2>2. \A v \in Vars : Zero[v] = 0 /\ Objects(disk.attr)[v].ver = disk.attr[v]
        BY DEF Zero, Objects
    <2> QED
        BY <2>1, <2>2 DEF Version, Current
<1>6. \A g \in Open : g \in Handles /\ g # h /\ cell[g] \in Handles /\ cell[g] # h
    BY <1>1 DEF Open, TypeOK
<1>7. \A g \in Open, v \in Vars : Version(g, v)' = Version(g, v)
    BY <1>2, <1>6 DEF Version, Current
<1> QED
    BY <1>1, <1>2, <1>3, <1>4, <1>5, <1>6, <1>7

\* A new handle has read the store: OpenDataset when nothing else is open, or
\* the one TrimDataset makes for itself.
LEMMA SoleConstruct ==
    ASSUME TypeOK, TypeOK', SoleParts, NEW h \in Handles, NEW trim \in 0..1,
           Construct(h, trim), Trimming = {}, \A g \in Open : cell[g] # h,
           trim = 1 \/ Open = {}, \A k \in Commits : ~Running(k),
           UNCHANGED <<commit, disk, fixed, resized>>,
           used'.updates = used.updates, used'.commits = used.commits
    PROVE  SoleParts'
<1> USE ConstructEffect
<1>1. /\ commit' = commit /\ disk' = disk /\ format' = format /\ resized' = resized
      /\ \A l, v : Flying(commit[l], v)' <=> Flying(commit[l], v)
      /\ \A k : Running(k)' <=> Running(k)
    BY DEF fixed, Flying, Running
<1>2. /\ Session = Open /\ Trimming' \subseteq {h} /\ Open' = Open \cup {h}
      /\ Session' = IF trim = 0 THEN {h} ELSE Open
    BY DEF Trimming, Session
<1>3. \A g \in Open', v \in Vars : \/ g \in Open /\ Version(g, v)' = Version(g, v)
                                   \/ g = h /\ Version(g, v)' = disk.attr[v]
    BY <1>2
<1>4. FormInv'
    <2>1. \A g \in Handles : cell'[g] = Closed => trimAt'[g] = 0
        BY DEF SoleParts, FormInv
    <2>2. \A g \in Trimming', v \in Vars : v < trimAt'[g] => flag'[g][v]
        BY <1>2 DEF Vars
    <2>3. \A k \in Commits :
            /\ k > used'.commits => commit'[k] = IdleCommit
            /\ commit'[k].res = "ok" => commit'[k].st = "done"
            /\ Running(k)' => commit'[k].res = "none"
            /\ \A v \in Vars : Flying(commit[k], v)' =>
                  v \in commit'[k].mod /\ commit'[k].snap[v] <= used'.updates
        BY <1>1 DEF SoleParts, FormInv
    <2>4. \A g \in Handles, v \in Vars : attrs'[g][v].ver <= used'.updates
        BY DEF SoleParts, FormInv
    <2>5. \A v \in Vars : disk'.attr[v] <= used'.updates
        BY <1>1 DEF SoleParts, FormInv
    <2> QED
        BY <2>1, <2>2, <2>3, <2>4, <2>5 DEF FormInv
<1>5. OneInv'
    <2>1. \A g \in Open : cell[g] # h /\ g # h
        OBVIOUS
    <2> QED
        BY <1>1, <1>2, <2>1 DEF SoleParts, OneInv
<1>6. FloorInv'
    <2> SUFFICES ASSUME NEW k \in Commits, Holding(k), NEW v \in commit[k].mod, NEW g \in Open'
                 PROVE  commit[k].snap[v] <= Version(g, v)'
        BY <1>1 DEF FloorInv, Holding
    <2>1. commit[k].alone /\ commit[k].res = "ok" /\ v \in Vars
        BY VersionTypes DEF Holding
    <2> QED
        BY <1>3, <2>1 DEF SoleParts, FloorInv, OkInv
<1>7. OkInv' /\ RunInv' /\ WholeInv'
    BY <1>1 DEF SoleParts, OkInv, RunInv, WholeInv
<1>8. AheadInv'
    <2> SUFFICES ASSUME NEW s \in Session', NEW v \in Vars
                 PROVE  /\ disk.attr[v] <= Version(s, v)'
                        /\ \A l \in Commits : Flying(commit[l], v) =>
                                commit[l].snap[v] <= Version(s, v)'
                        /\ \A t \in Trimming' : Version(t, v)' <= Version(s, v)'
        BY <1>1 DEF AheadInv
    <2>1. CASE s \in Open
        BY <1>2, <1>3, <2>1 DEF SoleParts, AheadInv
    <2>2. CASE Open = {} /\ s = h
        <3>1. Untouched(v)
            BY <1>2, <2>2 DEF Untouched
        <3> QED
            BY <1>2, <2>2, <3>1, VersionTypes DEF SoleParts, SameInv
    <2> QED
        BY <1>2, <2>1, <2>2
<1>9. SameInv'
    <2> SUFFICES ASSUME NEW v \in Vars, Untouched(v)'
                 PROVE  /\ \A g \in Open' : Version(g, v)' = disk.attr[v]
                        /\ \A l \in Commits : Flying(commit[l], v) =>
                                commit[l].snap[v] = disk.attr[v]
        BY <1>1 DEF SameInv
    <2>1. Untouched(v)
        BY <1>2 DEF Untouched
    <2> QED
        BY <1>3, <2>1 DEF SoleParts, SameInv
<1>10. ShapeInv'
    BY <1>1 DEF SoleParts, ShapeInv, NoError
<1> QED
    BY <1>4, <1>5, <1>6, <1>7, <1>8, <1>9, <1>10 DEF SoleParts

LEMMA SoleOpenDataset ==
    ASSUME TypeOK, TypeOK', sole, SoleParts, NEW h \in Handles, OpenDataset(h)
    PROVE  SoleParts'
<1>1. /\ Construct(h, 0) /\ Open = {} /\ used' = used
      /\ UNCHANGED <<commit, disk, fixed, resized>>
      /\ \A k \in Commits : ~Running(k)
    BY DEF OpenDataset, ClientFree, Running
<1>2. Trimming = {}
    BY <1>1 DEF Trimming
<1> QED
    BY <1>1, <1>2, SoleConstruct

LEMMA SoleTrimStart ==
    ASSUME TypeOK, TypeOK', sole, SoleParts, NEW h \in Handles, TrimStart(h)
    PROVE  SoleParts'
<1>1. /\ Construct(h, 1) /\ \A g \in Open : cell[g] # h
      /\ UNCHANGED <<commit, disk, fixed, resized>>
    BY DEF TrimStart
<1>3. Trimming = {} /\ \A k \in Commits : ~Running(k)
    BY FreeClient DEF TrimStart
<1>2. used'.updates = used.updates /\ used'.commits = used.commits
    BY DEF TrimStart, TypeOK
<1> QED
    BY <1>1, <1>2, <1>3, SoleConstruct

\* A slice shares the cells of the handle it is taken from.
LEMMA SoleSlice ==
    ASSUME TypeOK, TypeOK', sole, SoleParts, NEW g \in Handles, NEW h \in Handles,
           NEW sliced \in SUBSET Vars, Slice(g, h, sliced)
    PROVE  SoleParts'
<1>1. /\ h \in Open /\ Trimming = {} /\ g \notin Open /\ g # h /\ trimAt[g] = 0
      /\ \A k \in Commits : ~Running(k)
    BY FreeClient DEF Slice, Open, SoleParts, FormInv
<1>2. /\ commit' = commit /\ disk' = disk /\ format' = format /\ resized' = resized
      /\ trimAt' = trimAt /\ attrs' = attrs /\ used' = used
      /\ \A l, v : Flying(commit[l], v)' <=> Flying(commit[l], v)
      /\ \A k : Running(k)' <=> Running(k)
    BY DEF Slice, fixed, Flying, Running
<1>3. \A f \in Handles : /\ cell'[f] = IF f = g THEN cell[h] ELSE cell[f]
                         /\ f # g => since'[f] = since[f]
    BY DEF Slice, TypeOK
<1>4. Open' = Open \cup {g} /\ Trimming' = {} /\ Session = Open /\ Session' = Open \cup {g}
    BY <1>1, <1>2, <1>3 DEF Open, Trimming, Session
<1>5. \A f \in Open, v \in Vars : Version(f, v)' = Version(f, v)
    BY <1>1, <1>2, <1>3 DEF Version, Current, Open
<1>6. \A v \in Vars : Version(g, v)' = Version(h, v)
    BY <1>2, <1>3 DEF Version, Current
<1>7. cell[h] \in Open /\ cell[h] # g
    BY <1>1, <1>4 DEF SoleParts, OneInv
<1>8. FormInv'
    <2>1. \A f \in Handles : cell'[f] = Closed => trimAt'[f] = 0
        BY <1>1, <1>2, <1>3 DEF SoleParts, FormInv
    <2> QED
        BY <1>2, <1>4, <2>1 DEF SoleParts, FormInv
<1>9. OneInv'
    BY <1>1, <1>2, <1>3, <1>4, <1>7 DEF SoleParts, OneInv, Open
<1>10. FloorInv'
    BY <1>1, <1>2, <1>4, <1>5, <1>6, VersionTypes DEF SoleParts, FloorInv, Holding
<1>11. OkInv' /\ RunInv' /\ WholeInv'
    BY <1>1, <1>2 DEF SoleParts, OkInv, RunInv, WholeInv, InFlight
<1>12. AheadInv'
    BY <1>1, <1>2, <1>4, <1>5, <1>6 DEF SoleParts, AheadInv
<1>13. SameInv'
    <2>1. \A v \in Vars : Untouched(v)' => Untouched(v)
        BY <1>1, <1>3, <1>4, <1>7 DEF Untouched, Open
    <2> QED
        BY <1>1, <1>2, <1>4, <1>5, <1>6, <2>1 DEF SoleParts, SameInv
<1>14. ShapeInv'
    BY <1>2 DEF SoleParts, ShapeInv, NoError
<1> QED
    BY <1>8, <1>9, <1>10, <1>11, <1>12, <1>13, <1>14 DEF SoleParts

\* An update makes the newest version, for every handle of the client.
LEMMA SoleUpdateAttributes ==
    ASSUME TypeOK, TypeOK', sole, SoleParts, NEW h \in Handles, NEW u \in Vars,
           UpdateAttributes(h, u)
    PROVE  SoleParts'
<1>1. h \in Open /\ Trimming = {} /\ \A k \in Commits : ~Running(k)
    BY FreeClient DEF UpdateAttributes
<1>2. /\ commit' = commit /\ disk' = disk /\ format' = format /\ resized' = resized
      /\ cell' = cell /\ trimAt' = trimAt /\ flag' = flag
      /\ \A l, v : Flying(commit[l], v)' <=> Flying(commit[l], v)
      /\ \A k : Running(k)' <=> Running(k)
    BY DEF UpdateAttributes, fixed, Flying, Running
<1>3. used'.updates = used.updates + 1 /\ used'.commits = used.commits
    BY DEF UpdateAttributes, TypeOK
<1>4. Open' = Open /\ Trimming' = {} /\ Session = Open /\ Session' = Open
    BY <1>1, <1>2 DEF Open, Trimming, Session
<1>5. \A f \in Open : cell[f] = cell[h] /\ cell[f] \in Handles
    BY <1>1, <1>4, VersionTypes DEF SoleParts, OneInv, Open
<1>6. \A f \in Handles, v \in Vars :
        \/ attrs'[f][v].ver = attrs[f][v].ver
        \/ attrs'[f][v].ver = used.updates + 1
    <2>1. PICK a \in FreeAddrs(h, u) :
            attrs' = [attrs EXCEPT ![cell[h]][u] = [addr |-> a, ver |-> used.updates + 1]]
        BY DEF UpdateAttributes
    <2> QED
        BY <1>1, <1>5, <2>1 DEF TypeOK
<1>7. \A f \in Handles, v \in Vars : attrs[f][v].ver \in Nat /\ attrs[f][v].ver <= used.updates
    BY DEF SoleParts, FormInv, TypeOK, Object
<1>8. \A f \in Open, v \in Vars : Version(f, v)' \in Nat /\ Version(f, v) <= Version(f, v)'
    BY <1>2, <1>5, <1>6, <1>7, VersionTypes DEF Version, Current
<1>9. \A f \in Open, v \in Vars : v # u => Version(f, v)' = Version(f, v)
    <2>1. PICK a \in FreeAddrs(h, u) :
            attrs' = [attrs EXCEPT ![cell[h]][u] = [addr |-> a, ver |-> used.updates + 1]]
        BY DEF UpdateAttributes
    <2> QED
        BY <1>2, <1>5, <2>1 DEF TypeOK, Version, Current
<1>10. \A f \in Open : since'[f] = [since[f] EXCEPT ![u] = since[f][u] + 1]
    BY <1>5 DEF UpdateAttributes, Open
<1>11. FormInv'
    <2>1. \A k \in Commits, v \in Vars : Flying(commit[k], v) =>
            v \in commit[k].mod /\ commit[k].snap[v] <= used.updates + 1
        BY VersionTypes DEF SoleParts, FormInv
    <2>2. \A f \in Handles, v \in Vars : attrs'[f][v].ver <= used'.updates
        BY <1>3, <1>6, <1>7, VersionTypes
    <2>3. \A v \in Vars : disk'.attr[v] <= used'.updates
        BY <1>2, <1>3, VersionTypes DEF SoleParts, FormInv
    <2> QED
        BY <1>2, <1>3, <1>4, <2>1, <2>2, <2>3 DEF SoleParts, FormInv
<1>12. OneInv'
    BY <1>1, <1>2, <1>4 DEF SoleParts, OneInv
<1>13. FloorInv'
    BY <1>2, <1>4, <1>8, VersionTypes DEF SoleParts, FloorInv, Holding
<1>14. OkInv' /\ RunInv' /\ WholeInv'
    BY <1>1, <1>2 DEF SoleParts, OkInv, RunInv, WholeInv, InFlight
<1>15. AheadInv'
    <2> SUFFICES ASSUME NEW s \in Open, NEW v \in Vars
                 PROVE  /\ disk.attr[v] <= Version(s, v)'
                        /\ \A l \in Commits : Flying(commit[l], v) =>
                                commit[l].snap[v] <= Version(s, v)'
        BY <1>2, <1>4 DEF AheadInv
    <2> QED
        BY <1>4, <1>8, VersionTypes DEF SoleParts, AheadInv
<1>16. SameInv'
    <2> SUFFICES ASSUME NEW v \in Vars, Untouched(v)'
                 PROVE  /\ \A f \in Open : Version(f, v)' = disk.attr[v]
                        /\ \A l \in Commits : Flying(commit[l], v) =>
                                commit[l].snap[v] = disk.attr[v]
        BY <1>2, <1>4 DEF SameInv
    <2>1. PICK f \in Open : cell[f] = f /\ since'[f][v] = 0
        BY <1>1, <1>2, <1>4 DEF Untouched
    <2>2. since[f] \in [Vars -> Nat]
        BY DEF TypeOK, Open
    <2>3. v # u /\ since[f][v] = 0
        <3>1. since'[f] = [since[f] EXCEPT ![u] = since[f][u] + 1] /\ since[f][u] + 1 # 0
            BY <1>4, <1>10, <2>1, <2>2
        <3> QED
            BY <2>1, <2>2, <3>1
    <2>4. Untouched(v)
        BY <1>4, <2>1, <2>3 DEF Untouched
    <2> QED
        BY <1>9, <2>3, <2>4 DEF SoleParts, SameInv
<1>17. ShapeInv'
    BY <1>2 DEF SoleParts, ShapeInv, NoError
<1> QED
    BY <1>11, <1>12, <1>13, <1>14, <1>15, <1>16, <1>17 DEF SoleParts

(***************************************************************************)
(* A trim's loop, and crashes                                              *)
(***************************************************************************)

\* The versions, and everything that is about them or about the commits, stay
\* as they are: a trim's step changes shapes and the trim's own handle.
LEMMA SoleTrimVariable ==
    ASSUME TypeOK, TypeOK', SoleParts, NEW h \in Handles, TrimVariable(h)
    PROVE  SoleParts'
<1>1. /\ h \in Open /\ Trimming = {h} /\ (\A k \in Commits : ~Running(k)) /\ trimAt[h] \in Vars
      /\ h \notin Session
    BY DEF TrimVariable, Trimming, Session, SoleParts, OneInv
<1>2. /\ commit' = commit /\ attrs' = attrs /\ base' = base /\ format' = format /\ since' = since
      /\ \A l, v : Flying(commit[l], v)' <=> Flying(commit[l], v)
      /\ \A k : Running(k)' <=> Running(k)
    BY DEF TrimVariable, fixed, Flying, Running
<1>3. used'.updates = used.updates /\ used'.commits = used.commits
    BY DEF TrimVariable, Mishap, TypeOK
<1>4. disk'.attr = disk.attr /\ disk'.meta = disk.meta
    BY DEF TrimVariable, TypeOK
<1>5. \/ cell' = cell /\ trimAt' = [trimAt EXCEPT ![h] = trimAt[h] + 1]
         /\ flag' = [flag EXCEPT ![h][trimAt[h]] = TRUE]
      \/ cell' = [cell EXCEPT ![h] = Closed] /\ trimAt' = [trimAt EXCEPT ![h] = 0]
         /\ flag' = [flag EXCEPT ![h] = Unflagged]
    BY DEF TrimVariable
<1>6. \A g \in Handles : g # h => cell'[g] = cell[g] /\ trimAt'[g] = trimAt[g] /\ flag'[g] = flag[g]
    BY <1>5 DEF TypeOK
<1>7. \/ /\ cell'[h] = cell[h] /\ trimAt'[h] = trimAt[h] + 1 /\ trimAt[h] + 1 # 0
         /\ \A v \in Vars : v = trimAt[h] \/ flag[h][v] => flag'[h][v]
      \/ cell'[h] = Closed /\ trimAt'[h] = 0
    <2>1. trimAt[h] + 1 # 0 /\ h \in Handles
        BY <1>1 DEF Vars, Open
    <2>2. ASSUME flag' = [flag EXCEPT ![h][trimAt[h]] = TRUE]
          PROVE  \A v \in Vars : v = trimAt[h] \/ flag[h][v] => flag'[h][v]
        BY <2>1, <2>2 DEF TypeOK
    <2>3. \/ cell'[h] = cell[h] /\ trimAt'[h] = trimAt[h] + 1
             /\ flag' = [flag EXCEPT ![h][trimAt[h]] = TRUE]
          \/ cell'[h] = Closed /\ trimAt'[h] = 0
        BY <1>5, <2>1 DEF TypeOK
    <2> QED
        BY <2>1, <2>2, <2>3
<1>8. /\ Open' \subseteq Open /\ Trimming' \subseteq Trimming /\ Session' = Session
      /\ Session \subseteq Open
    BY <1>1, <1>6, <1>7 DEF Open, Trimming, Session
<1>9. \A g \in Open' : cell'[g] = cell[g]
    BY <1>6, <1>7 DEF Open
<1>10. \A g \in Open', v \in Vars : Version(g, v)' = Version(g, v)
    BY <1>2, <1>9 DEF Version, Current
<1>11. FormInv'
    <2>1. \A g \in Handles : cell'[g] = Closed => trimAt'[g] = 0
        BY <1>1, <1>6, <1>7 DEF SoleParts, FormInv, Open
    <2>2. \A g \in Trimming', v \in Vars : v < trimAt'[g] => flag'[g][v]
        <3>1. trimAt'[h] # 0 => \A v \in Vars : v < trimAt'[h] => v < trimAt[h] \/ v = trimAt[h]
            BY <1>1, <1>7 DEF Vars
        <3>2. \A v \in Vars : v < trimAt[h] => flag[h][v]
            BY <1>1 DEF SoleParts, FormInv
        <3>3. \A g \in Trimming' : g = h /\ trimAt'[h] # 0
            BY <1>1, <1>8 DEF Trimming
        <3> QED
            BY <1>7, <3>1, <3>2, <3>3
    <2> QED
        BY <1>2, <1>3, <1>4, <2>1, <2>2 DEF SoleParts, FormInv
<1>12. OneInv'
    <2>1. \A s \in Session : cell[s] \in Session /\ s \in Open'
        BY <1>1, <1>8 DEF SoleParts, OneInv, Session
    <2>2. \A g, s \in Session' : cell'[g] = cell'[s] /\ cell'[g] \in Session'
        BY <1>8, <1>9, <2>1 DEF SoleParts, OneInv
    <2>3. \A t \in Trimming' : cell'[t] = t /\ \A g \in Open' : cell'[g] = t => g = t
        BY <1>8, <1>9 DEF SoleParts, OneInv, Trimming
    <2>4. \A s, t \in Trimming' : s = t
        BY <1>8 DEF SoleParts, OneInv
    <2> QED
        BY <1>1, <1>2, <2>2, <2>3, <2>4 DEF OneInv
<1>13. FloorInv'
    BY <1>1, <1>2, <1>8, <1>10, VersionTypes DEF SoleParts, FloorInv, Holding
<1>14. OkInv'
    BY <1>2, <1>4 DEF SoleParts, OkInv
<1>15. RunInv' /\ WholeInv'
    BY <1>1, <1>2 DEF RunInv, WholeInv
<1>16. AheadInv'
    <2>1. Session \subseteq Open' /\ Trimming' \subseteq Open'
        BY <1>8 DEF Session, Trimming
    <2> QED
        BY <1>2, <1>4, <1>8, <1>10, <2>1 DEF SoleParts, AheadInv
<1>17. SameInv'
    <2>1. \A v \in Vars : Untouched(v)' => Untouched(v)
        BY <1>2, <1>8, <1>9 DEF Untouched, Session
    <2> QED
        BY <1>2, <1>4, <1>8, <1>10, <2>1 DEF SoleParts, SameInv
<1>18. ShapeInv'
    <2> SUFFICES ASSUME NoError
                 PROVE  /\ disk'.shape = resized'
                        /\ \A k \in Commits, v \in Vars : /\ ~Flying(commit[k], v)
                                                        /\ commit[k].pub[v] # "write"
        BY <1>2 DEF ShapeInv, NoError
    <2>1. \A k \in Commits, v \in Vars : ~Flying(commit[k], v) /\ commit[k].pub[v] # "write"
        BY <1>1 DEF SoleParts, ShapeInv, Flying
    <2>2. disk.shape = resized
        BY DEF SoleParts, ShapeInv
    <2>3. disk'.shape = resized'
        <3>1. CASE disk' = disk /\ resized' = resized
            BY <2>2, <3>1
        <3>2. CASE /\ disk' = [disk EXCEPT !.shape[trimAt[h]] = @ + 1]
                   /\ resized' = [resized EXCEPT ![trimAt[h]] = @ + 1]
            BY <1>1, <2>2, <3>2 DEF TypeOK
        <3> QED
            BY <3>1, <3>2 DEF TrimVariable
    <2> QED
        BY <2>1, <2>3
<1> QED
    BY <1>11, <1>12, <1>13, <1>14, <1>15, <1>16, <1>17, <1>18 DEF SoleParts

LEMMA DeadEffect ==
    ASSUME NEW c \in CommitState
    PROVE  /\ Dead(c).alone = c.alone /\ Dead(c).mod = c.mod
           /\ Dead(c).snap = c.snap /\ Dead(c).res = c.res
           /\ Dead(c).st # "running" /\ (c.st = "done" => Dead(c).st = "done")
           /\ \A v \in Vars : Dead(c).pub[v] \notin {"read", "write"}
<1>1. /\ Dead(c).st = IF c.st = "running" THEN "dead" ELSE c.st
      /\ Dead(c).pub =
            [v \in Vars |-> IF c.pub[v] \in {"read", "write"} THEN "lost" ELSE c.pub[v]]
      /\ Dead(c).alone = c.alone /\ Dead(c).mod = c.mod
      /\ Dead(c).snap = c.snap /\ Dead(c).res = c.res
    BY DEF Dead, CommitState
<1> QED
    BY <1>1

LEMMA SoleCrash ==
    ASSUME TypeOK, TypeOK', SoleParts, Crash
    PROVE  SoleParts'
<1>1. Open' = {} /\ Trimming' = {} /\ Session' = {}
    BY DEF Crash, Open, Trimming, Session
<1>2. /\ disk' = disk /\ resized' = resized /\ format' = format
      /\ used'.updates = used.updates /\ used'.commits = used.commits
    BY DEF Crash, Mishap, fixed, TypeOK
<1>3. \A k \in Commits : commit[k] \in CommitState /\ commit'[k] = Dead(commit[k])
    BY DEF Crash, TypeOK
<1>4. \A k \in Commits :
        /\ commit'[k].alone = commit[k].alone /\ commit'[k].mod = commit[k].mod
        /\ commit'[k].snap = commit[k].snap /\ commit'[k].res = commit[k].res
        /\ commit'[k].st # "running"
        /\ commit[k].st = "done" => commit'[k].st = "done"
        /\ \A v \in Vars : commit'[k].pub[v] \notin {"read", "write"}
    BY <1>3, DeadEffect
<1>5. \A k \in Commits : ~Running(k)' /\ \A v \in Vars : ~Flying(commit[k], v)'
    BY <1>4 DEF Running, Flying
<1>6. FormInv'
    <2>1. Dead(IdleCommit) = IdleCommit
        <3>1. /\ IdleCommit \in CommitState /\ IdleCommit.st = "idle"
              /\ IdleCommit.group = "none" /\ \A v \in Vars : IdleCommit.pub[v] = "none"
            BY ConstantTypes DEF IdleCommit
        <3>2. ASSUME NEW c \in CommitState, c.st = "idle", c.group = "none",
                     \A v \in Vars : c.pub[v] = "none"
              PROVE  Dead(c) = c
            <4>1. c.pub = [v \in Vars |-> IF c.pub[v] \in {"read", "write"}
                                         THEN "lost" ELSE c.pub[v]]
                BY <3>2 DEF CommitState
            <4> QED
                BY <3>2, <4>1 DEF Dead, CommitState
        <3> QED
            BY <3>1, <3>2
    <2>2. \A k \in Commits : k > used'.commits => commit'[k] = IdleCommit
        BY <1>2, <1>3, <2>1 DEF SoleParts, FormInv
    <2>3. \A k \in Commits : commit'[k].res = "ok" => commit'[k].st = "done"
        BY <1>4 DEF SoleParts, FormInv
    <2>4. \A g \in Handles, v \in Vars : attrs'[g][v].ver = 0
        BY DEF Crash, Objects, Zero
    <2>5. \A g \in Handles : trimAt'[g] = 0
        BY DEF Crash
    <2>6. 0 <= used'.updates
        BY <1>2, VersionTypes
    <2>7. \A v \in Vars : disk'.attr[v] <= used'.updates
        BY <1>2 DEF SoleParts, FormInv
    <2> QED
        BY <1>1, <1>5, <2>2, <2>3, <2>4, <2>5, <2>6, <2>7 DEF FormInv
<1>7. OneInv'
    BY <1>1, <1>5 DEF OneInv
<1>8. FloorInv' /\ AheadInv'
    BY <1>1 DEF FloorInv, AheadInv
<1>9. OkInv'
    <2> SUFFICES ASSUME NEW k \in Commits, commit'[k].alone, commit'[k].res = "ok",
                        NEW v \in commit'[k].mod
                 PROVE  commit'[k].snap[v] <= disk'.attr[v]
        BY <1>3, <1>4, <1>5 DEF OkInv, CommitState
    <2> QED
        BY <1>2, <1>4 DEF SoleParts, OkInv
<1>10. RunInv' /\ WholeInv'
    BY <1>5 DEF RunInv, WholeInv
<1>11. SameInv'
    BY <1>1, <1>5 DEF SameInv
<1>12. ShapeInv'
    BY <1>2, <1>4, <1>5 DEF SoleParts, ShapeInv, NoError, Flying
<1> QED
    BY <1>6, <1>7, <1>8, <1>9, <1>10, <1>11, <1>12 DEF SoleParts

LEMMA SoleStutter ==
    ASSUME SoleParts, UNCHANGED vars
    PROVE  SoleParts'
<1> USE DEF vars, Open, Trimming, Session, Running, Flying, Version, Current
<1>1. FormInv' /\ OneInv' /\ FloorInv' /\ OkInv'
    BY DEF SoleParts, FormInv, OneInv, FloorInv, OkInv, Holding
<1>2. RunInv' /\ AheadInv' /\ SameInv'
    BY DEF SoleParts, RunInv, AheadInv, SameInv, Untouched, InFlight
<1>3. WholeInv' /\ ShapeInv'
    BY DEF SoleParts, WholeInv, ShapeInv, NoError, WasUpdated
<1> QED
    BY <1>1, <1>2, <1>3 DEF SoleParts

LEMMA SoleStep ==
    ASSUME TypeOK, TypeOK', SoleInv, [Next]_vars
    PROVE  SoleInv'
<1>1. sole' = sole
    BY DEF Next, Client, Background, OpenDataset, Slice, UpdateAttributes, ClientCommit,
        TrimStart, TrimVariable, TrimCommit, CommitMetadata, GroupWrite, Resolve, PublishRead,
        PublishWrite, Crash, fixed, vars
<1> SUFFICES ASSUME sole, SoleParts PROVE SoleParts'
    BY <1>1 DEF SoleInv
<1>2. ASSUME NEW h \in Handles, OpenDataset(h) \/ TrimStart(h)
      PROVE  SoleParts'
    BY <1>2, SoleOpenDataset, SoleTrimStart
<1>3. ASSUME NEW g \in Handles, NEW h \in Handles, NEW sliced \in SUBSET Vars,
             Slice(g, h, sliced)
      PROVE  SoleParts'
    BY <1>3, SoleSlice
<1>4. ASSUME NEW h \in Handles, NEW v \in Vars, UpdateAttributes(h, v)
      PROVE  SoleParts'
    BY <1>4, SoleUpdateAttributes
<1>5. ASSUME NEW k \in Commits, NEW h \in Handles, ClientCommit(k, h) \/ TrimCommit(k, h)
      PROVE  SoleParts'
    BY <1>5, SoleClientCommit, SoleTrimCommit
<1>6. ASSUME NEW k \in Commits, StoreStep(k)
      PROVE  SoleParts'
    BY <1>6, SoleStoreStep
<1>7. ASSUME NEW h \in Handles, TrimVariable(h)
      PROVE  SoleParts'
    BY <1>7, SoleTrimVariable
<1>8. CASE Crash
    BY <1>8, SoleCrash
<1>9. CASE UNCHANGED vars
    BY <1>9, SoleStutter
<1> QED
    BY <1>2, <1>3, <1>4, <1>5, <1>6, <1>7, <1>8, <1>9
    DEF Next, Client, Background, StoreStep

\* The inductive invariant holds of every reachable state.
THEOREM SoleCorrect == Spec => []SoleInv
<1>1. Init => SoleInv
    BY SoleInit
<1>2. TypeOK /\ TypeOK' /\ SoleInv /\ [Next]_vars => SoleInv'
    BY SoleStep
<1> QED
    BY <1>1, <1>2, TypeCorrect, PTL DEF Spec

(***************************************************************************)
(* What follows from it                                                    *)
(***************************************************************************)

\* Attributes a sole client has committed survive: later commits, trims and
\* updates, failing writes that reach the store all the same, and crashes
\* leave attributes at least as new in the store.
THEOREM SurvivesCorrect == Spec => []CommittedSurvives
<1>1. TypeOK /\ SoleInv => CommittedSurvives
    BY VersionTypes DEF SoleInv, SoleParts, OkInv, CommittedSurvives
<1> QED
    BY <1>1, TypeCorrect, SoleCorrect, PTL

\* A resize the store acknowledged to a sole client stays in the array's
\* metadata: while no commit has failed, a V3 publish writes back the shape
\* it has just read.
THEOREM ShapeKeptCorrect == Spec => []AwaitedShapeKept
<1>1. SoleInv => AwaitedShapeKept
    BY DEF SoleInv, SoleParts, ShapeInv, NoError, AwaitedShapeKept, OtherMetadataKept
<1> QED
    BY <1>1, SoleCorrect, PTL

\* Only its continuation gives a running commit a successful result.
LEMMA SucceedsEffect ==
    ASSUME TypeOK, [Next]_vars, NEW k \in Commits, Succeeds(k), commit[k].res = "none"
    PROVE  disk' = disk /\ \A v \in commit[k].mod : commit[k].pub[v] = "ok"
<1>1. commit'[k].res # commit[k].res
    BY DEF Succeeds
<1>2. ASSUME NEW l \in Commits, StoreStep(l)
      PROVE  disk' = disk /\ \A v \in commit[k].mod : commit[k].pub[v] = "ok"
    <2>1. PICK d \in CommitState : commit' = [commit EXCEPT ![l] = d] /\ StoreEffect(l, d)
        BY <1>2, StoreStepEffect
    <2>2. l = k /\ commit'[k] = d
        BY <1>1, <2>1 DEF TypeOK
    <2> QED
        BY <1>1, <2>1, <2>2 DEF StoreEffect, Succeeds
<1>3. ASSUME NEW l \in Commits, NEW h \in Open, CommitMetadata(l, h)
      PROVE  FALSE
    <2>1. PICK d \in CommitState : /\ commit' = [commit EXCEPT ![l] = d]
                                   /\ UnmodifiedEffect(d) \/ StartedEffect(h, d)
        BY <1>3, CommitMetadataEffect
    <2>2. l = k /\ commit'[k] = d
        BY <1>1, <2>1 DEF TypeOK
    <2> QED
        BY <2>1, <2>2 DEF UnmodifiedEffect, StartedEffect, Succeeds
<1>4. ASSUME Crash
      PROVE  FALSE
    <2>1. commit[k] \in CommitState /\ commit'[k] = Dead(commit[k])
        BY <1>4 DEF Crash, TypeOK
    <2> QED
        BY <1>1, <2>1, DeadEffect
<1>5. commit' # commit
    BY <1>1
<1> QED
    BY <1>2, <1>3, <1>4, <1>5
    DEF Next, Client, Background, StoreStep, OpenDataset, Slice, UpdateAttributes, ClientCommit,
        TrimStart, TrimVariable, TrimCommit, Trimming, vars

\* In the V2 format the consolidated metadata and the attributes of the
\* variables agree when a commit of a sole client succeeds: the commit has
\* written what it published, and a variable it has not published has not
\* changed since the dataset was opened.
THEOREM ConsolidatedCorrect == Spec => ConsolidatedAgrees
<1>1. ASSUME TypeOK, TypeOK', SoleInv, [Next]_vars, NEW k \in Commits,
             Succeeds(k), sole, format = "V2", commit[k].alone, commit[k].root,
             ChangesDetected
      PROVE  disk'.meta = disk'.attr
    <2>1. SoleParts /\ Running(k) /\ commit[k].res = "none"
        BY <1>1 DEF SoleInv, SoleParts, FormInv, Running, Succeeds
    <2>2. disk' = disk /\ \A v \in commit[k].mod : commit[k].pub[v] = "ok"
        BY <1>1, <2>1, SucceedsEffect
    <2>3. disk.meta = commit[k].snap
        BY <1>1, <2>1 DEF SoleParts, RunInv, Succeeds
    <2>4. \A v \in commit[k].mod : disk.attr[v] = commit[k].snap[v]
        BY <1>1, <2>1, <2>2 DEF SoleParts, RunInv
    <2>5. ASSUME NEW v \in Vars, v \notin commit[k].mod
          PROVE  disk.attr[v] = commit[k].snap[v]
        <3> DEFINE h == commit[k].h
        <3>1. /\ h \in Session /\ h \in Open /\ h \in Handles /\ cell[h] = h
              /\ commit[k].snap[v] = Version(h, v) /\ ~WasUpdated(h, v)
            BY <1>1, <2>1, <2>5 DEF SoleParts, WholeInv, Session, Open
        <3>2. since[h][v] = 0
            BY <1>1, <3>1 DEF ChangesDetected, TypeOK
        <3>3. Untouched(v)
            BY <3>1, <3>2 DEF Untouched
        <3> QED
            BY <2>1, <3>1, <3>3 DEF SoleParts, SameInv
    <2>6. disk.attr \in [Vars -> Nat] /\ commit[k].snap \in [Vars -> Nat]
        BY <1>1 DEF TypeOK, CommitState
    <2> QED
        BY <2>2, <2>3, <2>4, <2>5, <2>6
<1>2. TypeOK /\ TypeOK' /\ SoleInv /\ [Next]_vars =>
        [\A k \in Commits :
            Succeeds(k) /\ sole /\ format = "V2" /\ commit[k].alone /\ commit[k].root
            /\ ChangesDetected
              => disk'.meta = disk'.attr]_vars
    BY <1>1
<1> QED
    BY <1>2, TypeCorrect, SoleCorrect, PTL DEF Spec, ConsolidatedAgrees

(***************************************************************************)
(* Any clients implement Publication. Beside the types and the detection   *)
(* of first updates this needs that a flagged variable belongs to a trim,  *)
(* whose cells nobody shares, and that what is published was modified.     *)
(***************************************************************************)

TrimmingInv ==
    \A h \in Handles :
        /\ trimAt[h] # 0 => cell[h] = h /\ \A g \in Handles \ {h} : cell[g] # h
        /\ \A v \in Vars : flag[h][v] => trimAt[h] # 0

CallInv ==
    \A k \in Commits :
        /\ k > used.commits => commit[k] = IdleCommit
        /\ \A v \in Vars \ commit[k].mod : commit[k].pub[v] = "none"

PublicInv == TrimmingInv /\ CallInv

\* The state of Publication.
Held  == [h \in Handles |-> [v \in Vars |-> attrs[h][v].ver]]
Dues  == [h \in Handles |-> [v \in Vars |-> Due(h, v)]]
Calls == [k \in Commits |-> Progress(commit[k])]

LEMMA DueIs ==
    ASSUME TypeOK, NEW h \in Handles, NEW v \in Vars
    PROVE  /\ cell[h] = Closed => Due(h, v) = "no"
           /\ cell[h] # Closed /\ flag[h][v] => Due(h, v) = "yes"
           /\ cell[h] # Closed /\ since[h][v] = 1 => Due(h, v) = "yes"
           /\ cell[h] # Closed /\ ~flag[h][v] /\ since[h][v] = 0 => Due(h, v) = "no"
           /\ cell[h] # Closed /\ ~flag[h][v] /\ since[h][v] > 1 => Due(h, v) = "maybe"
<1>1. since[h][v] \in Nat /\ flag[h][v] \in BOOLEAN
    BY DEF TypeOK
<1> QED
    BY <1>1 DEF Due

LEMMA DuePrimed ==
    ASSUME TypeOK', NEW h \in Handles, NEW v \in Vars
    PROVE  /\ cell'[h] = Closed => Due(h, v)' = "no"
           /\ cell'[h] # Closed /\ flag'[h][v] => Due(h, v)' = "yes"
           /\ cell'[h] # Closed /\ since'[h][v] = 1 => Due(h, v)' = "yes"
           /\ cell'[h] # Closed /\ ~flag'[h][v] /\ since'[h][v] = 0 => Due(h, v)' = "no"
           /\ cell'[h] # Closed /\ ~flag'[h][v] /\ since'[h][v] > 1 => Due(h, v)' = "maybe"
<1>1. since'[h][v] \in Nat /\ flag'[h][v] \in BOOLEAN
    BY DEF TypeOK
<1> QED
    BY <1>1 DEF Due

LEMMA DueSame ==
    ASSUME NEW g \in Handles, NEW h \in Handles, NEW v \in Vars,
           cell'[g] = Closed <=> cell[h] = Closed, flag'[g][v] <=> flag[h][v],
           since'[g][v] = since[h][v]
    PROVE  Due(g, v)' = Due(h, v)
BY DEF Due

\* ------------------------------------------------------------------------
\* The invariant

LEMMA PublicInit == Init => PublicInv
<1> SUFFICES ASSUME Init PROVE PublicInv
    OBVIOUS
<1>1. TrimmingInv
    BY DEF Init, TrimmingInv, Unflagged
<1>2. CallInv
    BY DEF Init, CallInv, IdleCommit
<1> QED
    BY <1>1, <1>2 DEF PublicInv

LEMMA PublicConstruct ==
    ASSUME TypeOK, PublicInv, NEW h \in Handles, NEW trim \in 0..1, Construct(h, trim),
           \A g \in Open : cell[g] # h, UNCHANGED commit, used'.commits = used.commits
    PROVE  PublicInv'
<1>1. /\ cell' = [cell EXCEPT ![h] = h] /\ trimAt' = [trimAt EXCEPT ![h] = trim]
      /\ flag' = [flag EXCEPT ![h] = Unflagged] /\ cell[h] = Closed
    BY DEF Construct
<1>2. TrimmingInv'
    <2>1. ASSUME NEW g \in Handles, trimAt'[g] # 0
          PROVE  cell'[g] = g /\ \A f \in Handles \ {g} : cell'[f] # g
        <3>1. CASE g = h
            <4>1. \A f \in Handles \ {h} : cell'[f] = cell[f]
                BY <1>1 DEF TypeOK
            <4>2. \A f \in Handles : cell[f] # h
                BY HandlesAssumption DEF Open
            <4> QED
                BY <1>1, <3>1, <4>1, <4>2 DEF TypeOK
        <3>2. CASE g # h
            <4>1. trimAt[g] # 0
                BY <1>1, <2>1, <3>2 DEF TypeOK
            <4>2. cell[g] = g /\ \A f \in Handles \ {g} : cell[f] # g
                BY <4>1 DEF PublicInv, TrimmingInv
            <4>3. \A f \in Handles : cell'[f] = IF f = h THEN h ELSE cell[f]
                BY <1>1 DEF TypeOK
            <4> QED
                BY <3>2, <4>2, <4>3
        <3> QED
            BY <3>1, <3>2
    <2>2. ASSUME NEW g \in Handles, NEW v \in Vars, flag'[g][v] PROVE trimAt'[g] # 0
        <3>1. g # h
            BY <1>1, <2>2 DEF TypeOK, Unflagged
        <3>2. flag[g][v] /\ trimAt'[g] = trimAt[g]
            BY <1>1, <2>2, <3>1 DEF TypeOK
        <3> QED
            BY <3>2 DEF PublicInv, TrimmingInv
    <2> QED
        BY <2>1, <2>2 DEF TrimmingInv
<1>3. CallInv'
    BY DEF PublicInv, CallInv
<1> QED
    BY <1>2, <1>3 DEF PublicInv

LEMMA PublicSlice ==
    ASSUME TypeOK, PublicInv, NEW g \in Handles, NEW h \in Handles,
           NEW sliced \in SUBSET Vars, Slice(g, h, sliced)
    PROVE  PublicInv'
<1>1. /\ cell' = [cell EXCEPT ![g] = cell[h]] /\ trimAt' = trimAt /\ cell[g] = Closed
      /\ flag' = [flag EXCEPT ![g] = [v \in Vars |-> v \notin sliced /\ flag[h][v]]]
      /\ h \in Open \ Trimming /\ commit' = commit /\ used' = used
    BY DEF Slice
<1>2. trimAt[h] = 0 /\ cell[h] # Closed
    BY <1>1 DEF Open, Trimming
<1>3. TrimmingInv'
    <2>1. ASSUME NEW f \in Handles, trimAt'[f] # 0
          PROVE  cell'[f] = f /\ \A e \in Handles \ {f} : cell'[e] # f
        <3>1. cell[f] = f /\ (\A e \in Handles \ {f} : cell[e] # f) /\ f # h
            BY <1>1, <1>2, <2>1 DEF PublicInv, TrimmingInv
        <3>2. f # g
            BY <1>1, <3>1, HandlesAssumption
        <3>3. \A e \in Handles : cell'[e] = IF e = g THEN cell[h] ELSE cell[e]
            BY <1>1 DEF TypeOK
        <3> QED
            BY <3>1, <3>2, <3>3
    <2>2. ASSUME NEW f \in Handles, NEW v \in Vars, flag'[f][v] PROVE trimAt'[f] # 0
        <3>1. CASE f = g
            <4>1. flag[h][v]
                BY <1>1, <2>2, <3>1 DEF TypeOK
            <4> QED
                BY <1>2, <4>1 DEF PublicInv, TrimmingInv
        <3>2. CASE f # g
            <4>1. flag[f][v]
                BY <1>1, <2>2, <3>2 DEF TypeOK
            <4> QED
                BY <1>1, <4>1 DEF PublicInv, TrimmingInv
        <3> QED
            BY <3>1, <3>2
    <2> QED
        BY <2>1, <2>2 DEF TrimmingInv
<1>4. CallInv'
    BY <1>1 DEF PublicInv, CallInv
<1> QED
    BY <1>3, <1>4 DEF PublicInv

\* A commit that begins resets flags and uses the next number.
LEMMA CallsBegin ==
    ASSUME TypeOK, PublicInv, NEW k \in Commits, NEW h \in Handles, CommitMetadata(k, h)
    PROVE  /\ CallInv' /\ commit[k] = IdleCommit
           /\ flag' = [flag EXCEPT ![h] = Unflagged]
           /\ Calls' = [Calls EXCEPT ![k] =
                [state  |-> IF Modified(h) = {} THEN "unmodified" ELSE "running",
                 takes  |-> [v \in Modified(h) |-> Current(h, v).ver],
                 left   |-> Modified(h), missed |-> {}]]
<1> DEFINE S == Modified(h)
           c == IF S = {} THEN [IdleCommit EXCEPT !.st = "done", !.h = h, !.res = "unmodified"]
                ELSE StartedCommit(h)
<1>1. /\ k = used.commits + 1 /\ commit' = [commit EXCEPT ![k] = c] /\ used'.commits = k
      /\ flag' = [flag EXCEPT ![h] = Unflagged]
    BY DEF CommitMetadata, TypeOK
<1>2. used.commits \in Nat /\ DOMAIN commit = Commits /\ k \in Nat /\ \A l \in Commits : l \in Nat
    BY DEF TypeOK, Commits
<1>3. commit[k] = IdleCommit
    BY <1>1, <1>2 DEF PublicInv, CallInv
<1>4. S \subseteq Vars
    BY DEF Modified
<1>5. /\ \A v \in Vars \ c.mod : c.pub[v] = "none"
      /\ Progress(c) = [state  |-> IF S = {} THEN "unmodified" ELSE "running",
                        takes  |-> [v \in S |-> Current(h, v).ver],
                        left   |-> S, missed |-> {}]
    <2>1. CASE S = {}
        <3> DEFINE d == [IdleCommit EXCEPT !.st = "done", !.h = h, !.res = "unmodified"]
        <3>1. /\ d.st = "done" /\ d.res = "unmodified" /\ d.mod = {}
              /\ \A v \in Vars : d.pub[v] = "none"
            BY DEF IdleCommit
        <3>2. c = d
            BY <2>1
        <3>3. [v \in d.mod |-> d.snap[v]] = [v \in S |-> Current(h, v).ver]
            BY <2>1, <3>1
        <3> HIDE DEF d, S
        <3>4. Progress(d) = [state |-> "unmodified", takes |-> [v \in S |-> Current(h, v).ver],
                             left |-> {}, missed |-> {}]
            BY <3>1, <3>3 DEF Progress
        <3> QED
            BY <2>1, <3>1, <3>2, <3>4
    <2>2. CASE S # {}
        <3> DEFINE d == StartedCommit(h)
        <3>1. /\ d.st = "running" /\ d.mod = S /\ d.snap = [v \in Vars |-> Current(h, v).ver]
              /\ d.pub = [v \in Vars |-> IF v \notin S THEN "none"
                                         ELSE IF format = "V3" THEN "read" ELSE "write"]
            BY DEF StartedCommit, IdleCommit
        <3>2. c = d
            BY <2>2
        <3> HIDE DEF d, S
        <3>3. [v \in d.mod |-> d.snap[v]] = [v \in S |-> Current(h, v).ver]
            BY <1>4, <3>1
        <3>4. {v \in Vars : d.pub[v] \in {"read", "write"}} = S
            BY <1>4, <3>1
        <3>5. {v \in Vars : d.pub[v] = "failed"} = {}
            BY <3>1
        <3>6. Progress(d) = [state |-> "running", takes |-> [v \in S |-> Current(h, v).ver],
                             left |-> S, missed |-> {}]
            BY <3>1, <3>3, <3>4, <3>5 DEF Progress
        <3> QED
            BY <2>2, <3>1, <3>2, <3>6
    <2> QED
        BY <2>1, <2>2
<1> HIDE DEF c, S
<1>6. \A l \in Commits : commit'[l] = IF l = k THEN c ELSE commit[l]
    BY <1>1, <1>2
<1>7. CallInv'
    <2>1. ASSUME NEW l \in Commits, l > used'.commits PROVE commit'[l] = IdleCommit
        <3>1. l # k /\ l > used.commits
            BY <1>1, <1>2, <2>1
        <3> QED
            BY <1>6, <3>1 DEF PublicInv, CallInv
    <2>2. ASSUME NEW l \in Commits, NEW v \in Vars \ commit'[l].mod PROVE commit'[l].pub[v] = "none"
        <3>1. CASE l = k
            BY <1>5, <1>6, <2>2, <3>1
        <3>2. CASE l # k
            BY <1>6, <2>2, <3>2 DEF PublicInv, CallInv
        <3> QED
            BY <3>1, <3>2
    <2> QED
        BY <2>1, <2>2 DEF CallInv
<1>8. Calls' = [Calls EXCEPT ![k] = Progress(c)]
    BY <1>6 DEF Calls
<1> QED
    BY <1>1, <1>3, <1>5, <1>7, <1>8 DEF S

\* Other steps keep the handles' flags and change a commit's publications only.
LEMMA CallsKept ==
    ASSUME PublicInv, NEW k \in Commits, commit \in [Commits -> CommitState],
           commit' \in [Commits -> CommitState],
           \A l \in Commits \ {k} : commit'[l] = commit[l],
           commit[k] # IdleCommit,
           commit'[k].mod = commit[k].mod,
           \A v \in Vars : commit[k].pub[v] = "none" => commit'[k].pub[v] = "none",
           used'.commits = used.commits
    PROVE  CallInv'
<1>1. ASSUME NEW l \in Commits, l > used'.commits PROVE commit'[l] = IdleCommit
    <2>1. commit[l] = IdleCommit
        BY <1>1 DEF PublicInv, CallInv
    <2> QED
        BY <2>1
<1>2. ASSUME NEW l \in Commits, NEW v \in Vars \ commit'[l].mod PROVE commit'[l].pub[v] = "none"
    BY <1>2 DEF PublicInv, CallInv
<1> QED
    BY <1>1, <1>2 DEF CallInv

LEMMA TrimmingKept ==
    ASSUME PublicInv, UNCHANGED <<cell, flag, trimAt>>
    PROVE  TrimmingInv'
BY DEF PublicInv, TrimmingInv

\* An operation of the store or the end of a commit.
LEMMA PublicStore ==
    ASSUME TypeOK, TypeOK', PublicInv, NEW k \in Commits, NEW v \in Vars,
           GroupWrite(k) \/ Resolve(k) \/ PublishRead(k, v) \/ PublishWrite(k, v)
    PROVE  PublicInv'
<1>1. commit \in [Commits -> CommitState] /\ commit' \in [Commits -> CommitState]
    BY DEF TypeOK
<1>2. UNCHANGED <<cell, flag, trimAt>> /\ used'.commits = used.commits
    BY DEF GroupWrite, Resolve, PublishRead, PublishWrite, Mishap, memory, TypeOK
<1>3. commit[k].pub \in [Vars -> PubState]
    BY <1>1 DEF CommitState
<1>4. commit[k] # IdleCommit
    BY DEF GroupWrite, Resolve, PublishRead, PublishWrite, IdleCommit
<1>5. CASE GroupWrite(k)
    <2>1. \E g \in {"ok", "failed"} : commit' = [commit EXCEPT ![k].group = g]
        BY <1>5 DEF GroupWrite
    <2>2. /\ \A l \in Commits \ {k} : commit'[l] = commit[l]
          /\ commit'[k].mod = commit[k].mod /\ commit'[k].pub = commit[k].pub
        BY <1>1, <2>1 DEF CommitState
    <2>3. CallInv'
        BY <1>1, <1>2, <1>4, <2>2, CallsKept
    <2> QED
        BY <1>2, <2>3, TrimmingKept DEF PublicInv
<1>6. CASE Resolve(k)
    <2>1. \E r \in {"ok", "error"} : commit' = [commit EXCEPT ![k].st = "done", ![k].res = r]
        BY <1>6 DEF Resolve
    <2>2. /\ \A l \in Commits \ {k} : commit'[l] = commit[l]
          /\ commit'[k].mod = commit[k].mod /\ commit'[k].pub = commit[k].pub
        BY <1>1, <2>1 DEF CommitState
    <2>3. CallInv'
        BY <1>1, <1>2, <1>4, <2>2, CallsKept
    <2> QED
        BY <1>2, <2>3, TrimmingKept DEF PublicInv
<1>7. CASE PublishRead(k, v) \/ PublishWrite(k, v)
    <2>1. /\ commit[k].pub[v] # "none"
          /\ \/ \E p \in PubState : commit' = [commit EXCEPT ![k].pub[v] = p]
             \/ \E n : commit' = [commit EXCEPT ![k].pub[v] = "write", ![k].seen[v] = n]
        BY <1>7 DEF PublishRead, PublishWrite, PubState
    <2>2. /\ \A l \in Commits \ {k} : commit'[l] = commit[l]
          /\ commit'[k].mod = commit[k].mod
          /\ \A u \in Vars \ {v} : commit'[k].pub[u] = commit[k].pub[u]
        BY <1>1, <1>3, <2>1 DEF CommitState
    <2>3. \A u \in Vars : commit[k].pub[u] = "none" => commit'[k].pub[u] = "none"
        BY <2>1, <2>2
    <2>4. CallInv'
        BY <1>1, <1>2, <1>4, <2>2, <2>3, CallsKept
    <2> QED
        BY <1>2, <2>4, TrimmingKept DEF PublicInv
<1> QED
    BY <1>5, <1>6, <1>7

\* A commit may take the handle away, if it is a trim's.
LEMMA PublicCommit ==
    ASSUME TypeOK, PublicInv, NEW k \in Commits, NEW h \in Handles,
           ClientCommit(k, h) \/ TrimCommit(k, h)
    PROVE  PublicInv'
<1>1. CallInv' /\ flag' = [flag EXCEPT ![h] = Unflagged]
    BY CallsBegin DEF ClientCommit, TrimCommit
<1>2. \A g \in Handles, v \in Vars : flag'[g][v] => g # h /\ flag[g][v]
    BY <1>1 DEF TypeOK, Unflagged
<1>3. TrimmingInv'
    <2>1. CASE ClientCommit(k, h)
        BY <1>2, <2>1 DEF ClientCommit, PublicInv, TrimmingInv
    <2>2. CASE TrimCommit(k, h)
        <3>1. cell' = [cell EXCEPT ![h] = Closed] /\ trimAt' = [trimAt EXCEPT ![h] = 0]
            BY <2>2 DEF TrimCommit
        <3>2. \A g \in Handles : /\ cell'[g] = (IF g = h THEN Closed ELSE cell[g])
                                 /\ trimAt'[g] = (IF g = h THEN 0 ELSE trimAt[g])
            BY <3>1 DEF TypeOK
        <3> QED
            BY <1>2, <3>2, HandlesAssumption DEF PublicInv, TrimmingInv
    <2> QED
        BY <2>1, <2>2
<1> QED
    BY <1>1, <1>3 DEF PublicInv

LEMMA PublicTrimVariable ==
    ASSUME TypeOK, PublicInv, NEW h \in Handles, TrimVariable(h)
    PROVE  PublicInv'
<1> DEFINE v == trimAt[h]
<1>1. commit' = commit /\ v \in Vars
    BY DEF TrimVariable
<1>6. used'.commits = used.commits
    BY DEF TrimVariable, Mishap, TypeOK
<1>7. /\ cell \in [Handles -> Handles \cup {Closed}] /\ flag \in [Handles -> [Vars -> BOOLEAN]]
      /\ trimAt \in [Handles -> 0..(NumVars + 1)]
    BY DEF TypeOK
<1>2. CallInv'
    BY <1>1, <1>6 DEF PublicInv, CallInv
<1>3. TrimmingInv'
    <2>1. CASE /\ flag' = [flag EXCEPT ![h][v] = TRUE]
               /\ trimAt' = [trimAt EXCEPT ![h] = v + 1] /\ cell' = cell
        <3>1. \A g \in Handles : trimAt'[g] = IF g = h THEN v + 1 ELSE trimAt[g]
            BY <1>1, <1>7, <2>1
        <3>2. v + 1 # 0
            BY <1>1 DEF Vars
        <3>3. \A g \in Handles, u \in Vars : g # h => flag'[g][u] = flag[g][u]
            BY <1>1, <1>7, <2>1
        <3>4. trimAt'[h] # 0 /\ cell[h] = h /\ \A g \in Handles \ {h} : cell[g] # h
            <4>1. trimAt[h] # 0
                BY <1>1 DEF Vars
            <4> QED
                BY <3>1, <3>2, <4>1 DEF PublicInv, TrimmingInv
        <3> QED
            BY <2>1, <3>1, <3>3, <3>4 DEF PublicInv, TrimmingInv
    <2>2. CASE /\ cell' = [cell EXCEPT ![h] = Closed] /\ flag' = [flag EXCEPT ![h] = Unflagged]
               /\ trimAt' = [trimAt EXCEPT ![h] = 0]
        <3>1. \A g \in Handles : /\ cell'[g] = (IF g = h THEN Closed ELSE cell[g])
                                 /\ trimAt'[g] = (IF g = h THEN 0 ELSE trimAt[g])
            BY <1>1, <1>7, <2>2
        <3>2. \A g \in Handles, u \in Vars : flag'[g][u] => g # h /\ flag[g][u]
            BY <1>1, <1>7, <2>2 DEF Unflagged
        <3> QED
            BY <3>1, <3>2, HandlesAssumption DEF PublicInv, TrimmingInv
    <2> QED
        BY <2>1, <2>2 DEF TrimVariable
<1> QED
    BY <1>2, <1>3 DEF PublicInv

LEMMA DeadIdle ==
    ASSUME NEW c \in CommitState, c.st = "idle", c.group = "none", \A v \in Vars : c.pub[v] = "none"
    PROVE  Dead(c) = c
<1>1. c.pub \in [Vars -> PubState]
    BY DEF CommitState
<1>2. [v \in Vars |-> IF c.pub[v] \in {"read", "write"} THEN "lost" ELSE c.pub[v]] = c.pub
    BY <1>1
<1>3. Dead(c) = [c EXCEPT !.st = c.st, !.group = c.group, !.pub = c.pub]
    BY <1>2 DEF Dead
<1> QED
    BY <1>3 DEF CommitState

LEMMA PublicCrash ==
    ASSUME TypeOK, PublicInv, Crash
    PROVE  PublicInv'
<1>1. /\ cell' = [h \in Handles |-> Closed] /\ flag' = [h \in Handles |-> Unflagged]
      /\ trimAt' = [h \in Handles |-> 0] /\ commit' = [k \in Commits |-> Dead(commit[k])]
      /\ used'.commits = used.commits
    BY DEF Crash, Mishap, TypeOK
<1>2. TrimmingInv'
    BY <1>1 DEF TrimmingInv, Unflagged
<1>3. ASSUME NEW k \in Commits, k > used'.commits PROVE commit'[k] = IdleCommit
    <2>1. commit[k] = IdleCommit
        BY <1>1, <1>3 DEF PublicInv, CallInv
    <2>2. /\ commit[k] \in CommitState /\ commit[k].st = "idle" /\ commit[k].group = "none"
          /\ \A v \in Vars : commit[k].pub[v] = "none"
        <3>1. commit[k] \in CommitState
            BY DEF TypeOK
        <3>2. /\ IdleCommit.st = "idle" /\ IdleCommit.group = "none"
              /\ \A v \in Vars : IdleCommit.pub[v] = "none"
            BY DEF IdleCommit
        <3> QED
            BY <2>1, <3>1, <3>2
    <2>3. Dead(commit[k]) = commit[k]
        BY <2>2, DeadIdle
    <2> QED
        BY <1>1, <2>1, <2>3
<1>4. ASSUME NEW k \in Commits, NEW v \in Vars \ commit'[k].mod PROVE commit'[k].pub[v] = "none"
    <2>1. commit[k] \in CommitState
        BY DEF TypeOK
    <2>2. /\ commit'[k].mod = commit[k].mod
          /\ commit'[k].pub[v] = IF commit[k].pub[v] \in {"read", "write"} THEN "lost"
                                 ELSE commit[k].pub[v]
        BY <1>1, <2>1 DEF Dead, CommitState
    <2> QED
        BY <1>4, <2>2 DEF PublicInv, CallInv
<1> QED
    BY <1>2, <1>3, <1>4 DEF PublicInv, CallInv

LEMMA PublicStep == TypeOK /\ TypeOK' /\ PublicInv /\ [Next]_vars => PublicInv'
<1> SUFFICES ASSUME TypeOK, TypeOK', PublicInv, [Next]_vars PROVE PublicInv'
    OBVIOUS
<1>1. ASSUME NEW h \in Handles, OpenDataset(h) PROVE PublicInv'
    <2>1. Construct(h, 0) /\ (\A g \in Open : cell[g] # h) /\ commit' = commit /\ used' = used
        BY <1>1 DEF OpenDataset
    <2> QED
        BY <2>1, PublicConstruct
<1>2. ASSUME NEW h \in Handles, TrimStart(h) PROVE PublicInv'
    <2>1. /\ Construct(h, 1) /\ (\A g \in Open : cell[g] # h) /\ commit' = commit
          /\ used'.commits = used.commits
        BY <1>2 DEF TrimStart, TypeOK
    <2> QED
        BY <2>1, PublicConstruct
<1>3. ASSUME NEW h \in Handles, NEW v \in Vars, UpdateAttributes(h, v) PROVE PublicInv'
    <2>1. UNCHANGED <<cell, flag, trimAt, commit>> /\ used'.commits = used.commits
        BY <1>3 DEF UpdateAttributes, TypeOK
    <2>2. CallInv'
        BY <2>1 DEF PublicInv, CallInv
    <2> QED
        BY <2>1, <2>2, TrimmingKept DEF PublicInv
<1>4. CASE UNCHANGED vars
    BY <1>4 DEF vars, PublicInv, TrimmingInv, CallInv
<1>5. ASSUME NEW k \in Commits, GroupWrite(k) \/ Resolve(k) PROVE PublicInv'
    <2>1. 1 \in Vars
        BY NumVarsAssumption DEF Vars
    <2> QED
        BY <1>5, <2>1, PublicStore
<1>6. ASSUME NEW k \in Commits, NEW v \in Vars, PublishRead(k, v) \/ PublishWrite(k, v)
      PROVE  PublicInv'
    BY <1>6, PublicStore
<1> QED
    BY <1>1, <1>2, <1>3, <1>4, <1>5, <1>6, PublicSlice, PublicCommit, PublicTrimVariable, PublicCrash
    DEF Next, Client, Background

\* ------------------------------------------------------------------------
\* The steps

LEMMA PromiseInit == Init => Promise!Init
<1> SUFFICES ASSUME Init PROVE Promise!Init
    OBVIOUS
<1>1. /\ cell = [h \in Handles |-> Closed] /\ attrs = [h \in Handles |-> Objects(Zero)]
      /\ commit = [k \in Commits |-> IdleCommit] /\ disk.attr = Zero
    BY DEF Init
<1>2. 0 \in 0..MaxUpdates /\ Zero \in [Vars -> 0..MaxUpdates]
    BY BoundsAssumption DEF Zero
<1>3. Held \in [Handles -> [Vars -> 0..MaxUpdates]]
    BY <1>1, <1>2 DEF Held, Objects, Zero
<1>4. Dues = [h \in Handles |-> Promise!None]
    BY <1>1 DEF Dues, Due, Promise!None
<1>5. Calls = [k \in Commits |-> Promise!NotCalled]
    <2>1. /\ IdleCommit.st = "idle" /\ IdleCommit.mod = {}
          /\ \A v \in Vars : IdleCommit.pub[v] = "none"
        BY DEF IdleCommit
    <2>2. [v \in IdleCommit.mod |-> IdleCommit.snap[v]] = [v \in {} |-> 0]
        BY <2>1
    <2>3. Progress(IdleCommit) = Promise!NotCalled
        BY <2>1, <2>2 DEF Progress, Promise!NotCalled
    <2> QED
        BY <1>1, <2>3 DEF Calls
<1> QED
    BY <1>1, <1>2, <1>3, <1>4, <1>5 DEF Promise!Init, Held, Dues, Calls

LEMMA PromiseOpen ==
    ASSUME TypeOK, NEW h \in Handles, NEW trim \in 0..1, Construct(h, trim),
           \A g \in Open : cell[g] # h, UNCHANGED <<commit, disk>>
    PROVE  Promise!Open(h)
<1>1. /\ cell[h] = Closed /\ cell' = [cell EXCEPT ![h] = h]
      /\ attrs' = [attrs EXCEPT ![h] = Objects(disk.attr)]
      /\ flag' = [flag EXCEPT ![h] = Unflagged] /\ since' = [since EXCEPT ![h] = Zero]
    BY DEF Construct
<1>2. \A g \in Handles : cell[g] # h
    BY HandlesAssumption DEF Open
<1>3. Held' = [Held EXCEPT ![h] = disk.attr]
    <2>1. disk.attr = [v \in Vars |-> disk.attr[v]]
        BY DEF TypeOK
    <2>2. \A g \in Handles : attrs'[g] = IF g = h THEN Objects(disk.attr) ELSE attrs[g]
        BY <1>1 DEF TypeOK
    <2>3. \A v \in Vars : Objects(disk.attr)[v].ver = disk.attr[v]
        BY DEF Objects
    <2>4. \A g \in Handles : Held'[g] = IF g = h THEN disk.attr ELSE Held[g]
        <3> TAKE g \in Handles
        <3>1. Held'[g] = [v \in Vars |-> attrs'[g][v].ver] /\ Held[g] = [v \in Vars |-> attrs[g][v].ver]
            BY DEF Held
        <3>2. CASE g = h
            <4>1. [v \in Vars |-> attrs'[h][v].ver] = [v \in Vars |-> disk.attr[v]]
                BY <2>2, <2>3
            <4> QED
                BY <2>1, <3>1, <3>2, <4>1
        <3>3. CASE g # h
            BY <2>2, <3>1, <3>3
        <3> QED
            BY <3>2, <3>3
    <2> QED
        BY <2>4 DEF Held
<1>4. Dues' = Dues
    <2>1. ASSUME NEW g \in Handles, NEW v \in Vars PROVE Due(g, v)' = Due(g, v)
        <3>1. CASE g = h
            <4>1. ~flag'[h][v] /\ since'[h][v] = 0
                BY <1>1 DEF TypeOK, Unflagged, Zero
            <4>2. Due(h, v) = "no"
                BY <1>1 DEF Due
            <4>3. Due(h, v)' = "no"
                BY <4>1 DEF Due
            <4> QED
                BY <3>1, <4>2, <4>3
        <3>2. CASE g # h
            <4>1. cell'[g] = cell[g] /\ flag'[g] = flag[g] /\ since'[g] = since[g]
                BY <1>1, <3>2 DEF TypeOK
            <4> QED
                BY <4>1, DueSame
        <3> QED
            BY <3>1, <3>2
    <2> QED
        BY <2>1 DEF Dues
<1>5. Calls' = Calls
    BY DEF Calls
<1> QED
    BY <1>1, <1>2, <1>3, <1>4, <1>5 DEF Promise!Open, Held, Dues, Calls

LEMMA PromiseSlice ==
    ASSUME TypeOK, NEW g \in Handles, NEW h \in Handles, NEW sliced \in SUBSET Vars,
           Slice(g, h, sliced)
    PROVE  Promise!Slice(g, h, sliced)
<1>1. /\ cell[g] = Closed /\ cell[h] # Closed /\ cell' = [cell EXCEPT ![g] = cell[h]]
      /\ flag' = [flag EXCEPT ![g] = [v \in Vars |-> v \notin sliced /\ flag[h][v]]]
      /\ since' = [since EXCEPT ![g] = [v \in Vars |-> IF v \in sliced THEN 0 ELSE since[h][v]]]
      /\ UNCHANGED <<attrs, commit, disk>>
    BY DEF Slice, Open
<1>2. ASSUME NEW v \in Vars
      PROVE  Due(g, v)' = IF v \in sliced THEN "no" ELSE Due(h, v)
    <2>1. /\ cell'[g] = cell[h]
          /\ flag'[g][v] = (v \notin sliced /\ flag[h][v])
          /\ since'[g][v] = IF v \in sliced THEN 0 ELSE since[h][v]
        BY <1>1 DEF TypeOK
    <2>2. CASE v \in sliced
        <3>1. cell'[g] # Closed /\ ~flag'[g][v] /\ since'[g][v] = 0
            BY <1>1, <2>1, <2>2
        <3> QED
            BY <2>2, <3>1 DEF Due
    <2>3. CASE v \notin sliced
        <3>1. flag'[g][v] <=> flag[h][v]
            BY <2>1, <2>3
        <3> QED
            BY <2>1, <2>3, <3>1, DueSame
    <2> QED
        BY <2>2, <2>3
<1>3. ASSUME NEW f \in Handles, f # g, NEW v \in Vars PROVE Due(f, v)' = Due(f, v)
    <2>1. cell'[f] = cell[f] /\ flag'[f] = flag[f] /\ since'[f] = since[f]
        BY <1>1, <1>3 DEF TypeOK
    <2> QED
        BY <2>1, DueSame
<1>4. Dues' = [Dues EXCEPT ![g] = [v \in Vars |-> IF v \in sliced THEN "no" ELSE Dues[h][v]]]
    <2>1. \A f \in Handles : Dues'[f] = IF f = g THEN [v \in Vars |-> IF v \in sliced THEN "no" ELSE Dues[h][v]]
                                        ELSE Dues[f]
        BY <1>2, <1>3 DEF Dues
    <2> QED
        BY <2>1 DEF Dues
<1>5. Held' = Held /\ Calls' = Calls
    BY <1>1 DEF Held, Calls
<1> QED
    BY <1>1, <1>4, <1>5 DEF Promise!Slice, Held, Dues, Calls

LEMMA PromiseUpdate ==
    ASSUME TypeOK, TypeOK', PublicInv, NEW h \in Handles, NEW v \in Vars, UpdateAttributes(h, v)
    PROVE  Promise!Update(h, v)
<1>1. PICK a \in Addrs :
        attrs' = [attrs EXCEPT ![cell[h]][v] = [addr |-> a, ver |-> used.updates + 1]]
    BY DEF UpdateAttributes, FreeAddrs
<1>2. /\ cell[h] # Closed /\ trimAt[h] = 0 /\ used.updates < MaxUpdates
      /\ since' = [g \in Handles |->
                     IF cell[g] = cell[h] THEN [since[g] EXCEPT ![v] = @ + 1] ELSE since[g]]
      /\ UNCHANGED <<cell, flag, commit, disk>>
    BY DEF UpdateAttributes, Open, Trimming
<1>3. cell[h] \in Handles /\ used.updates + 1 \in 0..MaxUpdates
    BY <1>2, BoundsAssumption DEF TypeOK
<1>4. Held' = [Held EXCEPT ![cell[h]][v] = used.updates + 1]
    <2> DEFINE n == used.updates + 1
    <2>1. ASSUME NEW g \in Handles, NEW u \in Vars
          PROVE  attrs'[g][u].ver = IF g = cell[h] /\ u = v THEN n ELSE attrs[g][u].ver
        <3>1. attrs'[g][u] = IF g = cell[h] /\ u = v THEN [addr |-> a, ver |-> n] ELSE attrs[g][u]
            BY <1>1, <1>3 DEF TypeOK
        <3> QED
            BY <3>1
    <2> HIDE DEF n
    <2>2. Held' = [g \in Handles |-> [u \in Vars |-> IF g = cell[h] /\ u = v THEN n ELSE attrs[g][u].ver]]
        BY <2>1 DEF Held
    <2>3. [Held EXCEPT ![cell[h]][v] = n]
            = [g \in Handles |-> [u \in Vars |-> IF g = cell[h] /\ u = v THEN n ELSE attrs[g][u].ver]]
        BY <1>3 DEF Held
    <2> QED
        BY <2>2, <2>3 DEF n
<1>5. ASSUME NEW g \in Handles, cell[g] = cell[h]
      PROVE  Due(g, v)' = Promise!OnceMore(Due(g, v))
    <2>1. ~flag[g][v]
        <3>1. SUFFICES ASSUME flag[g][v] PROVE FALSE
            OBVIOUS
        <3>2. cell[g] = g /\ \A f \in Handles \ {g} : cell[f] # g
            BY <3>1 DEF PublicInv, TrimmingInv
        <3>3. g = h
            BY <1>5, <3>2
        <3> QED
            BY <1>2, <3>1, <3>3 DEF PublicInv, TrimmingInv
    <2>2. since[g][v] \in Nat /\ since'[g][v] = since[g][v] + 1 /\ ~flag'[g][v] /\ cell'[g] # Closed
        BY <1>2, <1>5, <2>1 DEF TypeOK
    <2>3. CASE since[g][v] = 0
        BY <1>2, <1>5, <2>1, <2>2, <2>3, DueIs, DuePrimed DEF Promise!OnceMore
    <2>4. CASE since[g][v] > 0
        <3>1. Due(g, v) # "no"
            BY <1>2, <1>5, <2>1, <2>2, <2>4, DueIs
        <3>2. Due(g, v)' = "maybe"
            BY <2>2, <2>4, DuePrimed
        <3> QED
            BY <3>1, <3>2 DEF Promise!OnceMore
    <2> QED
        BY <2>2, <2>3, <2>4
<1>6. ASSUME NEW g \in Handles, NEW u \in Vars, cell[g] # cell[h] \/ u # v
      PROVE  Due(g, u)' = Due(g, u)
    <2>1. since'[g][u] = since[g][u] /\ flag' = flag /\ cell' = cell
        BY <1>2, <1>6 DEF TypeOK
    <2> QED
        BY <2>1, DueSame
<1>7. Dues' = [g \in Handles |->
                 IF cell[g] = cell[h] THEN [Dues[g] EXCEPT ![v] = Promise!OnceMore(@)] ELSE Dues[g]]
    <2>1. ASSUME NEW g \in Handles
          PROVE  Dues'[g] = IF cell[g] = cell[h] THEN [Dues[g] EXCEPT ![v] = Promise!OnceMore(@)]
                            ELSE Dues[g]
        <3>1. Dues'[g] = [u \in Vars |-> Due(g, u)'] /\ Dues[g] = [u \in Vars |-> Due(g, u)]
            BY DEF Dues
        <3>2. CASE cell[g] = cell[h]
            <4>1. \A u \in Vars : Due(g, u)' = IF u = v THEN Promise!OnceMore(Due(g, v)) ELSE Due(g, u)
                BY <1>5, <1>6, <3>2
            <4> QED
                BY <3>1, <3>2, <4>1
        <3>3. CASE cell[g] # cell[h]
            BY <1>6, <3>1, <3>3
        <3> QED
            BY <3>2, <3>3
    <2>2. Dues' = [g \in Handles |-> Dues'[g]]
        BY DEF Dues
    <2> QED
        BY <2>1, <2>2
<1>8. Calls' = Calls
    BY <1>2 DEF Calls
<1> QED
    BY <1>2, <1>3, <1>4, <1>7, <1>8 DEF Promise!Update, Held, Dues, Calls

LEMMA PromiseBegin ==
    ASSUME TypeOK, FirstUpdateDetected, PublicInv, NEW k \in Commits, NEW h \in Handles,
           ClientCommit(k, h) \/ TrimCommit(k, h)
    PROVE  Promise!Begin(k, h)
<1> DEFINE S == Modified(h)
<1>1. h \in Open /\ CommitMetadata(k, h) /\ UNCHANGED <<attrs, disk, since>>
    BY DEF ClientCommit, TrimCommit, CommitMetadata, Trimming
<1>2. /\ commit[k] = IdleCommit /\ flag' = [flag EXCEPT ![h] = Unflagged]
      /\ Calls' = [Calls EXCEPT ![k] =
            [state  |-> IF S = {} THEN "unmodified" ELSE "running",
             takes  |-> [v \in S |-> Current(h, v).ver],
             left   |-> S, missed |-> {}]]
    BY <1>1, CallsBegin
<1>3. Calls[k].state = "idle" /\ cell[h] # Closed /\ cell[h] \in Handles
    BY <1>1, <1>2 DEF Calls, Progress, IdleCommit, Open, TypeOK
<1>4. /\ S \in SUBSET {v \in Vars : Dues[h][v] # "no"}
      /\ {v \in Vars : Dues[h][v] = "yes"} \subseteq S
    <2>1. ASSUME NEW v \in Vars PROVE /\ v \in S => Due(h, v) # "no"
                                      /\ Due(h, v) = "yes" => v \in S
        <3>1. since[h][v] = 0 => ~WasUpdated(h, v)
            BY <1>1 DEF FirstUpdateDetected
        <3>2. since[h][v] = 1 => WasUpdated(h, v)
            BY <1>1 DEF FirstUpdateDetected
        <3>3. v \in S <=> WasUpdated(h, v) \/ flag[h][v]
            BY DEF Modified
        <3>4. since[h][v] \in Nat
            BY DEF TypeOK
        <3>5. v \in S => Due(h, v) # "no"
            BY <1>3, <3>1, <3>3, <3>4, DueIs
        <3>6. ~flag[h][v] /\ since[h][v] # 1 => Due(h, v) # "yes"
            BY <1>3 DEF Due
        <3> QED
            BY <3>2, <3>3, <3>5, <3>6
    <2>2. S \subseteq Vars /\ \A v \in Vars : Dues[h][v] = Due(h, v)
        BY DEF Modified, Dues
    <2> HIDE DEF S
    <2> QED
        BY <2>1, <2>2
<1>5. Calls' = [Calls EXCEPT ![k] =
            [state  |-> IF S = {} THEN "unmodified" ELSE "running",
             takes  |-> [v \in S |-> Held[cell[h]][v]],
             left   |-> S, missed |-> {}]]
    <2>1. \A v \in S : Current(h, v).ver = Held[cell[h]][v]
        BY <1>3 DEF Modified, Current, Held
    <2> HIDE DEF S
    <2>2. [v \in S |-> Current(h, v).ver] = [v \in S |-> Held[cell[h]][v]]
        BY <2>1
    <2> QED
        BY <1>2, <2>2
<1>6. Held' = Held
    BY <1>1 DEF Held
<1>7. ASSUME NEW g \in Handles, g # h, cell'[g] = cell[g], NEW v \in Vars
      PROVE  Due(g, v)' = Due(g, v)
    <2>1. flag'[g] = flag[g]
        BY <1>2, <1>7 DEF TypeOK
    <2> QED
        BY <1>1, <1>7, <2>1, DueSame
<1>8. CASE ClientCommit(k, h)
    <2>1. cell' = cell /\ trimAt[h] = 0
        BY <1>8 DEF ClientCommit, Open, Trimming
    <2>2. ASSUME NEW g \in Handles, NEW v \in Vars PROVE Due(g, v)' = Due(g, v)
        <3>1. CASE g = h
            <4>1. ~flag[h][v]
                BY <2>1 DEF PublicInv, TrimmingInv
            <4>2. ~flag'[h][v]
                BY <1>2 DEF TypeOK, Unflagged
            <4> QED
                BY <1>1, <2>1, <3>1, <4>1, <4>2, DueSame
        <3> QED
            BY <1>7, <2>1, <3>1
    <2>3. Dues' = Dues
        BY <2>2 DEF Dues
    <2> HIDE DEF S
    <2>4. \E T \in SUBSET {v \in Vars : Dues[h][v] # "no"} :
            /\ {v \in Vars : Dues[h][v] = "yes"} \subseteq T
            /\ Calls' = [Calls EXCEPT ![k] =
                  [state |-> IF T = {} THEN "unmodified" ELSE "running",
                   takes |-> [v \in T |-> Held[cell[h]][v]], left |-> T, missed |-> {}]]
        BY <1>4, <1>5
    <2> QED
        BY <1>1, <1>3, <1>6, <2>1, <2>3, <2>4 DEF Promise!Begin, Held, Dues, Calls
<1>9. CASE TrimCommit(k, h)
    <2>1. cell' = [cell EXCEPT ![h] = Closed]
        BY <1>9 DEF TrimCommit
    <2>2. ASSUME NEW g \in Handles, NEW v \in Vars
          PROVE  Due(g, v)' = IF g = h THEN "no" ELSE Due(g, v)
        <3>1. cell'[g] = IF g = h THEN Closed ELSE cell[g]
            BY <2>1 DEF TypeOK
        <3>2. CASE g = h
            BY <3>1, <3>2 DEF Due
        <3> QED
            BY <1>7, <3>1, <3>2
    <2>3. Dues' = [Dues EXCEPT ![h] = Promise!None]
        <3>1. \A g \in Handles : Dues'[g] = IF g = h THEN Promise!None ELSE Dues[g]
            BY <2>2 DEF Dues, Promise!None
        <3> QED
            BY <3>1 DEF Dues
    <2> HIDE DEF S
    <2>4. \E T \in SUBSET {v \in Vars : Dues[h][v] # "no"} :
            /\ {v \in Vars : Dues[h][v] = "yes"} \subseteq T
            /\ Calls' = [Calls EXCEPT ![k] =
                  [state |-> IF T = {} THEN "unmodified" ELSE "running",
                   takes |-> [v \in T |-> Held[cell[h]][v]], left |-> T, missed |-> {}]]
        BY <1>4, <1>5
    <2> QED
        BY <1>1, <1>3, <1>6, <2>1, <2>3, <2>4 DEF Promise!Begin, Promise!Forget, Held, Dues, Calls
<1> QED
    BY <1>8, <1>9

\* Two fields of a call's record replaced.
EndOne(r, left, missed) == [r EXCEPT !.left = left, !.missed = missed]
EndAll(r, state, left)  == [r EXCEPT !.state = state, !.left = left]

LEMMA RecordIs ==
    ASSUME NEW s, NEW t, NEW l, NEW m,
           NEW r \in [state : {s}, takes : {t}, left : {l}, missed : {m}]
    PROVE  r = [state |-> s, takes |-> t, left |-> l, missed |-> m]
OBVIOUS

LEMMA ReplaceMissed ==
    ASSUME NEW s, NEW t, NEW l, NEW m, NEW x, NEW y, NEW r,
           r = [state |-> s, takes |-> t, left |-> l, missed |-> m]
    PROVE  EndOne(r, x, y) = [state |-> s, takes |-> t, left |-> x, missed |-> y]
<1> DEFINE p == [r EXCEPT !.left = x, !.missed = y]
<1>1. r \in [state : {s}, takes : {t}, left : {l}, missed : {m}]
    OBVIOUS
<1>2. p \in [state : {s}, takes : {t}, left : {x}, missed : {y}]
    BY <1>1
<1> HIDE DEF p
<1>3. p = [state |-> s, takes |-> t, left |-> x, missed |-> y]
    BY <1>2, RecordIs
<1> QED
    BY <1>3 DEF p, EndOne

LEMMA ReplaceState ==
    ASSUME NEW s, NEW t, NEW l, NEW m, NEW x, NEW y, NEW r,
           r = [state |-> s, takes |-> t, left |-> l, missed |-> m]
    PROVE  EndAll(r, x, y) = [state |-> x, takes |-> t, left |-> y, missed |-> m]
<1> DEFINE p == [r EXCEPT !.state = x, !.left = y]
<1>1. r \in [state : {s}, takes : {t}, left : {l}, missed : {m}]
    OBVIOUS
<1>2. p \in [state : {x}, takes : {t}, left : {y}, missed : {m}]
    BY <1>1
<1> HIDE DEF p
<1>3. p = [state |-> x, takes |-> t, left |-> y, missed |-> m]
    BY <1>2, RecordIs
<1> QED
    BY <1>3 DEF p, EndAll

\* What a step of one publication makes of its commit.
LEMMA ProgressOne ==
    ASSUME NEW c \in CommitState, NEW d \in CommitState, NEW v \in Vars,
           d.st = c.st, d.res = c.res, d.mod = c.mod, d.snap = c.snap,
           \A u \in Vars \ {v} : d.pub[u] = c.pub[u]
    PROVE  /\ d.pub[v] \in {"read", "write"} /\ c.pub[v] \in {"read", "write"}
                => Progress(d) = Progress(c)
           /\ d.pub[v] = "ok" /\ c.pub[v] \in {"read", "write"}
                => Progress(d) = [Progress(c) EXCEPT !.left = @ \ {v}]
           /\ d.pub[v] = "failed" /\ c.pub[v] \in {"read", "write"}
                => Progress(d) = [Progress(c) EXCEPT !.left = @ \ {v}, !.missed = @ \cup {v}]
<1> DEFINE Left(e) == {u \in Vars : e.pub[u] \in {"read", "write"}}
           Missed(e) == {u \in Vars : e.pub[u] = "failed"}
           takes == [u \in c.mod |-> c.snap[u]]
           state == IF c.st = "done" THEN c.res ELSE c.st
<1>1. takes = [u \in d.mod |-> d.snap[u]]
    OBVIOUS
<1>2. /\ Progress(c) = [state |-> state, takes |-> takes, left |-> Left(c), missed |-> Missed(c)]
      /\ Progress(d) = [state |-> state, takes |-> takes, left |-> Left(d), missed |-> Missed(d)]
    BY <1>1 DEF Progress
<1>3. ASSUME c.pub[v] \in {"read", "write"}, d.pub[v] \in {"read", "write"}
      PROVE  Left(d) = Left(c) /\ Missed(d) = Missed(c)
    BY <1>3
<1>4. ASSUME c.pub[v] \in {"read", "write"}, d.pub[v] = "ok"
      PROVE  Left(d) = Left(c) \ {v} /\ Missed(d) = Missed(c)
    BY <1>4
<1>5. ASSUME c.pub[v] \in {"read", "write"}, d.pub[v] = "failed"
      PROVE  Left(d) = Left(c) \ {v} /\ Missed(d) = Missed(c) \cup {v}
    BY <1>5
<1> HIDE DEF Left, Missed, takes, state
<1>6. ASSUME c.pub[v] \in {"read", "write"}, d.pub[v] \in {"read", "write"}
      PROVE  Progress(d) = Progress(c)
    BY <1>2, <1>3, <1>6
<1>7. ASSUME c.pub[v] \in {"read", "write"}, d.pub[v] = "ok"
      PROVE  Progress(d) = [Progress(c) EXCEPT !.left = @ \ {v}]
    BY <1>2, <1>4, <1>7
<1>8. ASSUME c.pub[v] \in {"read", "write"}, d.pub[v] = "failed"
      PROVE  Progress(d) = [Progress(c) EXCEPT !.left = @ \ {v}, !.missed = @ \cup {v}]
    <2> DEFINE left == Left(c) \ {v}
               missed == Missed(c) \cup {v}
    <2>1. Progress(d) = [state |-> state, takes |-> takes, left |-> left, missed |-> missed]
        BY <1>2, <1>5, <1>8
    <2>2. Progress(c).left \ {v} = left /\ Progress(c).missed \cup {v} = missed
        BY <1>2
    <2> HIDE DEF left, missed
    <2>3. EndOne(Progress(c), left, missed)
            = [state |-> state, takes |-> takes, left |-> left, missed |-> missed]
        BY <1>2, ReplaceMissed
    <2> QED
        BY <2>1, <2>2, <2>3 DEF EndOne
<1> QED
    BY <1>6, <1>7, <1>8

\* The memory is as it was.
LEMMA MemoryKept ==
    ASSUME UNCHANGED <<cell, attrs, flag, since>>
    PROVE  Held' = Held /\ Dues' = Dues
BY DEF Held, Dues, Due

\* A publication that was started ends with or without its effect.
LEMMA PromisePublish ==
    ASSUME TypeOK, TypeOK', PublicInv, NEW k \in Commits, NEW v \in Vars,
           PublishRead(k, v) \/ PublishWrite(k, v)
    PROVE  Promise!Publish(k, v) \/ (UNCHANGED <<cell, disk>> /\ Held' = Held /\ Dues' = Dues /\ Calls' = Calls)
<1> DEFINE c == commit[k]
           d == commit'[k]
           new == [disk.attr EXCEPT ![v] = c.snap[v]]
<1>1. /\ c \in CommitState /\ d \in CommitState /\ c.pub[v] \in {"read", "write"}
      /\ commit \in [Commits -> CommitState] /\ c.pub \in [Vars -> PubState]
    BY DEF TypeOK, PublishRead, PublishWrite, CommitState
<1>2. Held' = Held /\ Dues' = Dues /\ cell' = cell
    BY MemoryKept DEF PublishRead, PublishWrite, memory
<1>3. /\ \/ \E p \in {"ok", "failed"} : commit' = [commit EXCEPT ![k].pub[v] = p]
         \/ commit' = [commit EXCEPT ![k].pub[v] = "write", ![k].seen[v] = disk.shape[v]]
            /\ disk' = disk
      /\ \/ disk' = disk
         \/ disk' = Published(k, v)
      /\ commit' = [commit EXCEPT ![k].pub[v] = "ok"] => disk' = Published(k, v)
    <2>1. CASE PublishRead(k, v)
        <3>1. \A n : [commit EXCEPT ![k].pub[v] = "write", ![k].seen[v] = n] # [commit EXCEPT ![k].pub[v] = "ok"]
            <4> TAKE n
            <4>1. /\ [commit EXCEPT ![k].pub[v] = "write", ![k].seen[v] = n][k].pub[v] = "write"
                  /\ [commit EXCEPT ![k].pub[v] = "ok"][k].pub[v] = "ok"
                BY <1>1 DEF CommitState
            <4> QED
                BY <4>1
        <3>2. [commit EXCEPT ![k].pub[v] = "failed"] # [commit EXCEPT ![k].pub[v] = "ok"]
            <4>1. /\ [commit EXCEPT ![k].pub[v] = "failed"][k].pub[v] = "failed"
                  /\ [commit EXCEPT ![k].pub[v] = "ok"][k].pub[v] = "ok"
                BY <1>1 DEF CommitState
            <4> QED
                BY <4>1
        <3> QED
            BY <2>1, <3>1, <3>2 DEF PublishRead
    <2>2. CASE PublishWrite(k, v)
        <3>1. [commit EXCEPT ![k].pub[v] = "failed"] # [commit EXCEPT ![k].pub[v] = "ok"]
            <4>1. /\ [commit EXCEPT ![k].pub[v] = "failed"][k].pub[v] = "failed"
                  /\ [commit EXCEPT ![k].pub[v] = "ok"][k].pub[v] = "ok"
                BY <1>1 DEF CommitState
            <4> QED
                BY <4>1
        <3> QED
            BY <2>2, <3>1 DEF PublishWrite
    <2> QED
        BY <2>1, <2>2
<1>4. /\ d.st = c.st /\ d.res = c.res /\ d.mod = c.mod /\ d.snap = c.snap
      /\ \A u \in Vars \ {v} : d.pub[u] = c.pub[u]
      /\ \A l \in Commits \ {k} : commit'[l] = commit[l]
    BY <1>1, <1>3 DEF CommitState
<1>5. v \in c.mod /\ Calls[k].takes[v] = c.snap[v] /\ v \in Calls[k].left
    <2>1. v \in c.mod
        BY <1>1 DEF PublicInv, CallInv
    <2> QED
        BY <1>1, <2>1 DEF Calls, Progress
<1>6. Published(k, v).attr = new
    BY DEF Published, TypeOK
<1>7. Calls' = [Calls EXCEPT ![k] = Progress(d)] /\ Calls[k] = Progress(c)
    BY <1>4 DEF Calls
<1>8. CASE d.pub[v] \in {"read", "write"}
    <2>1. Progress(d) = Progress(c)
        BY <1>1, <1>4, <1>8, ProgressOne
    <2>2. Calls' = Calls
        BY <1>7, <2>1 DEF Calls
    <2>3. disk' = disk
        <3>1. ~\E p \in {"ok", "failed"} : commit' = [commit EXCEPT ![k].pub[v] = p]
            BY <1>1, <1>8 DEF CommitState
        <3> QED
            BY <1>3, <3>1
    <2> QED
        BY <1>2, <2>2, <2>3
<1>9. CASE d.pub[v] = "ok"
    <2>1. Progress(d) = [Progress(c) EXCEPT !.left = @ \ {v}]
        BY <1>1, <1>4, <1>9, ProgressOne
    <2>2. Calls' = [Calls EXCEPT ![k].left = @ \ {v}]
        BY <1>7, <2>1
    <2>3. commit' = [commit EXCEPT ![k].pub[v] = "ok"]
        BY <1>1, <1>3, <1>9 DEF CommitState
    <2>4. disk'.attr = [disk.attr EXCEPT ![v] = Calls[k].takes[v]]
        BY <1>3, <1>5, <1>6, <2>3
    <2> QED
        BY <1>2, <1>5, <2>2, <2>4 DEF Promise!Publish, Held, Dues, Calls
<1>10. CASE d.pub[v] = "failed"
    <2>1. Progress(d) = [Progress(c) EXCEPT !.left = @ \ {v}, !.missed = @ \cup {v}]
        BY <1>1, <1>4, <1>10, ProgressOne
    <2>2. Calls' = [Calls EXCEPT ![k].left = @ \ {v}, ![k].missed = @ \cup {v}]
        BY <1>7, <2>1
    <2>3. disk'.attr \in {disk.attr, [disk.attr EXCEPT ![v] = Calls[k].takes[v]]}
        BY <1>3, <1>5, <1>6
    <2> QED
        BY <1>2, <1>5, <2>2, <2>3 DEF Promise!Publish, Held, Dues, Calls
<1>11. d.pub[v] \in {"read", "write", "ok", "failed"}
    BY <1>1, <1>3 DEF CommitState
<1> QED
    BY <1>8, <1>9, <1>10, <1>11

\* The continuation reports success when nothing that was taken has failed.
LEMMA PromiseEnd ==
    ASSUME TypeOK, PublicInv, NEW k \in Commits, Resolve(k)
    PROVE  Promise!End(k)
<1> DEFINE c == commit[k]
           d == commit'[k]
<1>1. /\ c \in CommitState /\ c.st = "running" /\ c.pub \in [Vars -> PubState]
      /\ c.mod \subseteq Vars /\ disk' = disk /\ UNCHANGED <<cell, attrs, flag, since>>
    BY DEF TypeOK, Resolve, CommitState, memory
<1>2. \A v \in Vars \ c.mod : c.pub[v] = "none"
    BY DEF PublicInv, CallInv
<1>3. Calls[k] = Progress(c) /\ Progress(c).state = "running"
    BY <1>1 DEF Calls, Progress
<1>4. \E r \in {"ok", "error"} :
        /\ commit' = [commit EXCEPT ![k].st = "done", ![k].res = r]
        /\ r = "ok" => \A v \in c.mod : c.pub[v] = "ok"
        /\ r = "error" => \E v \in c.mod : c.pub[v] = "failed"
    BY DEF Resolve
<1>5. PICK r \in {"ok", "error"} :
        /\ commit' = [commit EXCEPT ![k].st = "done", ![k].res = r]
        /\ r = "ok" => \A v \in c.mod : c.pub[v] = "ok"
        /\ r = "error" => \E v \in c.mod : c.pub[v] = "failed"
    BY <1>4
<1>6. /\ d.st = "done" /\ d.res = r /\ d.mod = c.mod /\ d.snap = c.snap /\ d.pub = c.pub
      /\ \A l \in Commits \ {k} : commit'[l] = commit[l]
    BY <1>1, <1>5 DEF TypeOK, CommitState
<1>7. Progress(d) = [Progress(c) EXCEPT !.state = r]
    <2> DEFINE takes == [v \in c.mod |-> c.snap[v]]
               left == {v \in Vars : c.pub[v] \in {"read", "write"}}
               missed == {v \in Vars : c.pub[v] = "failed"}
    <2>1. Progress(c) = [state |-> "running", takes |-> takes, left |-> left, missed |-> missed]
        BY <1>1 DEF Progress
    <2>2. Progress(d) = [state |-> r, takes |-> takes, left |-> left, missed |-> missed]
        BY <1>6 DEF Progress
    <2> HIDE DEF takes, left, missed
    <2> QED
        BY <2>1, <2>2
<1>8. Calls' = [Calls EXCEPT ![k].state = r]
    <2>1. \A l \in Commits : Calls'[l] = IF l = k THEN Progress(d) ELSE Calls[l]
        BY <1>6 DEF Calls
    <2>2. Calls' = [Calls EXCEPT ![k] = Progress(d)]
        BY <2>1 DEF Calls
    <2> QED
        BY <1>3, <1>7, <2>2
<1>9. \/ r = "ok" /\ Calls[k].left = {} /\ Calls[k].missed = {}
      \/ r = "error" /\ Calls[k].missed # {}
    <2>1. CASE r = "ok"
        <3>1. \A v \in Vars : c.pub[v] \notin {"read", "write", "failed"}
            BY <1>2, <1>5, <2>1
        <3> QED
            BY <1>3, <2>1, <3>1 DEF Progress
    <2>2. CASE r = "error"
        <3>1. \E v \in Vars : c.pub[v] = "failed"
            BY <1>1, <1>5, <2>2
        <3> QED
            BY <1>3, <2>2, <3>1 DEF Progress
    <2> QED
        BY <2>1, <2>2
<1>10. Held' = Held /\ Dues' = Dues
    BY <1>1, MemoryKept
<1> QED
    BY <1>1, <1>3, <1>8, <1>9, <1>10 DEF Promise!End, Held, Dues, Calls

\* The dataset-wide write is not seen.
LEMMA PromiseGroup ==
    ASSUME TypeOK, NEW k \in Commits, GroupWrite(k)
    PROVE  cell' = cell /\ disk'.attr = disk.attr /\ Held' = Held /\ Dues' = Dues /\ Calls' = Calls
<1>1. /\ \E g \in {"ok", "failed"} : commit' = [commit EXCEPT ![k].group = g]
      /\ disk' = disk \/ disk' = [disk EXCEPT !.meta = commit[k].snap]
      /\ UNCHANGED <<cell, attrs, flag, since>>
    BY DEF GroupWrite, memory
<1>2. ASSUME NEW l \in Commits PROVE Progress(commit'[l]) = Progress(commit[l])
    <2>1. /\ commit'[l].st = commit[l].st /\ commit'[l].res = commit[l].res
          /\ commit'[l].mod = commit[l].mod /\ commit'[l].snap = commit[l].snap
          /\ commit'[l].pub = commit[l].pub
        BY <1>1 DEF TypeOK, CommitState
    <2> QED
        BY <2>1 DEF Progress
<1>3. disk'.attr = disk.attr
    BY <1>1 DEF TypeOK
<1>4. Calls' = Calls
    BY <1>2 DEF Calls
<1> QED
    BY <1>1, <1>3, <1>4, MemoryKept

\* TrimDataset has the variable published, or gives up.
LEMMA PromiseTrim ==
    ASSUME TypeOK, NEW h \in Handles, TrimVariable(h)
    PROVE  Promise!Force(h, trimAt[h]) \/ Promise!Close(h)
<1> DEFINE v == trimAt[h]
<1>1. /\ v \in Vars /\ cell[h] # Closed /\ UNCHANGED <<attrs, commit, since>>
      /\ flag \in [Handles -> [Vars -> BOOLEAN]] /\ cell \in [Handles -> Handles \cup {Closed}]
    BY DEF TrimVariable, Trimming, Open, TypeOK
<1>2. Held' = Held /\ Calls' = Calls
    BY <1>1 DEF Held, Calls
<1>3. disk'.attr = disk.attr
    BY DEF TrimVariable, TypeOK
<1>4. CASE flag' = [flag EXCEPT ![h][v] = TRUE] /\ cell' = cell
    <2>1. ASSUME NEW g \in Handles, NEW u \in Vars
          PROVE  Due(g, u)' = IF g = h /\ u = v THEN "yes" ELSE Due(g, u)
        <3>1. CASE g = h /\ u = v
            <4>1. flag'[g][u] /\ cell'[g] # Closed
                BY <1>1, <1>4, <3>1
            <4> QED
                BY <3>1, <4>1 DEF Due
        <3>2. CASE ~(g = h /\ u = v)
            <4>1. flag'[g][u] = flag[g][u]
                BY <1>1, <1>4, <3>2
            <4> QED
                BY <1>1, <1>4, <3>2, <4>1, DueSame
        <3> QED
            BY <3>1, <3>2
    <2>2. Dues' = [g \in Handles |-> [u \in Vars |-> IF g = h /\ u = v THEN "yes" ELSE Due(g, u)]]
        BY <2>1 DEF Dues
    <2>3. [Dues EXCEPT ![h][v] = "yes"]
            = [g \in Handles |-> [u \in Vars |-> IF g = h /\ u = v THEN "yes" ELSE Due(g, u)]]
        BY DEF Dues
    <2>4. Dues' = [Dues EXCEPT ![h][v] = "yes"]
        BY <2>2, <2>3
    <2> QED
        BY <1>1, <1>2, <1>3, <1>4, <2>4 DEF Promise!Force, Held, Dues, Calls
<1>5. CASE cell' = [cell EXCEPT ![h] = Closed] /\ flag' = [flag EXCEPT ![h] = Unflagged]
    <2>1. ASSUME NEW g \in Handles, NEW u \in Vars
          PROVE  Due(g, u)' = IF g = h THEN "no" ELSE Due(g, u)
        <3>1. CASE g = h
            BY <1>1, <1>5, <3>1 DEF Due
        <3>2. CASE g # h
            <4>1. flag'[g] = flag[g] /\ cell'[g] = cell[g]
                BY <1>1, <1>5, <3>2
            <4> QED
                BY <1>1, <3>2, <4>1, DueSame
        <3> QED
            BY <3>1, <3>2
    <2>2. \A g \in Handles : Dues'[g] = IF g = h THEN Promise!None ELSE Dues[g]
        BY <2>1 DEF Dues, Promise!None
    <2>3. Dues' = [Dues EXCEPT ![h] = Promise!None]
        BY <2>2 DEF Dues
    <2> QED
        BY <1>2, <1>3, <1>5, <2>3 DEF Promise!Close, Promise!Forget, Held, Dues, Calls
<1> QED
    BY <1>4, <1>5 DEF TrimVariable

LEMMA ProgressDead ==
    ASSUME NEW c \in CommitState
    PROVE  Progress(Dead(c)) =
             [Progress(c) EXCEPT !.state = IF @ = "running" THEN "dead" ELSE @, !.left = {}]
<1> DEFINE d == Dead(c)
           takes == [v \in c.mod |-> c.snap[v]]
           left == {v \in Vars : c.pub[v] \in {"read", "write"}}
           missed == {v \in Vars : c.pub[v] = "failed"}
           state == IF c.st = "done" THEN c.res ELSE c.st
<1>1. /\ d.st = (IF c.st = "running" THEN "dead" ELSE c.st) /\ d.res = c.res
      /\ d.mod = c.mod /\ d.snap = c.snap
      /\ d.pub = [v \in Vars |-> IF c.pub[v] \in {"read", "write"} THEN "lost" ELSE c.pub[v]]
    BY DEF Dead, CommitState
<1>2. Progress(c) = [state |-> state, takes |-> takes, left |-> left, missed |-> missed]
    BY DEF Progress
<1>3. {v \in Vars : d.pub[v] \in {"read", "write"}} = {}
    BY <1>1
<1>4. {v \in Vars : d.pub[v] = "failed"} = missed
    BY <1>1
<1>5. (IF d.st = "done" THEN d.res ELSE d.st) = IF state = "running" THEN "dead" ELSE state
    BY <1>1 DEF CommitState
<1>6. [v \in d.mod |-> d.snap[v]] = takes
    BY <1>1
<1>7. Progress(d) = [state |-> IF state = "running" THEN "dead" ELSE state, takes |-> takes,
                     left |-> {}, missed |-> missed]
    BY <1>3, <1>4, <1>5, <1>6 DEF Progress
<1> HIDE DEF d, takes, left, missed, state
<1>8. Progress(d) = [Progress(c) EXCEPT !.state = IF @ = "running" THEN "dead" ELSE @, !.left = {}]
    <2> DEFINE over == IF state = "running" THEN "dead" ELSE state
    <2>1. (IF Progress(c).state = "running" THEN "dead" ELSE Progress(c).state) = over
        BY <1>2
    <2>2. Progress(d) = [state |-> over, takes |-> takes, left |-> {}, missed |-> missed]
        BY <1>7
    <2> HIDE DEF over
    <2>3. EndAll(Progress(c), over, {})
            = [state |-> over, takes |-> takes, left |-> {}, missed |-> missed]
        BY <1>2, ReplaceState
    <2> QED
        BY <2>1, <2>2, <2>3 DEF EndAll
<1> QED
    BY <1>8 DEF d

LEMMA PromiseDie ==
    ASSUME TypeOK, Crash
    PROVE  Promise!Die
<1>1. /\ cell' = [h \in Handles |-> Closed] /\ attrs' = [h \in Handles |-> Objects(Zero)]
      /\ commit' = [k \in Commits |-> Dead(commit[k])] /\ disk' = disk
    BY DEF Crash
<1>2. Held' \in [Handles -> [Vars -> 0..MaxUpdates]]
    <2>1. \A h \in Handles, v \in Vars : attrs'[h][v].ver = 0
        BY <1>1 DEF Objects, Zero
    <2> QED
        BY <2>1, BoundsAssumption DEF Held
<1>3. Dues' = [h \in Handles |-> Promise!None]
    BY <1>1 DEF Dues, Due, Promise!None
<1>4. Calls' = [k \in Commits |->
                  [Calls[k] EXCEPT !.state = IF @ = "running" THEN "dead" ELSE @, !.left = {}]]
    <2>1. ASSUME NEW k \in Commits
          PROVE  Progress(commit'[k]) =
                   [Progress(commit[k]) EXCEPT !.state = IF @ = "running" THEN "dead" ELSE @,
                                               !.left = {}]
        BY <1>1, ProgressDead DEF TypeOK
    <2> QED
        BY <2>1 DEF Calls
<1> QED
    BY <1>1, <1>2, <1>3, <1>4 DEF Promise!Die, Held, Dues, Calls

\* A step that leaves alone what Publication sees.
LEMMA PromiseStutter ==
    ASSUME cell' = cell, disk'.attr = disk.attr, Held' = Held, Dues' = Dues, Calls' = Calls
    PROVE  UNCHANGED Promise!vars
BY DEF Promise!vars, Held, Dues, Calls

LEMMA PromiseNext ==
    TypeOK /\ TypeOK' /\ FirstUpdateDetected /\ PublicInv /\ [Next]_vars
        => [Promise!Next]_(Promise!vars)
<1> SUFFICES ASSUME TypeOK, TypeOK', FirstUpdateDetected, PublicInv, [Next]_vars
             PROVE  Promise!Next \/ UNCHANGED Promise!vars
    OBVIOUS
<1>1. ASSUME NEW h \in Handles, OpenDataset(h) \/ TrimStart(h) PROVE Promise!Next
    <2>1. PICK trim \in 0..1 : Construct(h, trim)
        BY <1>1 DEF OpenDataset, TrimStart
    <2>2. (\A g \in Open : cell[g] # h) /\ UNCHANGED <<commit, disk>>
        BY <1>1 DEF OpenDataset, TrimStart
    <2>3. Promise!Open(h)
        BY <2>1, <2>2, PromiseOpen
    <2> QED
        BY <2>3 DEF Promise!Next
<1>2. ASSUME NEW g \in Handles, NEW h \in Handles, NEW sliced \in SUBSET Vars, Slice(g, h, sliced)
      PROVE  Promise!Next
    BY <1>2, PromiseSlice DEF Promise!Next
<1>3. ASSUME NEW h \in Handles, NEW v \in Vars, UpdateAttributes(h, v) PROVE Promise!Next
    BY <1>3, PromiseUpdate DEF Promise!Next
<1>4. ASSUME NEW k \in Commits, NEW h \in Handles, ClientCommit(k, h) \/ TrimCommit(k, h)
      PROVE  Promise!Next
    BY <1>4, PromiseBegin DEF Promise!Next
<1>5. ASSUME NEW h \in Handles, TrimVariable(h) PROVE Promise!Next
    <2>1. trimAt[h] \in Vars
        BY <1>5 DEF TrimVariable
    <2>2. Promise!Force(h, trimAt[h]) \/ Promise!Close(h)
        BY <1>5, PromiseTrim
    <2> QED
        BY <2>1, <2>2 DEF Promise!Next
<1>6. ASSUME NEW k \in Commits, NEW v \in Vars, PublishRead(k, v) \/ PublishWrite(k, v)
      PROVE  Promise!Next \/ UNCHANGED Promise!vars
    <2>1. CASE Promise!Publish(k, v)
        BY <2>1 DEF Promise!Next
    <2>2. CASE UNCHANGED <<cell, disk>> /\ Held' = Held /\ Dues' = Dues /\ Calls' = Calls
        BY <2>2, PromiseStutter
    <2> QED
        BY <1>6, <2>1, <2>2, PromisePublish
<1>7. ASSUME NEW k \in Commits, Resolve(k) PROVE Promise!Next
    BY <1>7, PromiseEnd DEF Promise!Next
<1>8. ASSUME NEW k \in Commits, GroupWrite(k) PROVE UNCHANGED Promise!vars
    BY <1>8, PromiseGroup, PromiseStutter
<1>9. CASE Crash
    BY <1>9, PromiseDie DEF Promise!Next
<1>10. CASE UNCHANGED vars
    <2>1. UNCHANGED <<cell, attrs, flag, since, commit, disk>>
        BY <1>10 DEF vars
    <2>2. Held' = Held /\ Dues' = Dues /\ Calls' = Calls
        BY <2>1, MemoryKept DEF Calls
    <2> QED
        BY <2>1, <2>2, PromiseStutter
<1> QED
    BY <1>1, <1>2, <1>3, <1>4, <1>5, <1>6, <1>7, <1>8, <1>9, <1>10 DEF Next, Client, Background

\* A flagged variable belongs to a trim, whose cells nobody shares; what is
\* published was modified when its commit was called.
THEOREM PublicInvariant == Spec => []PublicInv
<1>1. TypeOK /\ TypeOK' /\ PublicInv /\ [Next]_vars => PublicInv'
    BY PublicStep
<1> QED
    BY <1>1, PublicInit, TypeCorrect, PTL DEF Spec

\* PublicationKept (CommitMetadata, PublishMetadata, UpdateAttributes, isel,
\* TrimDataset): each variable is published at one moment or not at all, as it
\* was when the commit was called, for any clients, formats and failures.
THEOREM ImplementsPublication == Spec => PublicationKept
<1>1. TypeOK /\ TypeOK' /\ FirstUpdateDetected /\ PublicInv /\ [Next]_vars
        => [Promise!Next]_(Promise!vars)
    BY PromiseNext
<1> QED
    BY <1>1, PromiseInit, TypeCorrect, FirstUpdateCorrect, PublicInvariant, PTL
    DEF Spec, PublicationKept, Promise!Spec
=============================================================================
