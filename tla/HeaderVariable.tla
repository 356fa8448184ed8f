--------------------------- MODULE HeaderVariable ---------------------------
(***************************************************************************)
(* A variable that is metadata and no array (header_variable.h): read when *)
(* its dataset is opened, committed with it, never created by this code.   *)
(*                                                                         *)
(* Its attributes on the store are [arrayDims, plainDims, longName, user]: *)
(* the keys _ARRAY_DIMENSIONS, dimension_names and long_name, or Absent,   *)
(* and the set of all others as <<key, value>>. A V3 array may name its    *)
(* dimensions outside its attributes as well (root).                       *)
(***************************************************************************)
EXTENDS CreationJson

CONSTANT HeaderName

-----------------------------------------------------------------------------
(* HeaderVariable::FromSpec *)

FirstPresent(a, b, c) == IF a # Absent THEN a ELSE IF b # Absent THEN b ELSE c

ExtractDimensionLabels(root, attrs) == FirstPresent(root, attrs.arrayDims, attrs.plainDims)

\* original: zattrs_, or the attributes of array_metadata_, of the opening.
FromSpec(root, attrs) ==
    [labels   |-> ExtractDimensionLabels(root, attrs),
     dims     |-> FirstPresent(attrs.arrayDims, root, attrs.plainDims),
     longName |-> Or(attrs.longName, HeaderName),
     user     |-> attrs.user,
     original |-> attrs]

-----------------------------------------------------------------------------
(* What a commit writes *)

\* (mutant: only the user's attributes are published)
BuildPublishAttrsUserOnly(h) ==
    [arrayDims |-> Absent, plainDims |-> Absent, longName |-> Absent, user |-> h.user]

\* The user's attributes, and the dimensions if they were under _ARRAY_DIMENSIONS.
\* long_name and dimension_names were taken out of both.
BuildPublishAttrs(h) ==
    [arrayDims |-> h.original.arrayDims, plainDims |-> Absent, longName |-> Absent,
     user |-> h.user]

ToCommitJson(h) ==
    [BuildPublishAttrs(h) EXCEPT !.longName = h.longName, !.plainDims = h.dims]

\* v3::PrepareVariableAttributes on what WriteMetadata writes.
PrepareHeaderAttributes(attrs) ==
    [attrs EXCEPT !.arrayDims = Or(attrs.plainDims, @), !.plainDims = Absent,
                  !.longName = IF @ = "" THEN Absent ELSE @]

\* The attributes on the store after a commit: file is .zattrs or those of
\* zarr.json, index those in .zmetadata. V3 writes the one file twice, from
\* PublishMetadata and from WriteMetadata, and neither waits for the other.
Committed(version, h, modified, stored) ==
    IF version = "V2"
    THEN {[file  |-> IF modified THEN BuildPublishAttrs(h) ELSE stored.file,
           index |-> ToCommitJson(h)]}
    ELSE {[stored EXCEPT !.file = attrs] :
             attrs \in {PrepareHeaderAttributes(ToCommitJson(h))}
                         \cup (IF modified THEN {BuildPublishAttrs(h)} ELSE {})}

\* An opening reads .zmetadata or zarr.json.
StoredHeader(version, stored) == IF version = "V2" THEN stored.index ELSE stored.file
=============================================================================
