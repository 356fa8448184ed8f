------------------------- MODULE MCMetadataCommit -------------------------
(* TLC instances of MetadataCommit. *)
EXTENDS MetadataCommit, TLC
CONSTANTS h1, h2
MCHandles == {h1, h2}
Sym == Permutations(MCHandles)
=============================================================================
