---------------------------- MODULE MCChunkGrid ----------------------------
(* Small instances of ChunkGrid. *)
EXTENDS ChunkGrid

\* The origin of a domain that was sliced below 0.
MCOrigins == {-1}
=============================================================================
