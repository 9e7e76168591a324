--------------------------- MODULE MCChunkManager ---------------------------
(***************************************************************************)
(* Small instances of ChunkManager for TLC.                                *)
(***************************************************************************)
EXTENDS ChunkManager, TLC

\* Ids and contents of the parts are interchangeable, and so are workers.
Symmetry == Permutations(UploadIds) \cup Permutations(Data) \cup Permutations(Workers)
============================================================================
