--------------------------- MODULE MCChunkUpload ---------------------------
(***************************************************************************)
(* A small instance of ChunkUpload for TLC.                                *)
(***************************************************************************)
EXTENDS ChunkUpload
=============================================================================
