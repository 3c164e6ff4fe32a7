-------------------------- MODULE MCChunkWriter ---------------------------
(* A small instance of ChunkWriter for TLC.                                *)
EXTENDS ChunkWriter
=============================================================================
