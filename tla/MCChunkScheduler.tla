--------------------------- MODULE MCChunkScheduler ---------------------------
(* ChunkScheduler on small instances; the transfers are interchangeable. *)
EXTENDS ChunkScheduler, TLC

CONSTANTS w1, w2, w3

Symmetry == Permutations(Workers)
=============================================================================
