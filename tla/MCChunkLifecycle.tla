------------------------- MODULE MCChunkLifecycle -------------------------
(* Symmetries to check ChunkLifecycle with. *)
EXTENDS ChunkLifecycle, TLC

WorkerSymmetry == Permutations(Workers)
HandlerSymmetry == Permutations(Handlers)
Symmetry == WorkerSymmetry \cup HandlerSymmetry
===========================================================================
