---------------------------- MODULE MCSettlement ----------------------------
(* The symmetry to model-check Settlement with. *)
EXTENDS Settlement, TLC

WorkerSymmetry == Permutations(Workers)
Symmetry == WorkerSymmetry \cup Permutations(Requests)
=============================================================================
