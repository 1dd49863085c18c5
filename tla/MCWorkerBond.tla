---------------------------- MODULE MCWorkerBond ----------------------------
(* Constants to model-check WorkerBond with. *)
EXTENDS WorkerBond, TLC

Symmetry == Permutations(Wallets \ Keys) \cup Permutations(Chunks)
=============================================================================
