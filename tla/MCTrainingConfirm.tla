-------------------------- MODULE MCTrainingConfirm -------------------------
(* Lineage states of bounded length to model-check TrainingConfirm with. *)
EXTENDS TrainingConfirm, TLC

HandlerSymmetry == Permutations(Handlers)

\* A result is one chunk longer than the state it was trained from.
MCStates == UNION {[1..n -> BOOLEAN] : n \in 0..Cardinality(Results)}
MCOrigin == << >>
=============================================================================
