--------------------------- MODULE MCWorkerClient ---------------------------
(* WorkerClient with the commitment its chunks carry.  The commitment does *)
(* not depend on where a client is, so it is looked at in the initial      *)
(* states.                                                                 *)
EXTENDS WorkerClient, Commitment

\* One chunk has one commitment, whoever computes it: the page with any number of
\* threads and the native core agree leaf by leaf with what the coordinator
\* recomputes for that index, where the chunk's last bucket ends below 2^W, and
\* the witness is the lowest seed with the greatest score of the whole chunk.
FoldsAgree == Init => NativeRecomputed /\ WebMatches

\* A proof made for a leaf is accepted, and under a committed root no proof of
\* whatever hashes opens an index to another leaf, or to another proof.
TreeBinds == Init => ProofsAccepted /\ OneOpening
=============================================================================
