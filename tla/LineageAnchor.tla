--------------------------- MODULE LineageAnchor ----------------------------
(***************************************************************************)
(* The chain of confirmed states of one training lineage on chain:         *)
(* init_lineage, assert_chunk, confirm_chunk and reject_chunk of           *)
(* programs/sieveworks/src/lib.rs.  A transaction whose checks fail        *)
(* changes nothing.                                                        *)
(*                                                                         *)
(* The account of an assertion is derived from its gen_start, so there is  *)
(* at most one for each.  It is closed when the assertion is confirmed or  *)
(* rejected: its status is 0 (Unconfirmed) for as long as it exists.       *)
(***************************************************************************)
EXTENDS Integers

CONSTANTS
    Digests,           \* digests of lineage states
    Origin,            \* a digest, that of the state the seed gives
    NoAssertion,
    BucketGenerations, \* BUCKET_GENERATIONS (256)
    MaxBuckets,        \* bound on n_buckets, a u16
    MaxU64,
    MaxSlot            \* bound on the clock of the chain

ASSUME AnchorAssumption ==
    /\ Origin \in Digests
    /\ BucketGenerations \in Nat \ {0}
    /\ MaxBuckets \in Nat
    /\ MaxU64 \in Nat
    /\ MaxSlot \in Nat
    /\ NoAssertion \notin [from : Digests, to : Digests, buckets : 0..MaxBuckets,
                           opened : 0..MaxSlot, window : Nat]

VARIABLES
    lineage,   \* TrainingLineage: exists, digest, generations_confirmed
    assertion, \* the ChunkAssertion at each gen_start
    slot

anchorVars == <<lineage, assertion, slot>>

Generations == 0..MaxU64
Assertions  == [from : Digests, to : Digests, buckets : 0..MaxBuckets,
                opened : 0..MaxSlot, window : Nat]

LineageTypeOK ==
    /\ lineage \in [exists : BOOLEAN, digest : Digests, gens : Generations]
    /\ assertion \in [Generations -> Assertions \cup {NoAssertion}]
    /\ slot \in 0..MaxSlot

AnchorInit ==
    /\ lineage = [exists |-> FALSE, digest |-> Origin, gens |-> 0]
    /\ assertion = [g \in Generations |-> NoAssertion]
    /\ slot = 0

SlotPasses ==
    /\ slot < MaxSlot
    /\ slot' = slot + 1
    /\ UNCHANGED <<lineage, assertion>>

InitLineage(digest) ==
    /\ ~lineage.exists
    /\ lineage' = [exists |-> TRUE, digest |-> digest, gens |-> 0]
    /\ UNCHANGED <<assertion, slot>>

\* OriginMismatch, LineageGenMismatch.
Continues(from, g) == lineage.exists /\ lineage.digest = from /\ lineage.gens = g

AssertChunk(g, from, to, buckets, window) ==
    /\ Continues(from, g)
    /\ assertion[g] = NoAssertion
    /\ assertion' = [assertion EXCEPT ![g] =
                       [from |-> from, to |-> to, buckets |-> buckets,
                        opened |-> slot, window |-> window]]
    /\ UNCHANGED <<lineage, slot>>

Advanced(g) == lineage.gens + assertion[g].buckets * BucketGenerations

\* An assertion whose challenge window is over.
WindowOver(g) ==
    /\ assertion[g] # NoAssertion
    /\ slot - assertion[g].opened >= assertion[g].window

\* Mutant: the account of the assertion is not closed.
ConfirmLeavesOpen(g) ==
    /\ WindowOver(g)
    /\ lineage.digest = assertion[g].from
    /\ Advanced(g) <= MaxU64
    /\ lineage' = [lineage EXCEPT !.digest = assertion[g].to, !.gens = Advanced(g)]
    /\ UNCHANGED <<assertion, slot>>

\* Mutant: the generations advance, the digest does not.
ConfirmCounts(g) ==
    /\ WindowOver(g)
    /\ lineage.digest = assertion[g].from
    /\ Advanced(g) <= MaxU64
    /\ lineage' = [lineage EXCEPT !.gens = Advanced(g)]
    /\ assertion' = [assertion EXCEPT ![g] = NoAssertion]
    /\ UNCHANGED slot

ConfirmChunk(g) ==
    /\ WindowOver(g)
    /\ lineage.digest = assertion[g].from
    /\ Advanced(g) <= MaxU64
    /\ lineage' = [lineage EXCEPT !.digest = assertion[g].to, !.gens = Advanced(g)]
    /\ assertion' = [assertion EXCEPT ![g] = NoAssertion]
    /\ UNCHANGED slot

RejectChunk(g) ==
    /\ assertion[g] # NoAssertion
    /\ assertion' = [assertion EXCEPT ![g] = NoAssertion]
    /\ UNCHANGED <<lineage, slot>>

AnchorNext ==
    \/ SlotPasses
    \/ \E d \in Digests : InitLineage(d)
    \/ \E g \in Generations :
         \/ \E from, to \in Digests, n \in 0..MaxBuckets, w \in Nat :
              AssertChunk(g, from, to, n, w)
         \/ ConfirmChunk(g) \/ RejectChunk(g)

AnchorSpec == AnchorInit /\ [][AnchorNext]_anchorVars
-----------------------------------------------------------------------------
\* Every open assertion still continues the chain as it stands, so there is
\* never more than one, and the second look at the anchor in confirm_chunk
\* never refuses what assert_chunk let in.
Anchored ==
    \A g \in Generations : assertion[g] # NoAssertion =>
        lineage.exists /\ lineage.gens = g /\ lineage.digest = assertion[g].from

\* The chain moves only to a state that has been on view for its window, by
\* the generations that were asserted, and the assertion goes in the same
\* transaction: no chunk is counted twice.
WindowGated ==
    [][lineage.exists /\ lineage' # lineage =>
         \E g \in Generations :
             /\ assertion[g] # NoAssertion /\ assertion'[g] = NoAssertion
             /\ slot >= assertion[g].opened + assertion[g].window
             /\ lineage' = [exists |-> TRUE, digest |-> assertion[g].to,
                            gens |-> g + assertion[g].buckets * BucketGenerations]
      ]_anchorVars
=============================================================================
