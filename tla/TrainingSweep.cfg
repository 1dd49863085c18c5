\* Deliveries one at a time, the sweep at any moment, and a failure of the chain
\* or of the coordinator.
CONSTANTS
    Digests <- MCStates
    Origin <- MCOrigin
    NoAssertion = NoAssertion
    BucketGenerations = 1
    MaxBuckets = 1
    MaxU64 = 2
    MaxSlot = 3
    NChunks = 2
    Buckets = 1
    Window = 1
    RejectCap = 3
    Results = {1, 2, 3}
    Handlers = {h1}
    Sweeper = sweeper
    NoResult = NoResult
    MaxFailures = 1
    MayOverlap = TRUE
SPECIFICATION Spec
INVARIANTS ChainSound SoundNeverSlashed ClosedIsDone
\* The lineage ends, or the results run out.
CHECK_DEADLOCK FALSE
