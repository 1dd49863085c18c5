\* A lineage of two chunks, its activities apart.
CONSTANTS
    Digests <- MCStates
    Origin <- MCOrigin
    NoAssertion = NoAssertion
    BucketGenerations = 1
    MaxBuckets = 1
    MaxU64 = 2
    MaxSlot = 5
    NChunks = 2
    Buckets = 1
    Window = 1
    RejectCap = 3
    Results = {1, 2, 3, 4}
    Handlers = {h1}
    Sweeper = sweeper
    NoResult = NoResult
    MaxFailures = 0
    MayOverlap = FALSE
SPECIFICATION FairSpec
INVARIANTS PaidAfterWindow RecordsAgree PaidOnce Anchored
PROPERTIES ParkedResolves WindowGated
\* The lineage ends, or the results run out.
CHECK_DEADLOCK FALSE
