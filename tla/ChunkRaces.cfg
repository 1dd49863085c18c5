\* One request at a time, the sweeper and a failure, over two results of a chunk.
CONSTANTS
    Chunks = {1}
    Workers = {w1, w2}
    Results = {1, 2}
    Handlers = {h1}
    Sweeper = sweeper
    NoWorker = NoWorker
    NoResult = NoResult
    Mode = "witness_extremum"
    TrustAfter = 1
    QuarantineAt = 1
    MaxFailures = 1
    MayOverlap = TRUE
SPECIFICATION Spec
SYMMETRY WorkerSymmetry
INVARIANTS PaidWasVerified MandatoryAudit SlashHasTranscript HonestNeverSlashed
\* Once the bounty is closed nothing is left to do.
CHECK_DEADLOCK FALSE
