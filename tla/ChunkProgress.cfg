\* Every chunk in flight comes back or is done.
CONSTANTS
    Chunks = {1, 2}
    Workers = {w1}
    Results = {1, 2}
    Handlers = {h1}
    Sweeper = sweeper
    NoWorker = NoWorker
    NoResult = NoResult
    Mode = "output_hash"
    TrustAfter = 1
    QuarantineAt = 1
    MaxFailures = 0
    MayOverlap = FALSE
SPECIFICATION FairSpec
PROPERTY Resolves
\* A closed bounty, or workers that stay away, leave nothing to do.
CHECK_DEADLOCK FALSE
