\* Two chunks, a request and the sweeper interleaved, the activities on one chunk
\* apart, and one that dies half-way.
CONSTANTS
    Chunks = {1, 2}
    Workers = {w1, w2}
    Results = {1, 2}
    Handlers = {h1}
    Sweeper = sweeper
    NoWorker = NoWorker
    NoResult = NoResult
    Mode = "output_hash"
    TrustAfter = 1
    QuarantineAt = 1
    MaxFailures = 1
    MayOverlap = FALSE
SPECIFICATION Spec
SYMMETRY WorkerSymmetry
PROPERTY KeepsPromise
\* Once the bounty is closed nothing is left to do.
CHECK_DEADLOCK FALSE
