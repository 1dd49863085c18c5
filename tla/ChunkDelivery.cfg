\* Duplicate deliveries, the delivery window and a failure.
CONSTANTS
    Chunks = {1}
    Workers = {w1, w2}
    Results = {1}
    Handlers = {h1, h2}
    Sweeper = sweeper
    NoWorker = NoWorker
    NoResult = NoResult
    Mode = "output_hash"
    TrustAfter = 1
    QuarantineAt = 1
    MaxFailures = 1
    MayOverlap = TRUE
SPECIFICATION Spec
SYMMETRY Symmetry
INVARIANTS CreditAfterDelivery AcceptedIsPaid
PROPERTY LeaseRespected
\* Once the bounty is closed nothing is left to do.
CHECK_DEADLOCK FALSE
