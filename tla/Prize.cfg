SPECIFICATION FairSpec
CONSTANTS
    Requests = {1, 2}
    Kinds = {"ok", "hangs"}
    MaxCrashes = 1
    Workers = {1, 2}
    Scores = {1, 2}
    Threshold = 0
    QUEUE_CAP = 1
    MaxRestarts = 1
    MaxReports = 2
INVARIANTS CountExact Matched BestWins PrizeKept
PROPERTY Settles
CHECK_DEADLOCK FALSE
