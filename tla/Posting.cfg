\* One page with two wallets, one job, every kind of bounty.
CONSTANTS
    Wallets = {w1, w2}
    NoWallet = NoWallet
    MaxNonces = 1
    BUCKET = 2
    TARGET_SECONDS = 1
    MAX_CHUNKS_PER_JOB = 20
    MIN_PRICE = 2
    TRAIN_G = 2
    MAX_GENERATIONS = 4
    MAX_LINEAGES = 3
    Jobs = {j1}
    NoJob = NoJob
    Forms <- MCForms
    BATCH = 2
    MaxCalls = 2
    GATE_BUCKETS = 2
    ISOLATED_SAMPLES = 2
    Answers = {a1, a2, failed}
    Failed = failed
    Nobody = Nobody
    Hashes = {h1, h2}
    Builtins = {h1}
    Absent = Absent
    BITS = 4
SPECIFICATION Spec
INVARIANTS FundingFits ClosedIsCovered WiresAgree GateSound
PROPERTIES StaysClosed FundedOpens
\* A job that is closed and reclaimed is the end.
CHECK_DEADLOCK FALSE
