\* Each client, started up to twice, over two chunks, with a call that fails.
CONSTANTS
    Loops = {1, 2}
    Slots = {0, 1}
    Chunks = {1, 2}
    Clients = {"web", "webRender", "webTraining", "desktop", "cli", "render", "train"}
    MaxFailures = 1
    W = 3
    Scores = {0, 1}
    Buckets = {1, 2, 3}
    Fanouts = {1, 2, 3}
    MaxLeaves = 5
    MaxPath = 3
SPECIFICATION Spec
INVARIANTS OwnWork KeepsBond AbandonsNothing ThreadsEnd FoldsAgree TreeBinds
\* The job drains, or the leases run out.
CHECK_DEADLOCK FALSE
