\* A claim confirmed after a later chunk was credited, then the reclaim.
CONSTANTS
    Workers = {w1, w2}
    MaxU64 = 8
    MaxBudget = 3
    MaxOpened = 1
    Rent = 1
    Requests = {q1}
    NChunks = 2
    MaxClock = 3
SPECIFICATION Spec
SYMMETRY WorkerSymmetry
INVARIANT NothingStranded
\* The job is settled, or its clock has run out.
CHECK_DEADLOCK FALSE
