\* Claims that overlap each other, the credits and the funder's reclaim, over
\* two lives of the escrow.
CONSTANTS
    Workers = {w1, w2}
    MaxU64 = 4
    MaxBudget = 2
    MaxOpened = 2
    Rent = 1
    Requests = {q1, q2}
    NChunks = 2
    MaxClock = 3
SPECIFICATION Spec
SYMMETRY Symmetry
INVARIANTS Solvent NeverOverpaid VoucherCovered
\* The job is settled, or its clock has run out.
CHECK_DEADLOCK FALSE
