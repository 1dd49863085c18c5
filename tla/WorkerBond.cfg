\* One worker key, the wallet it names beside its own, two chunks, one result in
\* verification at a time, and a cooldown of one slot.
CONSTANTS
    Wallets = {k1, w1}
    NoWallet = NoWallet
    Keys = {k1}
    NoKey = NoKey
    Chunks = {c1, c2}
    NoChunk = NoChunk
    Results = {r1}
    UNSTAKE_COOLDOWN_SLOTS = 1
    MaxSlot = 1
    MaxStake = 1
SPECIFICATION Spec
SYMMETRY Symmetry
INVARIANTS LockHolds PaidForWork
\* All chunks are accepted, and the clock stops.
CHECK_DEADLOCK FALSE
