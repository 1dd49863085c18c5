------------------------------ MODULE JobPlan ------------------------------
(***************************************************************************)
(* What a new bounty is cut into and what it costs: the coordinator's      *)
(* arithmetic (jobs.ts) and the form's mirror of it (bounties/new).  A     *)
(* form is what the requester filled in; prices are in lamports, seeds and *)
(* generations in their own units.                                         *)
(***************************************************************************)
EXTENDS Integers, Sequences

CONSTANTS
    BUCKET,              \* bucket_size, 1024 on both sides
    TARGET_SECONDS,      \* 30 on both sides
    MAX_CHUNKS_PER_JOB, MIN_PRICE,
    TRAIN_G, MAX_GENERATIONS, MAX_LINEAGES

ASSUME PlanAssumption ==
    /\ BUCKET \in Nat \ {0} /\ TARGET_SECONDS \in Nat \ {0} /\ TRAIN_G \in Nat \ {0}
    /\ MAX_CHUNKS_PER_JOB \in Nat /\ MIN_PRICE \in Nat
    /\ MAX_GENERATIONS \in Nat /\ MAX_LINEAGES \in Nat \ {0}

CeilDiv(a, b) == (a + b - 1) \div b
Least(a, b)   == IF a < b THEN a ELSE b

deriveChunkSize(rate) ==
    LET buckets == CeilDiv(TARGET_SECONDS * rate, BUCKET)
    IN  (IF buckets > 0 THEN buckets ELSE 1) * BUCKET

\* lineages is clamped, not refused.
lineageCount(f) == Least(MAX_LINEAGES, IF f.lineages > 0 THEN f.lineages ELSE 1)

chunkCount(f) ==
    CASE f.kind = "coverage" -> CeilDiv(f.end - f.start, deriveChunkSize(f.rate))
      [] f.kind = "training" -> (f.end \div TRAIN_G) * lineageCount(f)
      [] f.kind = "prize"    -> 0

\* Mutant: only whole chunks.
RangesWhole(f) ==
    LET size == deriveChunkSize(f.rate)
    IN  [k \in 1 .. (f.end - f.start) \div size |-> <<f.start + (k - 1) * size, f.start + k * size>>]

\* The chunks of a coverage job, in the order they are inserted.
Ranges(f) ==
    LET size == deriveChunkSize(f.rate)
    IN  [k \in 1 .. chunkCount(f) |->
            <<f.start + (k - 1) * size, Least(f.start + k * size, f.end)>>]

\* The first chunk of each lineage; the rest are added as lineages move on.
Lineages(f) == [k \in 1 .. lineageCount(f) |-> <<(k - 1) * f.end, (k - 1) * f.end + TRAIN_G>>]

FirstRows(f) ==
    CASE f.kind = "coverage" -> Ranges(f)
      [] f.kind = "training" -> Lineages(f)
      [] f.kind = "prize"    -> <<>>

\* finalizeTrainingChunk: the chunk after r in its lineage, if there is one.
Successors(f, r) ==
    IF f.kind = "training" /\ r[2] % f.end # 0 THEN {<<r[2], r[2] + TRAIN_G>>} ELSE {}

Space(f) ==
    CASE f.kind = "coverage" -> f.start .. f.end - 1
      [] f.kind = "training" -> 0 .. lineageCount(f) * f.end - 1
      [] f.kind = "prize"    -> {}

-----------------------------------------------------------------------------
\* The form: chunkMath, and the price and budget the page asks the wallet for.
\* Mutant: the last chunk, cut short, is not counted.
chunkMathFloor(space, rate) == space \div (CeilDiv(TARGET_SECONDS * rate, BUCKET) * BUCKET)

chunkMath(space, rate) == CeilDiv(space, CeilDiv(TARGET_SECONDS * rate, BUCKET) * BUCKET)

\* The page's space is never negative, whatever the two fields say.
formSpace(f) == IF f.end > f.start THEN f.end - f.start ELSE 0

PageBudget(f) ==
    CASE f.kind = "coverage" -> f.price * chunkMath(formSpace(f), f.rate)
      [] f.kind = "training" -> f.price * ((f.end \div TRAIN_G) * f.lineages)
      [] f.kind = "prize"    -> f.prize

\* The wallet's amounts, and those of the job's row: a prize's budget is the prize.
PageFund(f) == [budget |-> PageBudget(f), price |-> IF f.kind = "prize" THEN 0 ELSE f.price]
Priced(f)   == PageFund(f).budget > 0

\* createJob and its two siblings: what is refused before anything is written.
Shaped(f) ==
    CASE f.kind = "coverage" -> f.end > f.start
      [] f.kind = "training" -> /\ f.end >= TRAIN_G /\ f.end % TRAIN_G = 0 /\ f.end <= MAX_GENERATIONS
      [] f.kind = "prize"    -> f.prize > 0 /\ f.price = 0

PriceAccepted(f) ==
    f.kind # "prize" =>
        IF f.price > 0 THEN f.price >= MIN_PRICE /\ PageBudget(f) >= f.price * chunkCount(f)
        ELSE PageBudget(f) = 0

Accepted(f) == Shaped(f) /\ chunkCount(f) <= MAX_CHUNKS_PER_JOB /\ PriceAccepted(f)
Status(f)   == IF f.kind = "prize" \/ f.price > 0 THEN "draft" ELSE "open"
=============================================================================
