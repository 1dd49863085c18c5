----------------------------- MODULE Commitment -----------------------------
(***************************************************************************)
(* What a worker commits to for a chunk: the extremum of each bucket,      *)
(* folded by the page's threads, the native core or the GPU, and the       *)
(* Merkle tree over them that both sides compute (packages/merkle,         *)
(* engine.ts, worker-core, desktop gpu.rs).  Seeds of the native core and  *)
(* the GPU are u64 and wrap at 2^W; those of the page are BigInts.  Hashes *)
(* are terms, so distinct inputs have distinct hashes.                     *)
(***************************************************************************)
EXTENDS Integers, Sequences, FiniteSets, SequencesExt, FiniteSetsExt

CONSTANTS
    W,                        \* width of a seed in the native code
    Scores, Buckets, Fanouts,  \* bounds: scores, bucket sizes and thread counts
    MaxLeaves, MaxPath        \* bounds: leaves of a tree, length of a proof

ASSUME CommitmentAssumption ==
    /\ W \in Nat /\ Scores \subseteq Nat /\ Buckets \subseteq Nat \ {0} /\ Fanouts \subseteq Nat \ {0}
    /\ MaxLeaves \in Nat /\ MaxPath \in Nat

Seed == 0 .. 2^W - 1
Lower(a, b) == IF a < b THEN a ELSE b

\* Mutant: a later seed with the same score replaces it.
BestLast(score, from, to) ==
    FoldLeft(LAMBDA b, s : IF score[s] >= score[b] THEN s ELSE b, from, [k \in 1 .. to - from |-> from + k - 1])

\* evaluate_range, and eval_range_gpu within a bucket: ascending, strictly greater.
Best(score, from, to) ==
    FoldLeft(LAMBDA b, s : IF score[s] > score[b] THEN s ELSE b, from, [k \in 1 .. to - from |-> from + k - 1])

\* Where bucket i of a chunk begins and ends, for the coordinator that recomputes it.
BucketOf(start, end, bucket, i) == <<start + i * bucket, Lower(start + (i + 1) * bucket, end)>>

\* The page: contiguous slices of buckets, one to a thread, leaves put in order.
WebLeaves(score, start, end, bucket, threads) ==
    LET total == (end - start + bucket - 1) \div bucket
        per   == (total + threads - 1) \div threads
        To(t) == Lower(start + (t + 1) * per * bucket, end)
        BucketLeaf(t, i) ==
            LET s == start + i * bucket IN <<i, Best(score, s, Lower(s + bucket, To(t)))>>
        all == UNION {{BucketLeaf(t, i) : i \in t * per .. Lower((t + 1) * per, total) - 1} : t \in 0 .. threads - 1}
    IN  [k \in 1 .. total |-> (CHOOSE l \in all : l[1] = k - 1)[2]]

\* The native core's loop over buckets, whose bound may wrap.
NativeEnd(s, end, bucket) ==
    LET e == (s + bucket) % 2^W IN IF e < end /\ e > s THEN e ELSE end

\* Its starting points, as far as they grow; it does not end when they wrap.
NativeStarts(start, end, bucket) ==
    [k \in 1 .. (end - start + bucket - 1) \div bucket |-> start + (k - 1) * bucket]
NativeEnds(start, end, bucket) == start + ((end - start + bucket - 1) \div bucket) * bucket < 2^W
NativeLeaves(score, start, end, bucket) ==
    LET at == NativeStarts(start, end, bucket)
    IN  [k \in DOMAIN at |-> Best(score, at[k], NativeEnd(at[k], end, bucket))]

\* The witness of a chunk: the first leaf with the greatest score.
Witness(score, leaves) ==
    FoldLeft(LAMBDA b, s : IF score[s] > score[b] THEN s ELSE b, leaves[1], leaves)
-----------------------------------------------------------------------------
Leaf(i, x) == <<"leaf", i, x>>
Node(l, r) == <<"node", l, r>>

\* Of a position, and of the number of positions, one level up.
Half(i)   == i \div 2
HalfUp(n) == (n + 1) \div 2

\* A level of the tree over the one below; an odd tail is promoted.
Above(level) ==
    [k \in 1 .. HalfUp(Len(level)) |->
        IF 2 * k <= Len(level) THEN Node(level[2 * k - 1], level[2 * k]) ELSE level[Len(level)]]

\* From the leaves up; a level of one hash, the root, stays as it is, so that there
\* may be more turns than the source's loops take and none is changed by them.
Levels(hashes) ==
    LET level[h \in 0 .. Len(hashes)] == IF h = 0 THEN hashes ELSE Above(level[h - 1]) IN level

merkleRoot(hashes) == Levels(hashes)[Len(hashes)][1]

\* The sibling of a position; positions count from 0.
Sibling(i) == IF i % 2 = 0 THEN i + 1 ELSE i - 1

\* One turn of the loop: the sibling is pushed, if the level has one.
Push(walk, level) ==
    LET s == Sibling(walk.i)
    IN  [i     |-> Half(walk.i),
         proof |-> IF s < Len(level) THEN Append(walk.proof, level[s + 1]) ELSE walk.proof]

Walk(hashes, index) ==
    LET walk[h \in 0 .. Len(hashes)] ==
            IF h = 0 THEN [i |-> index, proof |-> <<>>] ELSE Push(walk[h - 1], Levels(hashes)[h - 1])
    IN  walk

merkleProof(hashes, index) == Walk(hashes, index)[Len(hashes)].proof

\* Mutant: only the tail is looked at, not whether the level is odd.
OddTailAny(i, width) == i = width - 1

OddTail(i, width) == i = width - 1 /\ width % 2 = 1

\* One turn of the loop: the shape is derived from the index and the count, and a
\* hash that is missing is a refusal.
Missing == <<"none">>
Climb(c, proof) ==
    LET tail == c.width = 1 \/ OddTail(c.i, c.width)
        pair == IF c.i % 2 = 0 THEN Node(c.hash, proof[c.p + 1]) ELSE Node(proof[c.p + 1], c.hash)
    IN  [i     |-> Half(c.i),
         width |-> HalfUp(c.width),
         hash  |-> IF tail THEN c.hash ELSE IF c.p = Len(proof) THEN Missing ELSE pair,
         p     |-> IF tail \/ c.p = Len(proof) THEN c.p ELSE c.p + 1]

Ascent(leaf, proof, count) ==
    LET climb[h \in 0 .. count] ==
            IF h = 0 THEN [i |-> leaf[2], width |-> count, hash |-> leaf, p |-> 0] ELSE Climb(climb[h - 1], proof)
    IN  climb

\* So is a hash that is left over.
verifyProof(leaf, proof, count, root) ==
    LET top == Ascent(leaf, proof, count)[count]
    IN  leaf[2] < count /\ top.p = Len(proof) /\ top.hash = root
-----------------------------------------------------------------------------
\* Every chunk, table of scores and bucket size within the bounds.
Work == {w \in Seed \X Seed : w[1] < w[2]}

NativeRecomputed ==
    \A score \in [Seed -> Scores], w \in Work, bucket \in Buckets :
        NativeEnds(w[1], w[2], bucket) =>
            LET native == NativeLeaves(score, w[1], w[2], bucket)
            IN  \A i \in DOMAIN native :
                    LET b == BucketOf(w[1], w[2], bucket, i - 1) IN native[i] = Best(score, b[1], b[2])

WebMatches ==
    \A score \in [Seed -> Scores], w \in Work, bucket \in Buckets, threads \in Fanouts :
        LET web == WebLeaves(score, w[1], w[2], bucket, threads)
        IN  /\ NativeEnds(w[1], w[2], bucket) => web = NativeLeaves(score, w[1], w[2], bucket)
            /\ Witness(score, web) =
                   CHOOSE s \in w[1] .. w[2] - 1 :
                       /\ \A t \in w[1] .. w[2] - 1 : score[t] <= score[s]
                       /\ \A t \in w[1] .. s - 1 : score[t] < score[s]

Values(n) == [1 .. n -> {0, 1}]
Hashes(value) == [k \in DOMAIN value |-> Leaf(k - 1, value[k])]
Terms(hashes) == UNION {ToSet(Levels(hashes)[h]) : h \in 0 .. Len(hashes)}

ProofsAccepted ==
    \A n \in 1 .. MaxLeaves : \A value \in Values(n) : \A i \in 0 .. n - 1 :
        LET hashes == Hashes(value)
        IN  verifyProof(hashes[i + 1], merkleProof(hashes, i), n, merkleRoot(hashes))

OneOpening ==
    \A n \in 1 .. MaxLeaves : \A value \in Values(n) :
        LET hashes == Hashes(value)
            root   == merkleRoot(hashes)
            paths  == UNION {[1 .. m -> Terms(hashes)] : m \in 0 .. MaxPath}
        IN  \A i \in 0 .. n - 1 : \A x \in {0, 1} : \A p \in paths :
                verifyProof(Leaf(i, x), p, n, root) => Leaf(i, x) = hashes[i + 1] /\ p = merkleProof(hashes, i)
=============================================================================
