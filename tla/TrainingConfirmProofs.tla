------------------------ MODULE TrainingConfirmProofs ------------------------
(***************************************************************************)
(* Proofs about LineageAnchor, for any digests, windows, chunk sizes and   *)
(* u64 limit, and about TrainingConfirm, in three layers.                  *)
(*                                                                         *)
(*   TypeInv  holds of every behaviour; with it the module implements      *)
(*            LineageAnchor, whose theorems then speak of this chain.      *)
(*   RowInv   the tables are in order, while no call has failed and no     *)
(*            chunk was taken up while another was busy with it.           *)
(*   ChainInv the chain tells the same story as the tables, while things   *)
(*            go Straight too.                                             *)
(*                                                                         *)
(* The last two speak of every behaviour up to its first overlap, wherever *)
(* it happens; after one they do not hold.                                 *)
(***************************************************************************)
EXTENDS TrainingConfirm, FiniteSetTheorems, SequenceTheorems, TLAPS
-----------------------------------------------------------------------------
(***************************************************************************)
(* The program by itself.  Anchored is inductive together with the types:  *)
(* asserting compares both the digest and the count, the account of a      *)
(* gen_start can not exist twice, and what moves the chain removes the one *)
(* assertion there was.                                                    *)
(***************************************************************************)

AnchorInv == LineageTypeOK /\ Anchored

\* Before init_lineage there is neither a chain nor an assertion.
LEMMA AnchorInvInit == AnchorInit => AnchorInv
  BY AnchorAssumption DEF AnchorInit, AnchorInv, LineageTypeOK, Anchored, Generations

\* assert_chunk lets in only what continues the chain.
LEMMA AssertKeeps ==
  ASSUME AnchorInv, NEW g \in Generations, NEW from \in Digests, NEW to \in Digests,
         NEW n \in 0..MaxBuckets, NEW w \in Nat, AssertChunk(g, from, to, n, w)
  PROVE  AnchorInv'
<1> DEFINE new == [from |-> from, to |-> to, buckets |-> n,
                   opened |-> slot, window |-> w]
<1>1. new \in Assertions
  BY AnchorAssumption DEF AnchorInv, LineageTypeOK, Assertions
<1>2. /\ assertion' = [assertion EXCEPT ![g] = new]
      /\ lineage.exists /\ lineage.digest = from /\ lineage.gens = g
      /\ UNCHANGED <<lineage, slot>>
  BY DEF AssertChunk, Continues
<1>3. new.from = from
  OBVIOUS
<1> HIDE DEF new
<1>4. LineageTypeOK'
  BY <1>1, <1>2 DEF AnchorInv, LineageTypeOK
<1>5. Anchored'
  BY <1>2, <1>3 DEF AnchorInv, LineageTypeOK, Anchored
<1> QED
  BY <1>4, <1>5 DEF AnchorInv

\* confirm_chunk moves the chain and takes its only assertion away.
LEMMA ConfirmKeeps ==
  ASSUME AnchorInv, NEW g \in Generations, ConfirmChunk(g)
  PROVE  AnchorInv'
<1> USE AnchorAssumption
<1>1. assertion[g] \in Assertions
  BY DEF AnchorInv, LineageTypeOK, ConfirmChunk, WindowOver
<1>2. assertion[g].to \in Digests /\ assertion[g].buckets \in Nat
  BY <1>1 DEF Assertions
<1>3. lineage.gens \in Nat /\ Advanced(g) \in Generations
  BY <1>2 DEF AnchorInv, LineageTypeOK, Generations, ConfirmChunk, Advanced
<1>4. /\ lineage' = [lineage EXCEPT !.digest = assertion[g].to, !.gens = Advanced(g)]
      /\ assertion' = [assertion EXCEPT ![g] = NoAssertion]
      /\ slot' = slot
      /\ assertion[g] # NoAssertion
  BY DEF ConfirmChunk, WindowOver
<1>5. lineage' = [exists |-> lineage.exists, digest |-> assertion[g].to,
                  gens |-> Advanced(g)]
  BY <1>4 DEF AnchorInv, LineageTypeOK
<1>6. LineageTypeOK'
  <2>1. lineage' \in [exists : BOOLEAN, digest : Digests, gens : Generations]
    BY <1>2, <1>3, <1>5 DEF AnchorInv, LineageTypeOK
  <2> QED
    BY <1>4, <2>1 DEF AnchorInv, LineageTypeOK
<1>7. \A h \in Generations : assertion'[h] = NoAssertion
  BY <1>4 DEF AnchorInv, LineageTypeOK, Anchored
<1> QED
  BY <1>6, <1>7 DEF AnchorInv, Anchored

\* Every transaction, and the passing of slots, keeps the invariant.
LEMMA AnchorInvStep == AnchorInv /\ [AnchorNext]_anchorVars => AnchorInv'
<1> SUFFICES ASSUME AnchorInv, [AnchorNext]_anchorVars PROVE AnchorInv'
  OBVIOUS
<1> USE AnchorAssumption
<1>1. CASE SlotPasses
  BY <1>1 DEF SlotPasses, AnchorInv, LineageTypeOK, Anchored
<1>2. ASSUME NEW d \in Digests, InitLineage(d) PROVE AnchorInv'
  BY <1>2 DEF InitLineage, AnchorInv, LineageTypeOK, Anchored, Generations
<1>3. ASSUME NEW g \in Generations, NEW from \in Digests, NEW to \in Digests,
             NEW n \in 0..MaxBuckets, NEW w \in Nat, AssertChunk(g, from, to, n, w)
      PROVE  AnchorInv'
  BY <1>3, AssertKeeps
<1>4. ASSUME NEW g \in Generations, ConfirmChunk(g) PROVE AnchorInv'
  BY <1>4, ConfirmKeeps
<1>5. ASSUME NEW g \in Generations, RejectChunk(g) PROVE AnchorInv'
  BY <1>5 DEF RejectChunk, AnchorInv, LineageTypeOK, Anchored
<1>6. CASE UNCHANGED anchorVars
  BY <1>6 DEF anchorVars, AnchorInv, LineageTypeOK, Anchored
<1> QED
  BY <1>1, <1>2, <1>3, <1>4, <1>5, <1>6 DEF AnchorNext

\* The chain always satisfies its invariant.
LEMMA AnchorInvariance == AnchorSpec => []AnchorInv
  BY AnchorInvInit, AnchorInvStep, PTL DEF AnchorSpec

\* The counter of generations stays within u64.
THEOREM LineageTypeCorrect == AnchorSpec => []LineageTypeOK
<1>1. AnchorInv => LineageTypeOK
  BY DEF AnchorInv
<1> QED
  BY <1>1, AnchorInvariance, PTL

\* Every open assertion continues the chain as it stands: the second look of
\* confirm_chunk at the anchor never refuses what assert_chunk let in.
THEOREM AssertionsAreAnchored == AnchorSpec => []Anchored
<1>1. AnchorInv => Anchored
  BY DEF AnchorInv
<1> QED
  BY <1>1, AnchorInvariance, PTL

\* The chain moves only by an assertion whose window is over, which goes.
THEOREM ChainIsWindowGated == AnchorSpec => WindowGated
<1> DEFINE Gated ==
      lineage.exists /\ lineage' # lineage =>
        \E g \in Generations :
          /\ assertion[g] # NoAssertion /\ assertion'[g] = NoAssertion
          /\ slot >= assertion[g].opened + assertion[g].window
          /\ lineage' = [exists |-> TRUE, digest |-> assertion[g].to,
                         gens |-> g + assertion[g].buckets * BucketGenerations]
<1>1. AnchorInv /\ [AnchorNext]_anchorVars => [Gated]_anchorVars
  <2> SUFFICES ASSUME AnchorInv, AnchorNext, lineage.exists, lineage' # lineage
               PROVE  Gated
    OBVIOUS
  <2>1. PICK g \in Generations : ConfirmChunk(g)
    BY DEF AnchorNext, SlotPasses, InitLineage, AssertChunk, RejectChunk
  <2>2. /\ assertion[g] # NoAssertion /\ assertion[g] \in Assertions
        /\ lineage \in [exists : BOOLEAN, digest : Digests, gens : Generations]
        /\ assertion \in [Generations -> Assertions \cup {NoAssertion}]
        /\ slot \in Nat
    BY <2>1 DEF ConfirmChunk, WindowOver, AnchorInv, LineageTypeOK
  <2>3. lineage.gens = g
    BY <2>2 DEF AnchorInv, Anchored
  <2>4. slot >= assertion[g].opened + assertion[g].window
    BY <2>1, <2>2 DEF ConfirmChunk, WindowOver, Assertions
  <2>5. assertion'[g] = NoAssertion
    BY <2>1, <2>2 DEF ConfirmChunk
  <2>6. lineage' = [exists |-> TRUE, digest |-> assertion[g].to,
                    gens |-> g + assertion[g].buckets * BucketGenerations]
    BY <2>1, <2>2, <2>3 DEF ConfirmChunk, Advanced
  <2> QED
    BY <2>2, <2>4, <2>5, <2>6
<1> QED
  BY <1>1, AnchorInvariance, PTL DEF AnchorSpec, WindowGated
-----------------------------------------------------------------------------
(***************************************************************************)
(* The types of the tables and of the processes.                           *)
(***************************************************************************)

\* The steps a process takes without a result, or with one it no longer needs.
Free == {"idle", "expire", "count", "close"}

\* The steps of a delivery up to the return; of finalizeTrainingChunk; of the
\* sweep with a parked chunk.
Delivering == {"store", "readOrigin", "fetchAnchor", "init", "assert", "park"}
Finalizing == {"advance", "roll", "accept", "credit"}
Confirming == {"fetchAssertion", "replay", "confirm", "rejectTx", "slash", "attempt",
               "quarantine", "repool"}

\* The rows of results, and the states so many chunks can lead to.
Taken == {r \in Results : result[r].state # "none"}
States(n) == UNION {[1..m -> BOOLEAN] : m \in 0..n}

\* No state is longer than there are results, so each has a digest.
Grown == LET n == Cardinality(Taken)
         IN  row.latest \in States(n) /\ \A r \in Results : result[r].final \in States(n)

\* A process at work works on a result that is in the table.
HasRow ==
    /\ todo \subseteq Taken
    /\ \A p \in Procs :
         /\ rid[p] # NoResult \/ pc[p] \notin Free => rid[p] \in Taken
         /\ pc[p] = "roll" => ChunkOf(p) + 1 < NChunks

\* What the sweep does no delivery does, and conversely.
Roles ==
    /\ \A h \in Handlers : pc[h] \in Delivering \cup Finalizing \cup {"idle", "count", "close"}
    /\ pc[Sweeper] \notin Delivering

\* The types of the tables, of control and of the rest.
RowsOK ==
    /\ job \in {"open", "closed"}
    /\ chunk \in [Chunks -> [state : ChunkStates, attempts : 0..RejectCap]]
    /\ result \in [Results -> [state : {"none", "passed", "failed"}, chunk : Chunks,
                               final : Digests, kept : BOOLEAN]]
    /\ row \in [latest : Digests, done : 0..NChunks, flagged : BOOLEAN]
    /\ paid \in [Results -> Nat]
    /\ slashed \subseteq Results

Control ==
    /\ pc \in [Procs -> Steps]
    /\ rid \in [Procs -> Results \cup {NoResult}]
    /\ todo \subseteq Results
    /\ HasRow /\ Roles

Notes ==
    /\ origin \in [Handlers -> Digests]
    /\ seenSlot \in 0..MaxSlot
    /\ failures \in 0..MaxFailures
    /\ crossed \in BOOLEAN
    /\ overlapped \in BOOLEAN

TypeInv == AnchorInv /\ RowsOK /\ Control /\ Notes /\ Grown
-----------------------------------------------------------------------------
\* No chunk has two processes at it: until activities overlap.
Holds(p, k) == rid[p] # NoResult /\ ChunkOf(p) = k

Apart ==
    /\ \A p, q \in Procs :
         p # q /\ rid[p] # NoResult /\ rid[q] # NoResult => ChunkOf(p) # ChunkOf(q)
    /\ \A h \in Handlers, r \in todo : rid[h] # NoResult => ChunkOf(h) # result[r].chunk

\* A process that is through has let its result go.
Unheld ==
    /\ \A p \in Procs : pc[p] \in {"idle", "expire"} => rid[p] = NoResult
    /\ todo # {} => pc[Sweeper] \in {"expire", "expireChunk"}

\* The states in which an activity may have a chunk.
Open == {"awaiting_outputs", "awaiting_confirm"}

\* Chunks before row.done are accepted or about to be, the one at row.done is
\* worked on or about to be rolled, and there is none after it.
Reached(k) ==
    /\ k < row.done => \/ chunk[k].state = "accepted"
                       \/ \E p \in Procs : pc[p] \in {"roll", "accept"} /\ ChunkOf(p) = k
    /\ k = row.done => \/ chunk[k].state \in {"pending", "awaiting_outputs",
                                              "awaiting_confirm", "quarantined"}
                       \/ chunk[k].state = "none" /\ \E p \in Procs : pc[p] = "roll" /\ ChunkOf(p) + 1 = k
    /\ k > row.done => chunk[k].state = "none"

Frontier == \A k \in Chunks : Reached(k)

\* Where a process stands fixes its chunk and the state of it.
AtStep(p) ==
    LET k == ChunkOf(p)
        s == chunk[k].state
    IN  /\ pc[p] \in Delivering => k = row.done /\ s = "awaiting_outputs"
        /\ pc[p] = "advance" => k = row.done /\ s \in Open
        /\ pc[p] = "roll" => k + 1 = row.done /\ s \in Open /\ chunk[row.done].state = "none"
        /\ pc[p] = "accept" => k < row.done /\ s \in Open
        /\ pc[p] = "credit" => k < row.done /\ s = "accepted"
        /\ pc[p] \in Confirming => k = row.done /\ s = "awaiting_confirm"
        /\ pc[p] = "expireChunk" => k = row.done /\ s \in {"awaiting_outputs", "pending"}

\* What the sweep has selected as overdue is at the frontier.
Waiting ==
    \A r \in todo : /\ result[r].chunk = row.done
                    /\ chunk[row.done].state \in {"awaiting_outputs", "pending"}

\* A paid result is the only one of its chunk, which is behind the frontier and
\* which nobody is finalizing.
Settled(r) ==
    /\ paid[r] = 1 /\ r \in Taken /\ result[r].chunk < row.done
    /\ \A p \in Procs : pc[p] \in Finalizing => ChunkOf(p) # result[r].chunk
    /\ \A q \in Results : paid[q] > 0 /\ result[q].chunk = result[r].chunk => q = r

Paid == \A r \in Results : paid[r] > 0 => Settled(r)

\* A job that is closed, or about to be, has nothing more to do.
Done == row.done = NChunks \/ \E k \in Chunks : chunk[k].state = "quarantined"
Closing == job = "closed" \/ (\E p \in Procs : pc[p] = "close") => Done

\* Every result at the frontier continues the latest state by a chunk.
Built ==
    /\ row.done = 0 => row.latest = Origin
    /\ \A r \in Taken : /\ result[r].chunk <= row.done
                        /\ result[r].chunk = row.done =>
                             \E b \in BOOLEAN : result[r].final = Append(row.latest, b)

\* What the sweep rejects or has slashed for is fabricated.
Condemned ==
    /\ pc[Sweeper] \in {"rejectTx", "slash"} => ~Sound(result[rid[Sweeper]].final)
    /\ \A r \in slashed : r \in Taken /\ ~Sound(result[r].final)

Orderly ==
    /\ Apart /\ Unheld /\ Frontier /\ \A p \in Procs : AtStep(p)
    /\ Waiting /\ Paid /\ Closing /\ Built /\ Condemned

RowInv == failures = 0 /\ ~overlapped => Orderly
-----------------------------------------------------------------------------
\* Every assertion is of one chunk's buckets.
Sized == \A g \in Generations : assertion[g] # NoAssertion => assertion[g].buckets = Buckets

\* A delivery never finalizes: what it asserts it parks.
HandlersPark == \A h \in Handlers : pc[h] \notin Finalizing

\* What a delivery has read of the row and of the chain still holds.
OnChain(h) ==
    /\ pc[h] \in {"fetchAnchor", "init", "assert", "park"} => origin[h] = row.latest
    /\ pc[h] = "init" => ~lineage.exists
    /\ pc[h] = "assert" => lineage.exists
    /\ pc[h] = "park" => lineage.exists

\* An assertion that is open belongs to a chunk that is parked, or is being
\* parked, and has had no verdict.
Judged == {"slash", "attempt", "quarantine", "repool", "advance"}

Shown ==
    \A g \in Generations : assertion[g] # NoAssertion =>
        \/ \E h \in Handlers : pc[h] = "park"
        \/ /\ row.done \in Chunks /\ chunk[row.done].state = "awaiting_confirm"
           /\ pc[Sweeper] \notin Judged

\* What the sweep looks at is what was asserted, and what it confirms it has
\* replayed.
Looking == {"fetchAssertion", "replay", "confirm"}

Own ==
    /\ pc[Sweeper] \in Looking =>
         LET a == assertion[Start(ChunkOf(Sweeper))]
         IN  a # NoAssertion => a.to = result[rid[Sweeper]].final
    /\ pc[Sweeper] \in {"confirm", "advance"} => Matches

\* The account on chain is where the row is, but for the moment between the
\* confirmation and the update of the row.
Told ==
    /\ Sound(row.latest) /\ Len(row.latest) = row.done
    /\ ~lineage.exists => row.done = 0 /\ pc[Sweeper] # "advance"
    /\ lineage.exists =>
         IF pc[Sweeper] = "advance"
           THEN lineage.digest = result[rid[Sweeper]].final /\ lineage.gens = Start(row.done + 1)
           ELSE lineage.digest = row.latest /\ lineage.gens = Start(row.done)

Aligned == HandlersPark /\ (\A h \in Handlers : OnChain(h)) /\ Shown /\ Own /\ Told

ChainInv == Straight /\ ~overlapped => Aligned

-----------------------------------------------------------------------------
\* A state is longer than the one it was computed from by one chunk.
LEMMA States_Append ==
  ASSUME NEW n \in Nat, NEW s \in States(n), NEW b \in BOOLEAN
  PROVE  Append(s, b) \in States(n + 1)
<1>1. PICK m \in 0..n : s \in [1..m -> BOOLEAN]
  BY DEF States
<1>2. s \in Seq(BOOLEAN) /\ Len(s) = m
  BY <1>1, SeqDef
<1>3. /\ Append(s, b) \in Seq(BOOLEAN) /\ Len(Append(s, b)) = m + 1
  BY <1>2
<1>4. Append(s, b) \in [1..m + 1 -> BOOLEAN]
  <2> DEFINE t == Append(s, b)
  <2>1. t \in Seq(BOOLEAN) /\ Len(t) = m + 1
    BY <1>3
  <2> HIDE DEF t
  <2>2. PICK k \in Nat : t \in [1..k -> BOOLEAN]
    BY <2>1, SeqDef
  <2>3. k = m + 1
    BY <2>1, <2>2
  <2> QED
    BY <2>2, <2>3 DEF t
<1>5. m + 1 \in 0..n + 1
  BY <1>1
<1> QED
  BY <1>4, <1>5 DEF States

LEMMA States_Grow ==
  ASSUME NEW n \in Nat, NEW m \in Nat, n <= m
  PROVE  States(n) \subseteq States(m)
  BY DEF States

\* As many results as there are give no state that has no digest.
LEMMA States_Digests ==
  ASSUME NEW n \in Nat, n <= Cardinality(Results)
  PROVE  States(n) \subseteq Digests
<1>1. Cardinality(Results) \in Nat
  BY StatesAssumption, FS_CardinalityType
<1>2. \A m \in 0..n : [1..m -> BOOLEAN] \subseteq Digests
  BY <1>1, StatesAssumption
<1> QED
  BY <1>2 DEF States

LEMMA Taken_Count ==
  /\ IsFiniteSet(Taken) /\ Cardinality(Taken) \in Nat
  /\ Cardinality(Taken) <= Cardinality(Results) /\ Cardinality(Results) \in Nat
<1>1. Taken \subseteq Results
  BY DEF Taken
<1> QED
  BY <1>1, StatesAssumption, FS_Subset, FS_CardinalityType

\* A chunk starts within the u64 counter.
LEMMA Start_Generation ==
  ASSUME NEW k \in Chunks
  PROVE  Start(k) \in Generations /\ Start(k) \in Nat
<1> USE TrainingAssumption, AnchorAssumption
<1>1. ChunkGenerations \in Nat /\ NChunks * ChunkGenerations <= MaxU64
  BY DEF ChunkGenerations
<1>2. k * ChunkGenerations <= NChunks * ChunkGenerations /\ k * ChunkGenerations \in Nat
  BY <1>1 DEF Chunks
<1> QED
  BY <1>1, <1>2 DEF Start, Generations

LEMMA TypeInv_Init == Init => TypeInv
<1> SUFFICES ASSUME Init PROVE TypeInv
  OBVIOUS
<1> USE TrainingAssumption, AnchorAssumption, StatesAssumption DEF Init
<1>1. AnchorInv
  BY AnchorInvInit
<1>2. RowsOK
  <2>1. 0 \in Chunks /\ 0 \in 0..RejectCap /\ 0 \in 0..NChunks
    BY DEF Chunks
  <2>2. chunk \in [Chunks -> [state : ChunkStates, attempts : 0..RejectCap]]
    BY <2>1 DEF ChunkStates
  <2>3. result \in [Results -> [state : {"none", "passed", "failed"}, chunk : Chunks,
                                final : Digests, kept : BOOLEAN]]
    BY <2>1
  <2>4. row \in [latest : Digests, done : 0..NChunks, flagged : BOOLEAN]
    BY <2>1
  <2> QED
    BY <2>2, <2>3, <2>4 DEF RowsOK
<1>3. Control
  <2>1. pc \in [Procs -> Steps] /\ rid \in [Procs -> Results \cup {NoResult}] /\ todo \subseteq Results
    BY DEF Steps
  <2>2. HasRow /\ Roles
    BY DEF HasRow, Roles, Free, Procs, Delivering
  <2> QED
    BY <2>1, <2>2 DEF Control
<1>4. Notes
  <2>1. origin \in [Handlers -> Digests] /\ seenSlot \in 0..MaxSlot /\ failures \in 0..MaxFailures
    OBVIOUS
  <2>2. crossed \in BOOLEAN /\ overlapped \in BOOLEAN
    BY Zenon
  <2> QED
    BY <2>1, <2>2 DEF Notes
<1>5. Grown
  <2>1. Cardinality(Taken) \in Nat
    BY Taken_Count
  <2>2. Origin \in [1..0 -> BOOLEAN]
    OBVIOUS
  <2>3. Origin \in States(Cardinality(Taken))
    BY <2>1, <2>2 DEF States
  <2> QED
    BY <2>3 DEF Grown
<1> QED
  BY <1>1, <1>2, <1>3, <1>4, <1>5 DEF TypeInv
-----------------------------------------------------------------------------
\* Every step but Passes leaves the results as they are, save for a state that
\* is stored and a verdict that is taken back.
SameResults ==
    \A r \in Results : /\ result'[r].state = "none" <=> result[r].state = "none"
                       /\ result'[r].chunk = result[r].chunk
                       /\ result'[r].final = result[r].final

LEMMA Same_Taken == SameResults => Taken' = Taken
  BY DEF SameResults, Taken

LEMMA Same_Grown ==
  ASSUME TypeInv, SameResults,
         row'.latest = row.latest \/ \E r \in Results : row'.latest = result[r].final
  PROVE  Grown'
<1>1. Taken' = Taken
  BY Same_Taken
<1> DEFINE n == Cardinality(Taken)
<1>2. n' = n
  BY <1>1
<1> HIDE DEF n
<1>3. row.latest \in States(n) /\ \A r \in Results : result[r].final \in States(n)
  BY DEF TypeInv, Grown, n
<1>4. row'.latest \in States(n) /\ \A r \in Results : result'[r].final \in States(n)
  BY <1>3 DEF SameResults
<1> QED
  BY <1>1, <1>4 DEF Grown, n, States

\* What a step keeps of the processes it does not touch.
Keeps == \A r \in Taken : r \in Taken' /\ result'[r].chunk = result[r].chunk

LEMMA Same_Keeps == ASSUME SameResults PROVE Keeps
  BY Same_Taken DEF Keeps, SameResults, Taken

LEMMA Move_Control ==
  ASSUME TypeInv, Keeps, NEW p \in Procs, NEW from, NEW to \in Steps, Move(p, from, to),
         from \notin Free \/ to \in Free,
         to = "roll" => ChunkOf(p) + 1 < NChunks,
         p = Sweeper => to \notin Delivering,
         p \in Handlers => to \in Delivering \cup Finalizing \cup {"idle", "count", "close"}
  PROVE  Control'
<1>1. /\ pc[p] = from /\ pc' = [pc EXCEPT ![p] = to]
      /\ rid' = rid /\ todo' = todo
  BY DEF Move
<1>2. /\ pc' \in [Procs -> Steps] /\ rid' \in [Procs -> Results \cup {NoResult}]
      /\ todo' \subseteq Results
  BY <1>1 DEF TypeInv, Control
<1>3. HasRow'
  <2>1. \A q \in Procs : rid[q] # NoResult \/ pc'[q] \notin Free => rid[q] \in Taken
    BY <1>1 DEF TypeInv, Control, HasRow
  <2>2. \A q \in Procs : pc'[q] = "roll" => result[rid[q]].chunk + 1 < NChunks
    BY <1>1 DEF TypeInv, Control, HasRow, ChunkOf
  <2>3. \A q \in Procs : pc'[q] = "roll" => rid[q] \in Taken
    BY <2>1 DEF Free
  <2> QED
    BY <1>1, <2>1, <2>2, <2>3 DEF TypeInv, Control, HasRow, ChunkOf, Keeps
<1>4. Roles'
  BY <1>1 DEF TypeInv, Control, Roles, Procs
<1> QED
  BY <1>2, <1>3, <1>4 DEF Control

LEMMA Same_Control ==
  ASSUME TypeInv, Keeps, UNCHANGED <<pc, rid, todo>>
  PROVE  Control'
<1>1. HasRow
  BY DEF TypeInv, Control
<1>2. todo \subseteq Taken' /\ \A p \in Procs : rid[p] # NoResult \/ pc[p] \notin Free => rid[p] \in Taken'
  BY <1>1 DEF HasRow, Keeps
<1>3. \A p \in Procs : pc[p] = "roll" => result'[rid[p]].chunk + 1 < NChunks
  <2>1. \A p \in Procs : pc[p] = "roll" => rid[p] \in Taken /\ result[rid[p]].chunk + 1 < NChunks
    BY <1>1 DEF HasRow, ChunkOf, Free
  <2> QED
    BY <2>1 DEF Keeps
<1>4. HasRow'
  BY <1>2, <1>3 DEF HasRow, ChunkOf
<1>5. Roles'
  BY DEF TypeInv, Control, Roles
<1> QED
  BY <1>4, <1>5 DEF TypeInv, Control

LEMMA Finish_Control ==
  ASSUME TypeInv, Keeps, NEW p \in Procs, NEW from, Finish(p, from)
  PROVE  Control'
<1>1. /\ pc' = [pc EXCEPT ![p] = "idle"]
      /\ rid' = [rid EXCEPT ![p] = NoResult] /\ todo' = todo
  BY DEF Finish
<1>2. /\ pc' \in [Procs -> Steps] /\ rid' \in [Procs -> Results \cup {NoResult}]
      /\ todo' \subseteq Results
  BY <1>1 DEF TypeInv, Control, Steps
<1>3. HasRow'
  BY <1>1 DEF TypeInv, Control, HasRow, ChunkOf, Keeps, Free
<1>4. Roles'
  BY <1>1 DEF TypeInv, Control, Roles, Procs, Delivering
<1> QED
  BY <1>2, <1>3, <1>4 DEF Control

LEMMA Begin_Control ==
  ASSUME TypeInv, Keeps, NEW p \in Procs, NEW r \in Taken, NEW to \in Steps, Begin(p, r, to),
         to # "roll",
         p = Sweeper => to \notin Delivering,
         p \in Handlers => to \in Delivering
  PROVE  Control'
<1>1. /\ pc' = [pc EXCEPT ![p] = to]
      /\ rid' = [rid EXCEPT ![p] = r] /\ todo' = todo /\ r \in Results
  BY DEF Begin, Taken
<1>2. /\ pc' \in [Procs -> Steps] /\ rid' \in [Procs -> Results \cup {NoResult}]
      /\ todo' \subseteq Results
  BY <1>1 DEF TypeInv, Control
<1>3. HasRow'
  BY <1>1 DEF TypeInv, Control, HasRow, ChunkOf, Keeps, Free
<1>4. Roles'
  BY <1>1 DEF TypeInv, Control, Roles, Procs
<1> QED
  BY <1>2, <1>3, <1>4 DEF Control

\* A step that leaves the tables alone.
LEMMA Rows_Same ==
  ASSUME TypeInv, UNCHANGED rows
  PROVE  RowsOK' /\ SameResults /\ Grown' /\ Keeps
<1>1. SameResults /\ row' = row
  BY DEF rows, SameResults
<1>2. RowsOK'
  BY DEF TypeInv, RowsOK, rows
<1> QED
  BY <1>1, <1>2, Same_Grown, Same_Keeps

LEMMA Notes_Same ==
  ASSUME TypeInv, Smooth \/ Trouble, UNCHANGED <<origin, seenSlot>>
  PROVE  Notes'
<1>1. failures' = failures \/ (failures < MaxFailures /\ failures' = failures + 1)
  BY Zenon DEF Smooth, Trouble, history
<1>2. failures' \in 0..MaxFailures
  BY <1>1, TrainingAssumption DEF TypeInv, Notes
<1>3. crossed' \in BOOLEAN /\ overlapped' \in BOOLEAN
  <2>1. crossed' = crossed /\ overlapped' = overlapped
    BY Zenon DEF Smooth, Trouble, history, marks
  <2> QED
    BY <2>1, Zenon DEF TypeInv, Notes
<1> QED
  BY <1>2, <1>3 DEF TypeInv, Notes

LEMMA Notes_TakesUp ==
  ASSUME TypeInv, NEW S, TakesUp(S), UNCHANGED <<failures, crossed, origin, seenSlot>>
  PROVE  Notes'
<1>1. overlapped' = (overlapped \/ \E k \in S : Busy(k))
  BY Zenon DEF TakesUp
<1>2. overlapped' \in BOOLEAN
  BY <1>1, Zenon
<1> QED
  BY <1>2 DEF TypeInv, Notes

\* The conjuncts of TypeInv but the chain's own.
Rest == RowsOK /\ Control /\ Notes /\ Grown

\* The steps of a delivery, up to the point where it parks or finalizes.
LEMMA Delivery_Rest ==
  ASSUME TypeInv, NEW h \in Handlers,
         StoreState(h) \/ ReadOrigin(h) \/ FetchAnchor(h) \/ InitAnchor(h)
           \/ AssertTx(h) \/ ParkChunk(h)
  PROVE  Rest'
<1> USE DEF Free, Delivering, Finalizing, Steps
<1>h. h \in Procs /\ h # Sweeper
  BY TrainingAssumption DEF Procs
<1>1. CASE StoreState(h)
  <2>1. SameResults
    BY <1>1 DEF StoreState, TypeInv, RowsOK, SameResults
  <2>2. RowsOK'
    BY <1>1 DEF StoreState, TypeInv, RowsOK
  <2>3. Grown' /\ Keeps
    BY <1>1, <2>1, Same_Grown, Same_Keeps DEF StoreState
  <2>4. Control'
    BY <1>h, <1>1, <2>3, Move_Control DEF StoreState
  <2>5. Notes'
    BY <1>1, Notes_Same DEF StoreState
  <2> QED
    BY <2>2, <2>3, <2>4, <2>5 DEF Rest
<1>2. CASE ReadOrigin(h)
  <2>1. RowsOK' /\ Grown' /\ Keeps
    BY <1>2, Rows_Same DEF ReadOrigin
  <2>2. Control'
    BY <1>h, <1>2, <2>1, Move_Control DEF ReadOrigin
  <2>3. OriginOf(ChunkOf(h)) \in Digests
    BY AnchorAssumption DEF OriginOf, TypeInv, RowsOK
  <2>4. Notes'
    BY <1>2, <2>3 DEF ReadOrigin, TypeInv, Notes, Smooth, history, marks
  <2> QED
    BY <2>1, <2>2, <2>4 DEF Rest
<1>3. CASE FetchAnchor(h) \/ InitAnchor(h) \/ AssertTx(h)
  <2>1. RowsOK' /\ Grown' /\ Keeps
    BY <1>3, Rows_Same DEF FetchAnchor, InitAnchor, AssertTx
  <2>2. CASE FetchAnchor(h)
    BY <1>h, <2>1, <2>2, Move_Control, Notes_Same DEF FetchAnchor, Rest
  <2>3. CASE InitAnchor(h)
    BY <1>h, <2>1, <2>3, Move_Control, Notes_Same DEF InitAnchor, Rest
  <2>4. CASE AssertTx(h)
    BY <1>h, <2>1, <2>4, Move_Control, Notes_Same DEF AssertTx, Rest
  <2> QED
    BY <1>3, <2>2, <2>3, <2>4
<1>4. CASE ParkChunk(h)
  <2>1. SameResults
    BY <1>4 DEF ParkChunk, SameResults
  <2>2. Grown' /\ Keeps
    BY <1>4, <2>1, Same_Grown, Same_Keeps DEF ParkChunk
  <2>3. Control'
    BY <1>h, <1>4, <2>2, Finish_Control DEF ParkChunk
  <2>4. RowsOK'
    BY <1>4 DEF ParkChunk, SetChunk, TypeInv, RowsOK, ChunkStates
  <2>5. Notes'
    BY <1>4, Notes_Same DEF ParkChunk
  <2> QED
    BY <2>2, <2>3, <2>4, <2>5 DEF Rest
<1> QED
  BY <1>1, <1>2, <1>3, <1>4

\* finalizeTrainingChunk and maybeCompleteJob, by whichever process.
LEMMA Finalize_Rest ==
  ASSUME TypeInv, NEW p \in Procs, Finalize(p)
  PROVE  Rest'
<1> USE DEF Free, Delivering, Finalizing, Steps
<1>1. CASE AdvanceLineage(p)
  <2>1. rid[p] \in Taken /\ rid[p] \in Results
    BY <1>1 DEF AdvanceLineage, Move, TypeInv, Control, HasRow, Taken
  <2>2. SameResults
    BY <1>1 DEF AdvanceLineage, SameResults
  <2>3. row' = [row EXCEPT !.latest = result[rid[p]].final, !.done = ChunkOf(p) + 1]
    BY <1>1 DEF AdvanceLineage
  <2>4. row'.latest = result[rid[p]].final
    BY <2>3 DEF TypeInv, RowsOK
  <2>5. Grown' /\ Keeps
    BY <2>1, <2>2, <2>4, Same_Grown, Same_Keeps
  <2>6. Control'
    BY <1>1, <2>5, Move_Control, TrainingAssumption DEF AdvanceLineage, Procs
  <2>7. ChunkOf(p) + 1 \in 0..NChunks /\ result[rid[p]].final \in Digests
    <3>1. ChunkOf(p) \in Chunks /\ result[rid[p]].final \in Digests
      BY <2>1 DEF TypeInv, RowsOK, ChunkOf
    <3> QED
      BY <3>1, TrainingAssumption DEF Chunks
  <2>8. RowsOK'
    BY <1>1, <2>3, <2>7 DEF AdvanceLineage, TypeInv, RowsOK
  <2>9. Notes'
    BY <1>1, Notes_Same DEF AdvanceLineage
  <2> QED
    BY <2>5, <2>6, <2>8, <2>9 DEF Rest
<1>2. CASE RollSuccessor(p) \/ AcceptChunk(p)
  <2>1. SameResults
    BY <1>2 DEF RollSuccessor, AcceptChunk, SameResults
  <2>2. Grown' /\ Keeps
    BY <1>2, <2>1, Same_Grown, Same_Keeps DEF RollSuccessor, AcceptChunk
  <2>3. Control'
    BY <1>2, <2>2, Move_Control, TrainingAssumption DEF RollSuccessor, AcceptChunk, Procs
  <2>4. RowsOK'
    BY <1>2 DEF RollSuccessor, AcceptChunk, SetChunk, TypeInv, RowsOK, ChunkStates
  <2>5. Notes'
    BY <1>2, Notes_Same DEF RollSuccessor, AcceptChunk
  <2> QED
    BY <2>2, <2>3, <2>4, <2>5 DEF Rest
<1>3. CASE CreditEarnings(p)
  <2>1. SameResults
    BY <1>3 DEF CreditEarnings, SameResults
  <2>2. Grown' /\ Keeps
    BY <1>3, <2>1, Same_Grown, Same_Keeps DEF CreditEarnings
  <2>3. Control'
    BY <1>3, <2>2, Move_Control, TrainingAssumption DEF CreditEarnings, Procs
  <2>4. RowsOK'
    <3>1. paid' = [paid EXCEPT ![rid[p]] = paid[rid[p]] + 1] /\ paid \in [Results -> Nat]
      BY <1>3 DEF CreditEarnings, TypeInv, RowsOK
    <3>2. rid[p] \in Results
      BY <1>3 DEF CreditEarnings, Move, TypeInv, Control, HasRow, Taken
    <3>3. paid' \in [Results -> Nat]
      BY <3>1, <3>2
    <3> QED
      BY <1>3, <3>3 DEF CreditEarnings, TypeInv, RowsOK
  <2>5. Notes'
    BY <1>3, Notes_Same DEF CreditEarnings
  <2> QED
    BY <2>2, <2>3, <2>4, <2>5 DEF Rest
<1>4. CASE CountRemaining(p)
  <2>1. RowsOK' /\ Grown' /\ Keeps
    BY <1>4, Rows_Same DEF CountRemaining
  <2>2. Control'
    BY <1>4, <2>1, Move_Control, Finish_Control, TrainingAssumption DEF CountRemaining, Procs
  <2>3. Notes'
    BY <1>4, Notes_Same DEF CountRemaining
  <2> QED
    BY <2>1, <2>2, <2>3 DEF Rest
<1>5. CASE CloseJob(p)
  <2>1. SameResults
    BY <1>5 DEF CloseJob, SameResults
  <2>2. Grown' /\ Keeps
    BY <1>5, <2>1, Same_Grown, Same_Keeps DEF CloseJob
  <2>3. Control'
    BY <1>5, <2>2, Finish_Control DEF CloseJob
  <2>4. RowsOK'
    BY <1>5 DEF CloseJob, TypeInv, RowsOK
  <2>5. Notes'
    BY <1>5, Notes_Same DEF CloseJob
  <2> QED
    BY <2>2, <2>3, <2>4, <2>5 DEF Rest
<1> QED
  BY <1>1, <1>2, <1>3, <1>4, <1>5 DEF Finalize

LEMMA Attempts_Type ==
  ASSUME RowsOK, NEW r \in Results
  PROVE  Attempts(result[r].chunk) \in 0..RejectCap
<1>1. result[r].chunk \in Chunks
  BY DEF RowsOK
<1>2. chunk[result[r].chunk].attempts \in 0..RejectCap
  BY <1>1 DEF RowsOK
<1> QED
  BY <1>2, TrainingAssumption DEF Attempts

\* The sweep's confirmation of a chunk: fetch, replay, confirm or reject.
LEMMA Confirm_Rest ==
  ASSUME TypeInv,
         FetchAssertion \/ Replay \/ ConfirmTx \/ RejectTx \/ SlashWorker
           \/ CountAttempt \/ QuarantineChunk \/ FlagLineage \/ Repool
  PROVE  Rest'
<1> USE TrainingAssumption DEF Free, Delivering, Finalizing, Steps
<1>s. Sweeper \in Procs /\ Sweeper \notin Handlers
  BY DEF Procs
<1>1. CASE FetchAssertion \/ Replay \/ ConfirmTx \/ RejectTx
  <2>1. RowsOK' /\ Grown' /\ Keeps
    BY <1>1, Rows_Same DEF FetchAssertion, Replay, ConfirmTx, RejectTx
  <2>2. Notes'
    BY <1>1, Notes_Same DEF FetchAssertion, Replay, ConfirmTx, RejectTx
  <2>3. CASE FetchAssertion
    BY <1>s, <2>1, <2>2, <2>3, Move_Control, Finish_Control DEF FetchAssertion, Rest
  <2>4. CASE Replay
    BY <1>s, <2>1, <2>2, <2>4, Move_Control, Finish_Control DEF Replay, Rest
  <2>5. CASE ConfirmTx
    BY <1>s, <2>1, <2>2, <2>5, Move_Control, Finish_Control DEF ConfirmTx, Rest
  <2>6. CASE RejectTx
    BY <1>s, <2>1, <2>2, <2>6, Move_Control DEF RejectTx, Rest
  <2> QED
    BY <1>1, <2>3, <2>4, <2>5, <2>6
<1>2. CASE SlashWorker
  <2>1. SameResults
    BY <1>2 DEF SlashWorker, SameResults
  <2>2. Grown' /\ Keeps
    BY <1>2, <2>1, Same_Grown, Same_Keeps DEF SlashWorker
  <2>3. Control'
    BY <1>s, <1>2, <2>2, Move_Control DEF SlashWorker
  <2>4. rid[Sweeper] \in Results
    BY <1>s, <1>2 DEF SlashWorker, Move, TypeInv, Control, HasRow, Taken
  <2>5. RowsOK'
    BY <1>2, <2>4 DEF SlashWorker, TypeInv, RowsOK
  <2>6. Notes'
    BY <1>2, Notes_Same DEF SlashWorker
  <2> QED
    BY <2>2, <2>3, <2>5, <2>6 DEF Rest
<1>3. CASE CountAttempt
  <2>1. SameResults
    BY <1>3 DEF CountAttempt, SameResults
  <2>2. Grown' /\ Keeps
    BY <1>3, <2>1, Same_Grown, Same_Keeps DEF CountAttempt
  <2>3. Control'
    BY <1>s, <1>3, <2>2, Move_Control DEF CountAttempt
  <2>4. Attempts(ChunkOf(Sweeper)) \in 0..RejectCap
    BY <1>s, <1>3, Attempts_Type DEF CountAttempt, Move, TypeInv, Control, HasRow, Taken, ChunkOf
  <2>5. RowsOK'
    BY <1>3, <2>4 DEF CountAttempt, TypeInv, RowsOK
  <2>6. Notes'
    BY <1>3, Notes_Same DEF CountAttempt
  <2> QED
    BY <2>2, <2>3, <2>5, <2>6 DEF Rest
<1>4. CASE QuarantineChunk \/ Repool
  <2>1. SameResults
    BY <1>4 DEF QuarantineChunk, Repool, SameResults
  <2>2. Grown' /\ Keeps
    BY <1>4, <2>1, Same_Grown, Same_Keeps DEF QuarantineChunk, Repool
  <2>3. Control'
    BY <1>s, <1>4, <2>2, Move_Control, Finish_Control DEF QuarantineChunk, Repool
  <2>4. RowsOK'
    BY <1>4 DEF QuarantineChunk, Repool, SetChunk, TypeInv, RowsOK, ChunkStates
  <2>5. Notes'
    BY <1>4, Notes_Same DEF QuarantineChunk, Repool
  <2> QED
    BY <2>2, <2>3, <2>4, <2>5 DEF Rest
<1>5. CASE FlagLineage
  <2>1. SameResults /\ row' = [row EXCEPT !.flagged = TRUE]
    BY <1>5 DEF FlagLineage, SameResults
  <2>2. row'.latest = row.latest /\ row' \in [latest : Digests, done : 0..NChunks, flagged : BOOLEAN]
    BY <2>1 DEF TypeInv, RowsOK
  <2>3. Grown' /\ Keeps
    BY <2>1, <2>2, Same_Grown, Same_Keeps
  <2>4. Control'
    BY <1>s, <1>5, <2>3, Move_Control DEF FlagLineage
  <2>5. RowsOK'
    BY <1>5, <2>2 DEF FlagLineage, TypeInv, RowsOK
  <2>6. Notes'
    BY <1>5, Notes_Same DEF FlagLineage
  <2> QED
    BY <2>3, <2>4, <2>5, <2>6 DEF Rest
<1> QED
  BY <1>1, <1>2, <1>3, <1>4, <1>5

\* The deadlines of deliveries, and a process that fails.
LEMMA Expire_Rest ==
  ASSUME TypeInv,
         SelectUndelivered \/ ExpireStep \/ \E p \in Procs : ProcessFails(p)
  PROVE  Rest'
<1> USE TrainingAssumption DEF Free, Delivering, Finalizing, Steps
<1>s. Sweeper \in Procs /\ Sweeper \notin Handlers
  BY DEF Procs
<1>1. CASE SelectUndelivered
  <2>1. RowsOK' /\ Grown' /\ Keeps
    BY <1>1, Rows_Same DEF SelectUndelivered
  <2>2. Notes'
    BY <1>1, Notes_TakesUp DEF SelectUndelivered
  <2>3. todo' \subseteq Taken
    BY <1>1 DEF SelectUndelivered, Awaited, Taken
  <2>4. rid' = rid /\ pc' = [pc EXCEPT ![Sweeper] = "expire"] /\ UNCHANGED result
    BY <1>1 DEF SelectUndelivered, rows
  <2>5. Control'
    <3>1. pc' \in [Procs -> Steps] /\ rid' \in [Procs -> Results \cup {NoResult}] /\ todo' \subseteq Results
      BY <2>3, <2>4 DEF TypeInv, Control, Taken
    <3>2. HasRow'
      BY <2>1, <2>3, <2>4 DEF TypeInv, Control, HasRow, ChunkOf, Keeps
    <3>3. Roles'
      BY <1>s, <2>4 DEF TypeInv, Control, Roles
    <3> QED
      BY <3>1, <3>2, <3>3 DEF Control
  <2> QED
    BY <2>1, <2>2, <2>5 DEF Rest
<1>2. ASSUME NEW r \in Results, ExpireDelivery(r) PROVE Rest'
  <2>1. r \in Taken
    BY <1>2 DEF ExpireDelivery, TypeInv, Control, HasRow
  <2>2. result' = [result EXCEPT ![r].state = "failed"]
    BY <1>2 DEF ExpireDelivery
  <2>3. SameResults
    BY <2>1, <2>2 DEF SameResults, Taken, TypeInv, RowsOK
  <2>4. Grown' /\ Keeps
    BY <1>2, <2>3, Same_Grown, Same_Keeps DEF ExpireDelivery
  <2>5. RowsOK'
    BY <1>2 DEF ExpireDelivery, TypeInv, RowsOK
  <2>6. Notes'
    BY <1>2, Notes_Same DEF ExpireDelivery
  <2>7. /\ pc' = [pc EXCEPT ![Sweeper] = "expireChunk"]
        /\ rid' = [rid EXCEPT ![Sweeper] = r] /\ todo' = todo \ {r}
    BY <1>2 DEF ExpireDelivery
  <2>8. Control'
    <3>1. pc' \in [Procs -> Steps] /\ rid' \in [Procs -> Results \cup {NoResult}] /\ todo' \subseteq Results
      BY <2>7 DEF TypeInv, Control
    <3>2. HasRow'
      BY <2>1, <2>4, <2>7 DEF TypeInv, Control, HasRow, ChunkOf, Keeps
    <3>3. Roles'
      BY <1>s, <2>7 DEF TypeInv, Control, Roles
    <3> QED
      BY <3>1, <3>2, <3>3 DEF Control
  <2> QED
    BY <2>4, <2>5, <2>6, <2>8 DEF Rest
<1>3. CASE ExpireChunk
  <2>1. SameResults
    BY <1>3 DEF ExpireChunk, SameResults
  <2>2. Grown' /\ Keeps
    BY <1>3, <2>1, Same_Grown, Same_Keeps DEF ExpireChunk
  <2>3. Attempts(ChunkOf(Sweeper)) \in 0..RejectCap
    BY <1>s, <1>3, Attempts_Type DEF ExpireChunk, TypeInv, Control, HasRow, Taken, ChunkOf
  <2>4. RowsOK'
    BY <1>3, <2>3 DEF ExpireChunk, TypeInv, RowsOK, ChunkStates
  <2>5. Notes'
    BY <1>3, Notes_Same DEF ExpireChunk
  <2>6. /\ pc' = [pc EXCEPT ![Sweeper] = IF todo = {} THEN "idle" ELSE "expire"]
        /\ rid' = [rid EXCEPT ![Sweeper] = NoResult] /\ todo' = todo
    BY <1>3 DEF ExpireChunk
  <2>7. Control'
    <3>1. pc' \in [Procs -> Steps] /\ rid' \in [Procs -> Results \cup {NoResult}] /\ todo' \subseteq Results
      BY <2>6 DEF TypeInv, Control
    <3>2. HasRow'
      BY <2>2, <2>6 DEF TypeInv, Control, HasRow, ChunkOf, Keeps
    <3>3. Roles'
      BY <1>s, <2>6 DEF TypeInv, Control, Roles
    <3> QED
      BY <3>1, <3>2, <3>3 DEF Control
  <2> QED
    BY <2>2, <2>4, <2>5, <2>7 DEF Rest
<1>4. ASSUME NEW p \in Procs, ProcessFails(p) PROVE Rest'
  <2>1. RowsOK' /\ Grown' /\ Keeps
    BY <1>4, Rows_Same DEF ProcessFails
  <2>2. Notes'
    BY <1>4, Notes_Same DEF ProcessFails
  <2>3. /\ pc' = [pc EXCEPT ![p] = "idle"]
        /\ rid' = [rid EXCEPT ![p] = NoResult] /\ todo' \in {{}, todo}
    BY <1>4 DEF ProcessFails
  <2>4. Control'
    <3>1. pc' \in [Procs -> Steps] /\ rid' \in [Procs -> Results \cup {NoResult}] /\ todo' \subseteq Results
      BY <2>3 DEF TypeInv, Control
    <3>2. HasRow'
      BY <2>1, <2>3 DEF TypeInv, Control, HasRow, ChunkOf, Keeps
    <3>3. Roles'
      BY <1>s, <2>3 DEF TypeInv, Control, Roles
    <3> QED
      BY <3>1, <3>2, <3>3 DEF Control
  <2> QED
    BY <2>1, <2>2, <2>4 DEF Rest
<1> QED
  BY <1>1, <1>2, <1>3, <1>4 DEF ExpireStep

\* A result that passes, a delivery or a check of it that begins.
LEMMA Begin_Rest ==
  ASSUME TypeInv,
         \/ \E r \in Results, k \in Chunks, sound \in BOOLEAN : Passes(r, k, sound)
         \/ \E h \in Handlers : CompleteOther(h) \/ \E r \in Results : StartDeliver(h, r)
         \/ \E r \in Results : SelectParked(r) \/ Reaudit(r)
         \/ Tick
  PROVE  Rest'
<1> USE TrainingAssumption DEF Free, Delivering, Finalizing, Steps
<1>s. Sweeper \in Procs /\ Sweeper \notin Handlers /\ Handlers \subseteq Procs
  BY DEF Procs
<1>1. ASSUME NEW r \in Results, NEW k \in Chunks, NEW sound \in BOOLEAN, Passes(r, k, sound)
      PROVE  Rest'
  <2> DEFINE n == Cardinality(Taken)
             s == OriginOf(k)
  <2>1. PICK b \in BOOLEAN :
          result' = [result EXCEPT ![r] = [state |-> "passed", chunk |-> k, kept |-> FALSE,
                                           final |-> Append(s, b)]]
    BY <1>1 DEF Passes, AdvanceState
  <2>2. r \notin Taken /\ Taken' = Taken \cup {r}
    BY <1>1, <2>1 DEF Passes, Taken, TypeInv, RowsOK
  <2>3. n \in Nat /\ n + 1 = Cardinality(Taken)' /\ n + 1 <= Cardinality(Results)
    <3>1. Cardinality(Taken \cup {r}) = n + 1
      BY <2>2, Taken_Count, FS_AddElement
    <3>2. Taken \cup {r} \subseteq Results
      BY DEF Taken
    <3>3. Cardinality(Taken \cup {r}) <= Cardinality(Results)
      BY <3>2, StatesAssumption, FS_Subset
    <3> QED
      BY <2>2, <3>1, <3>3, Taken_Count
  <2> HIDE DEF n
  <2>4. s \in States(n)
    BY StatesAssumption, <2>3 DEF TypeInv, Grown, n, OriginOf, States
  <2> HIDE DEF s
  <2>5. Append(s, b) \in States(n + 1) /\ States(n) \subseteq States(n + 1)
    BY <2>3, <2>4, States_Append, States_Grow
  <2>6. Append(s, b) \in Digests
    BY <2>3, <2>5, States_Digests
  <2> DEFINE new == [state |-> "passed", chunk |-> k, kept |-> FALSE, final |-> Append(s, b)]
  <2>7. /\ new \in [state : {"none", "passed", "failed"}, chunk : Chunks, final : Digests, kept : BOOLEAN]
        /\ new.final = Append(s, b) /\ result' = [result EXCEPT ![r] = new]
    BY <2>1, <2>6
  <2> HIDE DEF new
  <2>8. Grown'
    <3>1. /\ row.latest \in States(n + 1)
          /\ \A q \in Results : result'[q].final \in States(n + 1)
      BY <2>5, <2>7 DEF TypeInv, Grown, n, RowsOK
    <3>2. row' = row
      BY <1>1 DEF Passes
    <3> QED
      BY <2>3, <3>1, <3>2 DEF Grown, States
  <2>9. RowsOK'
    <3>1. PICK a \in chunk[k].attempts..RejectCap :
            chunk' = [chunk EXCEPT ![k] = [state |-> "awaiting_outputs", attempts |-> a]]
      BY <1>1 DEF Passes
    <3>2. a \in 0..RejectCap
      <4>1. chunk[k].attempts \in 0..RejectCap
        BY DEF TypeInv, RowsOK
      <4> QED
        BY <4>1
    <3>3. chunk' \in [Chunks -> [state : ChunkStates, attempts : 0..RejectCap]]
      BY <3>1, <3>2 DEF TypeInv, RowsOK, ChunkStates
    <3>4. result' \in [Results -> [state : {"none", "passed", "failed"}, chunk : Chunks,
                                   final : Digests, kept : BOOLEAN]]
      BY <2>7 DEF TypeInv, RowsOK
    <3> QED
      BY <1>1, <3>3, <3>4 DEF Passes, TypeInv, RowsOK
  <2>10. Keeps
    BY <2>2, <2>7 DEF Keeps, TypeInv, RowsOK, Taken
  <2>11. UNCHANGED <<pc, rid, todo, origin, seenSlot, failures, crossed>> /\ TakesUp({k})
    BY <1>1, Zenon DEF Passes, procs
  <2>12. Control'
    BY <2>10, <2>11, Same_Control
  <2>13. Notes'
    BY <2>11, Notes_TakesUp
  <2> QED
    BY <2>8, <2>9, <2>12, <2>13 DEF Rest
<1>2. ASSUME NEW h \in Handlers, CompleteOther(h) PROVE Rest'
  <2>1. RowsOK' /\ Grown' /\ Keeps
    BY <1>2, Rows_Same DEF CompleteOther
  <2>2. Notes'
    BY <1>2, Notes_Same DEF CompleteOther
  <2>3. Move(h, "idle", "count")
    BY <1>2 DEF CompleteOther, Move
  <2>4. Control'
    BY <1>s, <2>1, <2>3, Move_Control
  <2> QED
    BY <2>1, <2>2, <2>4 DEF Rest
<1>3. ASSUME NEW h \in Handlers, NEW r \in Results, StartDeliver(h, r) PROVE Rest'
  <2>1. RowsOK' /\ Grown' /\ Keeps
    BY <1>3, Rows_Same DEF StartDeliver
  <2>2. Notes'
    <3>1. TakesUp({result[r].chunk}) /\ UNCHANGED <<failures, crossed, origin, seenSlot>>
      BY <1>3 DEF StartDeliver
    <3> QED
      BY <3>1, Notes_TakesUp
  <2>3. r \in Taken
    BY <1>3 DEF StartDeliver, Taken
  <2>4. Control'
    BY <1>s, <1>3, <2>1, <2>3, Begin_Control DEF StartDeliver
  <2> QED
    BY <2>1, <2>2, <2>4 DEF Rest
<1>4. ASSUME NEW r \in Results, SelectParked(r) PROVE Rest'
  <2>1. RowsOK' /\ Grown' /\ Keeps
    BY <1>4, Rows_Same DEF SelectParked
  <2>2. r \in Taken
    BY <1>4 DEF SelectParked, Parked, Taken
  <2>3. Control'
    BY <1>s, <1>4, <2>1, <2>2, Begin_Control DEF SelectParked
  <2>4. seenSlot' = slot /\ failures' = failures /\ origin' = origin
    BY <1>4 DEF SelectParked
  <2>5. crossed' \in BOOLEAN
    <3>1. crossed' = (crossed \/ Foreign(r))
      BY <1>4, Zenon DEF SelectParked
    <3> QED
      BY <3>1, Zenon
  <2>7. overlapped' \in BOOLEAN
    <3>1. overlapped' = (overlapped \/ \E k \in {result[r].chunk} : Busy(k))
      BY <1>4, Zenon DEF SelectParked, TakesUp
    <3> QED
      BY <3>1, Zenon
  <2>6. Notes'
    BY <2>4, <2>5, <2>7 DEF Notes, TypeInv, AnchorInv, LineageTypeOK
  <2> QED
    BY <2>1, <2>3, <2>6 DEF Rest
<1>5. ASSUME NEW r \in Results, Reaudit(r) PROVE Rest'
  <2>1. SameResults /\ row' = [row EXCEPT !.flagged = TRUE]
    BY <1>5 DEF Reaudit, SameResults
  <2>2. row'.latest = row.latest /\ row' \in [latest : Digests, done : 0..NChunks, flagged : BOOLEAN]
    BY <2>1 DEF TypeInv, RowsOK
  <2>3. Grown' /\ Keeps
    BY <2>1, <2>2, Same_Grown, Same_Keeps
  <2>4. RowsOK'
    BY <1>5, <2>2 DEF Reaudit, TypeInv, RowsOK
  <2>5. UNCHANGED <<pc, rid, todo, origin, seenSlot>> /\ Smooth
    BY <1>5, Zenon DEF Reaudit, procs, Smooth
  <2>6. Control'
    BY <2>3, <2>5, Same_Control
  <2>7. Notes'
    BY <2>5, Notes_Same
  <2> QED
    BY <2>3, <2>4, <2>6, <2>7 DEF Rest
<1>6. CASE Tick
  <2>1. RowsOK' /\ Grown' /\ Keeps
    BY <1>6, Rows_Same DEF Tick
  <2>2. UNCHANGED <<pc, rid, todo, origin, seenSlot>> /\ Smooth
    BY <1>6, Zenon DEF Tick, procs, Smooth
  <2>3. Control'
    BY <2>1, <2>2, Same_Control
  <2>4. Notes'
    BY <2>2, Notes_Same
  <2> QED
    BY <2>1, <2>3, <2>4 DEF Rest
<1> QED
  BY <1>1, <1>2, <1>3, <1>4, <1>5, <1>6

\* Each step on chain that a delivery or the sweep takes is one of the
\* transactions of LineageAnchor; the others leave the chain alone.
LEMMA Step_Anchor == TypeInv /\ [Next]_vars => [AnchorNext]_anchorVars
<1> SUFFICES ASSUME TypeInv, [Next]_vars PROVE [AnchorNext]_anchorVars
  OBVIOUS
<1> USE TrainingAssumption, AnchorAssumption
<1>0. CASE UNCHANGED vars
  BY <1>0 DEF vars
<1>1. ASSUME NEW r \in Results, NEW k \in Chunks, NEW sound \in BOOLEAN, Passes(r, k, sound)
      PROVE  UNCHANGED anchorVars
  BY <1>1 DEF Passes
<1>2. ASSUME NEW h \in Handlers, CompleteOther(h) \/ \E r \in Results : StartDeliver(h, r)
      PROVE  UNCHANGED anchorVars
  BY <1>2 DEF CompleteOther, StartDeliver
<1>3. ASSUME NEW p \in Procs, Finalize(p) \/ ProcessFails(p)
      PROVE  UNCHANGED anchorVars
  BY <1>3 DEF Finalize, ProcessFails, AdvanceLineage, RollSuccessor, AcceptChunk,
              CreditEarnings, CountRemaining, CloseJob
<1>4. ASSUME NEW h \in Handlers, DeliverStep(h) PROVE [AnchorNext]_anchorVars
  <2>h. h \in Procs
    BY DEF Procs
  <2>1. CASE StoreState(h) \/ ReadOrigin(h) \/ FetchAnchor(h) \/ ParkChunk(h)
    BY <2>1 DEF StoreState, ReadOrigin, FetchAnchor, ParkChunk
  <2>2. CASE InitAnchor(h)
    <3>1. origin[h] \in Digests
      BY DEF TypeInv, Notes
    <3> QED
      BY <2>2, <3>1 DEF InitAnchor, AnchorNext
  <2>3. CASE AssertTx(h)
    <3>1. rid[h] \in Results
      BY <2>3, <2>h DEF AssertTx, Free, Taken, TypeInv, Control, HasRow, Move
    <3>2. ChunkOf(h) \in Chunks /\ result[rid[h]].final \in Digests /\ origin[h] \in Digests
      BY <3>1 DEF TypeInv, RowsOK, ChunkOf, Notes
    <3>3. Start(ChunkOf(h)) \in Generations
      BY <3>2, Start_Generation
    <3>4. Buckets \in 0..MaxBuckets /\ Window \in Nat
      OBVIOUS
    <3> QED
      BY <2>3, <3>2, <3>3, <3>4, Zenon DEF AssertTx, AnchorNext
  <2> QED
    BY <1>3, <1>4, <2>h, <2>1, <2>2, <2>3 DEF DeliverStep
<1>5. ASSUME NEW r \in Results, SelectParked(r) \/ Reaudit(r) \/ ExpireDelivery(r)
      PROVE  UNCHANGED anchorVars
  BY <1>5 DEF SelectParked, Reaudit, ExpireDelivery
<1>6. CASE ConfirmStep
  <2>s. Sweeper \in Procs
    BY DEF Procs
  <2>g. ASSUME pc[Sweeper] \notin Free PROVE Start(ChunkOf(Sweeper)) \in Generations
    <3>1. rid[Sweeper] \in Results
      BY <2>s, <2>g DEF Taken, TypeInv, Control, HasRow
    <3>2. ChunkOf(Sweeper) \in Chunks
      BY <3>1 DEF TypeInv, RowsOK, ChunkOf
    <3> QED
      BY <3>2, Start_Generation
  <2>1. CASE FetchAssertion \/ Replay \/ SlashWorker \/ CountAttempt \/ QuarantineChunk
               \/ FlagLineage \/ Repool
    BY <2>1 DEF FetchAssertion, Replay, SlashWorker, CountAttempt, QuarantineChunk,
                FlagLineage, Repool
  <2>2. CASE ConfirmTx
    BY <2>2, <2>g, Zenon DEF ConfirmTx, AnchorNext, Free
  <2>3. CASE RejectTx
    BY <2>3, <2>g, Zenon DEF RejectTx, Move, AnchorNext, Free
  <2> QED
    BY <1>3, <1>6, <2>s, <2>1, <2>2, <2>3 DEF ConfirmStep
<1>7. CASE SelectUndelivered \/ ExpireChunk
  BY <1>7 DEF SelectUndelivered, ExpireChunk
<1>8. CASE Tick
  BY <1>8 DEF Tick, AnchorNext
<1>9. CASE UNCHANGED anchorVars
  BY <1>9
<1> QED
  BY <1>0, <1>1, <1>2, <1>3, <1>4, <1>5, <1>6, <1>7, <1>8, <1>9 DEF Next, ExpireStep

LEMMA TypeInv_Step == TypeInv /\ [Next]_vars => TypeInv'
<1> SUFFICES ASSUME TypeInv, [Next]_vars PROVE TypeInv'
  OBVIOUS
<1>1. AnchorInv'
  BY Step_Anchor, AnchorInvStep DEF TypeInv
<1>2. Rest'
  <2>1. CASE UNCHANGED vars
    <3>1. RowsOK' /\ Grown' /\ Keeps
      BY <2>1, Rows_Same DEF vars
    <3>2. UNCHANGED <<pc, rid, todo, origin, seenSlot>> /\ Smooth
      BY <2>1, Zenon DEF vars, procs, Smooth
    <3>3. Control'
      BY <3>1, <3>2, Same_Control
    <3>4. Notes'
      BY <3>2, Notes_Same
    <3> QED
      BY <3>1, <3>3, <3>4 DEF Rest
  <2>2. CASE \/ \E r \in Results, k \in Chunks, sound \in BOOLEAN : Passes(r, k, sound)
             \/ \E h \in Handlers : CompleteOther(h) \/ \E r \in Results : StartDeliver(h, r)
             \/ \E r \in Results : SelectParked(r) \/ Reaudit(r)
             \/ Tick
    BY <2>2, Begin_Rest
  <2>3. ASSUME NEW h \in Handlers, DeliverStep(h) PROVE Rest'
    BY <2>3, Delivery_Rest, Finalize_Rest DEF DeliverStep, Procs
  <2>4. CASE ConfirmStep
    BY <2>4, Confirm_Rest, Finalize_Rest DEF ConfirmStep, Procs
  <2>5. CASE SelectUndelivered \/ ExpireStep \/ \E p \in Procs : ProcessFails(p)
    BY <2>5, Expire_Rest
  <2> QED
    BY <2>1, <2>2, <2>3, <2>4, <2>5 DEF Next
<1> QED
  BY <1>1, <1>2 DEF TypeInv, Rest

LEMMA Typed == Spec => []TypeInv
  BY TypeInv_Init, TypeInv_Step, PTL DEF Spec

\* TypeOK: every variable stays in its type, whatever interleaves and fails;
\* no attempt count passes REJECT_CAP, and no chunk starts beyond the u64.
THEOREM TrainingTypeCorrect == Spec => []TypeOK
<1>1. TypeInv => TypeOK
  BY DEF TypeInv, AnchorInv, RowsOK, Control, Notes, TypeOK
<1> QED
  BY <1>1, Typed, PTL

\* What the deliveries and the sweep send to the chain, in whatever order and
\* with whatever failures, is a behaviour of the program on chain.
THEOREM ImplementsAnchor == Spec => AnchorSpec
<1>1. Init => AnchorInit
  BY DEF Init
<1> QED
  BY <1>1, Step_Anchor, Typed, PTL DEF Spec, AnchorSpec

\* Anchored and WindowGated, the guarantees of the chain, hold of every
\* lineage that the coordinator drives.
THEOREM LineageIsAnchored == Spec => []Anchored /\ WindowGated
  BY ImplementsAnchor, AssertionsAreAnchored, ChainIsWindowGated, PTL
-----------------------------------------------------------------------------
\* A step that changes nothing Orderly looks at but what processes do.
Quiet ==
    /\ SameResults
    /\ \A k \in Chunks : chunk'[k].state = chunk[k].state
    /\ row'.done = row.done /\ row'.latest = row.latest
    /\ UNCHANGED <<paid, slashed, job>>

LEMMA Held ==
  ASSUME TypeInv, NEW q \in Procs, rid[q] # NoResult \/ pc[q] \notin Free
  PROVE  rid[q] \in Taken /\ rid[q] \in Results /\ ChunkOf(q) \in Chunks /\ rid[q] # NoResult
  BY TrainingAssumption DEF TypeInv, Control, HasRow, Taken, RowsOK, ChunkOf

\* A process whose chunk a step leaves alone is still where it was.
LEMMA Kept_AtStep ==
  ASSUME TypeInv, NEW q \in Procs, AtStep(q),
         pc'[q] = pc[q], row'.done = row.done,
         pc[q] \notin Free \cup {"flag"} =>
           /\ ChunkOf(q) \in Chunks /\ ChunkOf(q)' = ChunkOf(q)
           /\ chunk'[ChunkOf(q)].state = chunk[ChunkOf(q)].state,
         pc[q] = "roll" /\ row.done \in Chunks => chunk'[row.done].state = chunk[row.done].state
  PROVE  AtStep(q)'
<1>1. CASE pc[q] \in Free \/ pc[q] = "flag"
  BY <1>1 DEF AtStep, Free, Delivering, Confirming
<1>2. CASE pc[q] \notin Free \cup {"flag"}
  <2>1. pc[q] = "roll" => row.done \in Chunks
    BY <1>2, TrainingAssumption DEF AtStep, TypeInv, Control, HasRow, RowsOK, Chunks
  <2> QED
    BY <1>2, <2>1 DEF AtStep
<1> QED
  BY <1>1, <1>2

LEMMA Move_Orderly ==
  ASSUME TypeInv, Orderly, Quiet, NEW p \in Procs, NEW from, NEW to, Move(p, from, to),
         from \notin {"roll", "accept", "expire", "expireChunk"},
         from \notin Free \/ to \in Free,
         to \notin {"idle", "expire", "roll", "accept"},
         to \in Finalizing => ChunkOf(p) = row.done,
         to = "close" => Done,
         p = Sweeper /\ to \in {"rejectTx", "slash"} => ~Sound(result[rid[p]].final),
         AtStep(p)'
  PROVE  Orderly'
<1>1. /\ pc[p] = from /\ pc' = [pc EXCEPT ![p] = to] /\ pc \in [Procs -> Steps]
      /\ rid' = rid /\ todo' = todo
  BY DEF Move, TypeInv, Control
<1>2. \A q \in Procs : rid[q] # NoResult \/ pc[q] \notin Free =>
        /\ rid[q] \in Taken /\ rid[q] \in Results /\ ChunkOf(q) \in Chunks
        /\ ChunkOf(q)' = ChunkOf(q)
  BY <1>1, Held DEF Quiet, SameResults, ChunkOf
<1>3. todo \subseteq Results /\ \A r \in todo : result'[r].chunk = result[r].chunk
  BY DEF TypeInv, Control, Quiet, SameResults
<1>4. Taken' = Taken
  BY Same_Taken DEF Quiet
<1>5. Apart'
  BY <1>1, <1>2, <1>3 DEF Orderly, Apart, Procs
<1>6. Unheld'
  BY <1>1 DEF Orderly, Unheld
<1>7. Frontier'
  BY <1>1, <1>2 DEF Orderly, Frontier, Reached, Quiet, Free
<1>8. \A q \in Procs : AtStep(q)'
  <2> SUFFICES ASSUME NEW q \in Procs, q # p PROVE AtStep(q)'
    OBVIOUS
  <2> QED
    BY <1>1, <1>2, Kept_AtStep DEF Orderly, Quiet
<1>9. Waiting'
  BY <1>1, <1>3 DEF Orderly, Waiting, Quiet, TypeInv, RowsOK
<1>10. Paid'
  <2> SUFFICES ASSUME NEW r \in Results, paid[r] > 0 PROVE Settled(r)'
    BY DEF Paid, Quiet
  <2>1. Settled(r)
    BY DEF Orderly, Paid
  <2>2. /\ paid' = paid /\ row'.done = row.done
        /\ \A q \in Results : result'[q].chunk = result[q].chunk
    BY DEF Quiet, SameResults
  <2>3. \A q \in Procs : pc'[q] \in Finalizing => ChunkOf(q)' # result[r].chunk
    <3>1. p \in Procs /\ pc'[p] = to
      BY <1>1
    <3>2. \A q \in Procs : q # p => pc'[q] = pc[q]
      BY <1>1
    <3>3. \A q \in Procs : q # p /\ pc'[q] \in Finalizing => ChunkOf(q)' # result[r].chunk
      BY <1>2, <2>1, <3>2 DEF Settled, Free, Finalizing
    <3>4. to \in Finalizing => ChunkOf(p)' = row.done
      BY <1>1, <1>2 DEF Free, Finalizing
    <3> QED
      BY <2>1, <3>1, <3>3, <3>4 DEF Settled, TypeInv, RowsOK, Chunks
  <2> QED
    BY <1>4, <2>1, <2>2, <2>3 DEF Settled
<1>11. Closing'
  BY <1>1 DEF Orderly, Closing, Done, Quiet
<1>12. Built'
  BY <1>4 DEF Orderly, Built, Quiet, SameResults, Taken
<1>13. Condemned'
  <2>1. pc'[Sweeper] \in {"rejectTx", "slash"} => ~Sound(result'[rid'[Sweeper]].final)
    <3>1. Sweeper \in Procs
      BY DEF Procs
    <3>2. pc'[Sweeper] \in {"rejectTx", "slash"} => rid[Sweeper] \in Results /\ ~Sound(result[rid[Sweeper]].final)
      BY <1>1, <1>2, <3>1 DEF Orderly, Condemned, Free
    <3> QED
      BY <1>1, <3>2 DEF Quiet, SameResults
  <2>2. \A r \in slashed' : r \in Taken' /\ ~Sound(result'[r].final)
    BY <1>4 DEF Orderly, Condemned, Quiet, SameResults, Taken
  <2> QED
    BY <2>1, <2>2 DEF Condemned, Sound
<1> QED
  BY <1>5, <1>6, <1>7, <1>8, <1>9, <1>10, <1>11, <1>12, <1>13 DEF Orderly

LEMMA Finish_Orderly ==
  ASSUME TypeInv, Orderly, Quiet, NEW p \in Procs, NEW from, Finish(p, from),
         from \notin {"roll", "accept", "expire", "expireChunk"}
  PROVE  Orderly'
<1>1. /\ pc[p] = from /\ pc' = [pc EXCEPT ![p] = "idle"] /\ pc \in [Procs -> Steps]
      /\ rid' = [rid EXCEPT ![p] = NoResult] /\ rid \in [Procs -> Results \cup {NoResult}]
      /\ todo' = todo
  BY DEF Finish, TypeInv, Control
<1>2. \A q \in Procs : q # p =>
        /\ pc'[q] = pc[q] /\ rid'[q] = rid[q]
        /\ rid[q] # NoResult \/ pc[q] \notin Free =>
             /\ rid[q] \in Taken /\ rid[q] \in Results /\ ChunkOf(q) \in Chunks
             /\ ChunkOf(q)' = ChunkOf(q)
  BY <1>1, Held DEF Quiet, SameResults, ChunkOf
<1>3. todo \subseteq Results /\ \A r \in todo : result'[r].chunk = result[r].chunk
  BY DEF TypeInv, Control, Quiet, SameResults
<1>4. Taken' = Taken
  BY Same_Taken DEF Quiet
<1>5. Apart'
  BY <1>1, <1>2, <1>3 DEF Orderly, Apart, Procs
<1>6. Unheld'
  <2>1. Sweeper = p => todo = {}
    BY <1>1 DEF Orderly, Unheld
  <2> QED
    BY <1>1, <2>1 DEF Orderly, Unheld, Procs
<1>7. Frontier'
  BY <1>1, <1>2 DEF Orderly, Frontier, Reached, Quiet, Free
<1>8. \A q \in Procs : AtStep(q)'
  <2>1. AtStep(p)'
    BY <1>1 DEF AtStep, Delivering, Confirming
  <2>2. ASSUME NEW q \in Procs, q # p PROVE AtStep(q)'
    BY <1>2, <2>2, Kept_AtStep DEF Orderly, Quiet
  <2> QED
    BY <2>1, <2>2
<1>9. Waiting'
  BY <1>1, <1>3 DEF Orderly, Waiting, Quiet, TypeInv, RowsOK
<1>10. Paid'
  <2> SUFFICES ASSUME NEW r \in Results, paid[r] > 0 PROVE Settled(r)'
    BY DEF Paid, Quiet
  <2>1. Settled(r)
    BY DEF Orderly, Paid
  <2>2. /\ paid' = paid /\ row'.done = row.done
        /\ \A q \in Results : result'[q].chunk = result[q].chunk
    BY DEF Quiet, SameResults
  <2>3. \A q \in Procs : pc'[q] \in Finalizing => ChunkOf(q)' # result[r].chunk
    <3>1. p \in Procs /\ pc'[p] = "idle"
      BY <1>1
    <3> QED
      BY <1>2, <2>1, <3>1 DEF Settled, Free, Finalizing
  <2> QED
    BY <1>4, <2>1, <2>2, <2>3 DEF Settled
<1>11. Closing'
  BY <1>1 DEF Orderly, Closing, Done, Quiet
<1>12. Built'
  BY <1>4 DEF Orderly, Built, Quiet, SameResults, Taken
<1>13. Condemned'
  <2>1. pc'[Sweeper] \in {"rejectTx", "slash"} => ~Sound(result'[rid'[Sweeper]].final)
    <3>1. Sweeper \in Procs
      BY DEF Procs
    <3>2. pc'[Sweeper] \in {"rejectTx", "slash"} =>
            rid'[Sweeper] = rid[Sweeper] /\ rid[Sweeper] \in Results /\ ~Sound(result[rid[Sweeper]].final)
      BY <1>1, <1>2, <3>1 DEF Orderly, Condemned, Free
    <3> QED
      BY <3>2 DEF Quiet, SameResults
  <2>2. \A r \in slashed' : r \in Taken' /\ ~Sound(result'[r].final)
    BY <1>4 DEF Orderly, Condemned, Quiet, SameResults, Taken
  <2> QED
    BY <2>1, <2>2 DEF Condemned, Sound
<1> QED
  BY <1>5, <1>6, <1>7, <1>8, <1>9, <1>10, <1>11, <1>12, <1>13 DEF Orderly

LEMMA Same_Orderly ==
  ASSUME TypeInv, Orderly, Quiet, UNCHANGED <<pc, rid, todo>>
  PROVE  Orderly'
<1>1. \A q \in Procs : rid[q] # NoResult \/ pc[q] \notin Free =>
        /\ rid[q] \in Taken /\ rid[q] \in Results /\ ChunkOf(q) \in Chunks
        /\ ChunkOf(q)' = ChunkOf(q)
  BY Held DEF Quiet, SameResults, ChunkOf
<1>2. todo \subseteq Results /\ \A r \in todo : result'[r].chunk = result[r].chunk
  BY DEF TypeInv, Control, Quiet, SameResults
<1>3. Taken' = Taken
  BY Same_Taken DEF Quiet
<1>4. Apart' /\ Unheld' /\ Waiting' /\ Closing'
  <2>1. Apart'
    BY <1>1, <1>2 DEF Orderly, Apart, Procs
  <2>2. Waiting'
    BY <1>2 DEF Orderly, Waiting, Quiet, TypeInv, RowsOK
  <2> QED
    BY <2>1, <2>2 DEF Orderly, Unheld, Closing, Done, Quiet
<1>5. Frontier'
  BY <1>1 DEF Orderly, Frontier, Reached, Quiet, Free
<1>6. \A q \in Procs : AtStep(q)'
  BY <1>1, Kept_AtStep DEF Orderly, Quiet
<1>7. Paid'
  <2> SUFFICES ASSUME NEW r \in Results, paid[r] > 0 PROVE Settled(r)'
    BY DEF Paid, Quiet
  <2>1. Settled(r)
    BY DEF Orderly, Paid
  <2>2. \A q \in Procs : pc'[q] \in Finalizing => ChunkOf(q)' # result[r].chunk
    BY <1>1, <2>1 DEF Settled, Free, Finalizing
  <2> QED
    BY <1>3, <2>1, <2>2 DEF Settled, Quiet, SameResults
<1>8. Built'
  BY <1>3 DEF Orderly, Built, Quiet, SameResults, Taken
<1>9. Condemned'
  <2>1. pc'[Sweeper] \in {"rejectTx", "slash"} => ~Sound(result'[rid'[Sweeper]].final)
    BY <1>1 DEF Orderly, Condemned, Free, Procs, Quiet, SameResults
  <2>2. \A r \in slashed' : r \in Taken' /\ ~Sound(result'[r].final)
    BY <1>3 DEF Orderly, Condemned, Quiet, SameResults, Taken
  <2> QED
    BY <2>1, <2>2 DEF Condemned, Sound
<1> QED
  BY <1>4, <1>5, <1>6, <1>7, <1>8, <1>9 DEF Orderly

LEMMA Rows_Quiet == ASSUME UNCHANGED rows PROVE Quiet
  BY DEF rows, Quiet, SameResults

\* A step within a delivery, or within the confirmation of a chunk, keeps what
\* AtStep says of it; so does the one from there to finalizing.
LEMMA Move_AtStep ==
  ASSUME TypeInv, Orderly, Quiet, NEW p \in Procs, NEW from, NEW to, Move(p, from, to),
         \/ from \in Delivering /\ to \in Delivering \cup {"advance"}
         \/ from \in Confirming /\ to \in Confirming \cup {"advance"}
         \/ to \in {"flag", "count", "close"}
  PROVE  AtStep(p)' /\ (to = "advance" => ChunkOf(p) = row.done)
<1>1. pc[p] = from /\ pc'[p] = to /\ rid' = rid
  BY DEF Move, TypeInv, Control
<1>2. CASE to \in {"flag", "count", "close"}
  BY <1>1, <1>2 DEF AtStep, Delivering, Confirming
<1>3. CASE to \notin {"flag", "count", "close"}
  <2>1. ChunkOf(p) \in Chunks /\ ChunkOf(p)' = ChunkOf(p)
    BY <1>1, <1>3, Held DEF Quiet, SameResults, ChunkOf, Free, Delivering, Confirming
  <2>2. AtStep(p)
    BY DEF Orderly
  <2>3. chunk'[ChunkOf(p)].state = chunk[ChunkOf(p)].state /\ row'.done = row.done
    BY <2>1 DEF Quiet
  <2>4. CASE from \in Delivering /\ to \in Delivering \cup {"advance"}
    BY <1>1, <2>1, <2>2, <2>3, <2>4 DEF AtStep, Delivering, Confirming, Open
  <2>5. CASE from \in Confirming /\ to \in Confirming \cup {"advance"}
    BY <1>1, <2>1, <2>2, <2>3, <2>5 DEF AtStep, Delivering, Confirming, Open
  <2> QED
    BY <1>3, <2>4, <2>5
<1> QED
  BY <1>2, <1>3

\* A process leaves the chunk at the frontier in another state.
LEMMA Leave_Orderly ==
  ASSUME TypeInv, Orderly, NEW p \in Procs, NEW to, NEW s \in {"awaiting_confirm", "pending", "quarantined"},
         rid[p] # NoResult, ChunkOf(p) = row.done, row.done \in Chunks,
         chunk[row.done].state \notin {"none", "quarantined", "accepted"},
         pc[p] \notin {"roll", "accept"},
         pc' = [pc EXCEPT ![p] = to],
         \/ to \in {"idle", "expire"} /\ rid' = [rid EXCEPT ![p] = NoResult]
         \/ to = "flag" /\ rid' = rid,
         p = Sweeper => todo = {} \/ (to = "expire" /\ s = "pending"),
         \A k \in Chunks : chunk'[k].state = IF k = row.done THEN s ELSE chunk[k].state,
         UNCHANGED <<todo, job, result, row, paid, slashed>>
  PROVE  Orderly'
<1>1. /\ pc'[p] = to /\ pc \in [Procs -> Steps] /\ rid \in [Procs -> Results \cup {NoResult}]
      /\ rid'[p] \in {rid[p], NoResult} /\ (to \in {"idle", "expire"} => rid'[p] = NoResult)
  BY DEF TypeInv, Control
<1>2. \A q \in Procs : q # p =>
        /\ pc'[q] = pc[q] /\ rid'[q] = rid[q]
        /\ rid[q] # NoResult \/ pc[q] \notin Free =>
             /\ rid[q] \in Taken /\ rid[q] \in Results /\ ChunkOf(q) \in Chunks
             /\ ChunkOf(q)' = ChunkOf(q) /\ ChunkOf(q) # row.done
  BY <1>1, Held DEF ChunkOf, Orderly, Apart
<1>3. rid'[p] # NoResult => rid'[p] = rid[p] /\ ChunkOf(p)' = ChunkOf(p)
  BY <1>1 DEF ChunkOf
<1>4. Taken' = Taken
  BY DEF Taken
<1>5. Apart'
  BY <1>1, <1>2, <1>3 DEF Orderly, Apart, Procs
<1>6. Unheld'
  BY <1>1, <1>2 DEF Orderly, Unheld, Procs
<1>7. Frontier'
  <2> SUFFICES ASSUME NEW k \in Chunks PROVE Reached(k)'
    BY DEF Frontier
  <2>1. Reached(k)
    BY DEF Orderly, Frontier
  <2>2. CASE k = row.done
    BY <2>2 DEF TypeInv, RowsOK, Chunks, Reached
  <2>3. CASE k # row.done
    <3>1. ASSUME NEW q \in Procs, pc[q] \in {"roll", "accept"}, ChunkOf(q) = k
          PROVE  q # p /\ pc'[q] = pc[q] /\ ChunkOf(q)' = k
      BY <1>2, <3>1 DEF Free
    <3> QED
      BY <2>1, <2>3, <3>1 DEF Reached
  <2> QED
    BY <2>2, <2>3
<1>8. \A q \in Procs : AtStep(q)'
  <2>1. AtStep(p)'
    BY <1>1 DEF AtStep, Delivering, Confirming
  <2>2. ASSUME NEW q \in Procs, q # p PROVE AtStep(q)'
    <3>1. AtStep(q)
      BY DEF Orderly
    <3>2. pc[q] # "roll"
      BY <3>1 DEF AtStep
    <3> QED
      BY <1>2, <2>2, <3>1, <3>2, Kept_AtStep
  <2> QED
    BY <2>1, <2>2
<1>9. Waiting'
  <2>1. todo # {} => p = Sweeper /\ s = "pending"
    BY DEF Orderly, Apart, Waiting, Procs
  <2> QED
    BY <2>1 DEF Orderly, Waiting
<1>10. Paid'
  <2> SUFFICES ASSUME NEW r \in Results, paid[r] > 0 PROVE Settled(r)'
    BY DEF Paid
  <2>1. Settled(r)
    BY DEF Orderly, Paid
  <2>2. \A q \in Procs : pc'[q] \in Finalizing => ChunkOf(q)' # result[r].chunk
    BY <1>1, <1>2, <2>1 DEF Settled, Free, Finalizing
  <2> QED
    BY <1>4, <2>1, <2>2 DEF Settled
<1>11. Closing'
  BY <1>1, <1>2 DEF Orderly, Closing, Done
<1>12. Built'
  BY <1>4 DEF Orderly, Built
<1>13. Condemned'
  <2>1. pc'[Sweeper] \in {"rejectTx", "slash"} => rid'[Sweeper] = rid[Sweeper] /\ pc[Sweeper] = pc'[Sweeper]
    BY <1>1, <1>2 DEF Procs
  <2> QED
    BY <1>4, <2>1 DEF Orderly, Condemned
<1> QED
  BY <1>5, <1>6, <1>7, <1>8, <1>9, <1>10, <1>11, <1>12, <1>13 DEF Orderly

\* While no call fails, a delivery comes to its end by parking the chunk.
LEMMA Delivery_Orderly ==
  ASSUME TypeInv, Orderly, failures = 0, failures' = 0, NEW h \in Handlers,
         StoreState(h) \/ ReadOrigin(h) \/ FetchAnchor(h) \/ InitAnchor(h)
           \/ AssertTx(h) \/ ParkChunk(h)
  PROVE  Orderly'
<1> USE DEF Free, Delivering, Finalizing
<1>h. h \in Procs /\ h # Sweeper
  BY TrainingAssumption DEF Procs
<1>1. CASE StoreState(h)
  <2>1. result' = [result EXCEPT ![rid[h]].kept = TRUE] /\ UNCHANGED <<job, chunk, row, paid, slashed>>
    BY <1>1 DEF StoreState
  <2>2. SameResults
    BY <2>1 DEF TypeInv, RowsOK, SameResults
  <2>3. Quiet
    BY <2>1, <2>2 DEF Quiet
  <2>4. Move(h, "store", "readOrigin")
    BY <1>1 DEF StoreState
  <2>5. AtStep(h)'
    BY <1>h, <2>3, <2>4, Move_AtStep
  <2> QED
    BY <1>h, <2>3, <2>4, <2>5, Move_Orderly
<1>2. CASE ReadOrigin(h) \/ FetchAnchor(h) \/ InitAnchor(h) \/ AssertTx(h)
  <2>1. Quiet
    BY <1>2, Rows_Quiet DEF ReadOrigin, FetchAnchor, InitAnchor, AssertTx
  <2>2. PICK from \in Delivering, to \in Delivering \cup {"advance"} : Move(h, from, to)
    BY <1>2 DEF ReadOrigin, FetchAnchor, InitAnchor, AssertTx
  <2>3. AtStep(h)' /\ (to = "advance" => ChunkOf(h) = row.done)
    BY <1>h, <2>1, <2>2, Move_AtStep
  <2> QED
    BY <1>h, <2>1, <2>2, <2>3, Move_Orderly
<1>3. CASE ParkChunk(h)
  <2> DEFINE k == ChunkOf(h)
  <2>1. /\ pc[h] = "park" /\ pc' = [pc EXCEPT ![h] = "idle"]
        /\ rid' = [rid EXCEPT ![h] = NoResult] /\ todo' = todo
        /\ chunk' = [chunk EXCEPT ![k].state = "awaiting_confirm"]
        /\ UNCHANGED <<job, result, row, paid, slashed>>
    BY <1>3 DEF ParkChunk, Finish, SetChunk
  <2>2. k \in Chunks /\ k = row.done /\ chunk[k].state = "awaiting_outputs" /\ rid[h] # NoResult
    BY <1>h, <2>1, Held DEF Orderly, AtStep
  <2>3. \A j \in Chunks : chunk'[j].state = IF j = row.done THEN "awaiting_confirm" ELSE chunk[j].state
    BY <2>1, <2>2 DEF TypeInv, RowsOK
  <2> QED
    BY <1>h, <2>1, <2>2, <2>3, Leave_Orderly
<1> QED
  BY <1>1, <1>2, <1>3

\* finalizeTrainingChunk: the lineage is one chunk further, and the process is
\* the only one at the chunk it leaves behind.
LEMMA Advance_Orderly ==
  ASSUME TypeInv, Orderly, NEW p \in Procs, AdvanceLineage(p)
  PROVE  Orderly'
<1> DEFINE k == row.done
           to == IF ChunkOf(p) + 1 < NChunks THEN "roll" ELSE "accept"
<1>1. /\ pc[p] = "advance" /\ pc' = [pc EXCEPT ![p] = to] /\ pc \in [Procs -> Steps]
      /\ rid' = rid /\ todo' = todo
      /\ row' = [row EXCEPT !.latest = result[rid[p]].final, !.done = ChunkOf(p) + 1]
      /\ UNCHANGED <<job, chunk, result, paid, slashed>>
  BY DEF AdvanceLineage, Move, TypeInv, Control
<1>2. /\ rid[p] \in Results /\ rid[p] # NoResult /\ ChunkOf(p) = k /\ k \in Chunks
      /\ chunk[k].state \in Open
  BY <1>1, Held DEF Orderly, AtStep, Free, Delivering, Confirming
<1>3. row'.done = k + 1 /\ row'.latest = result[rid[p]].final /\ k \in Nat /\ NChunks \in Nat
  BY <1>1, <1>2, TrainingAssumption DEF TypeInv, RowsOK, Chunks
<1>4. /\ pc'[p] = to /\ to \in {"roll", "accept"} /\ (to = "roll" => k + 1 \in Chunks)
      /\ (to # "roll" => k + 1 = NChunks)
  BY <1>1, <1>2, <1>3 DEF Chunks
<1> HIDE DEF to
<1>5. \A q \in Procs : /\ q # p => pc'[q] = pc[q]
                       /\ rid'[q] = rid[q] /\ ChunkOf(q)' = ChunkOf(q)
                       /\ q # p /\ rid[q] # NoResult => ChunkOf(q) # k
  BY <1>1, <1>2 DEF ChunkOf, Orderly, Apart
<1>6. \A q \in Procs : pc[q] \notin Free => rid[q] # NoResult
  BY Held
<1>7. todo = {}
  BY <1>1, <1>2 DEF Orderly, Apart, Waiting, Unheld, Procs
<1>8. Taken' = Taken
  BY <1>1 DEF Taken
<1>9. Apart' /\ Unheld' /\ Waiting'
  <2>1. Apart'
    BY <1>1, <1>5, <1>7 DEF Orderly, Apart
  <2>2. Unheld'
    BY <1>1, <1>4, <1>5, <1>7 DEF Orderly, Unheld
  <2> QED
    BY <1>1, <1>7, <2>1, <2>2 DEF Waiting
<1>10. Frontier'
  <2> SUFFICES ASSUME NEW j \in Chunks PROVE Reached(j)'
    BY DEF Frontier
  <2>1. Reached(j) /\ Reached(k)
    BY <1>2 DEF Orderly, Frontier
  <2>2. CASE j < k
    <3>1. ASSUME NEW q \in Procs, pc[q] \in {"roll", "accept"}, ChunkOf(q) = j
          PROVE  pc'[q] = pc[q] /\ ChunkOf(q)' = j
      BY <1>1, <1>5, <3>1
    <3>2. j < k + 1 /\ j # k + 1 /\ ~(j > k + 1)
      BY <1>3, <2>2 DEF Chunks
    <3> QED
      BY <1>1, <1>3, <2>1, <2>2, <3>1, <3>2 DEF Reached
  <2>3. CASE j = k
    <3>1. p \in Procs /\ pc'[p] \in {"roll", "accept"} /\ ChunkOf(p)' = j
      BY <1>2, <1>4, <1>5, <2>3
    <3>2. j < k + 1 /\ j # k + 1 /\ ~(j > k + 1)
      BY <1>3, <2>3 DEF Chunks
    <3> QED
      BY <1>3, <3>1, <3>2 DEF Reached
  <2>4. CASE j = k + 1
    <3>1. chunk'[j].state = "none" /\ p \in Procs /\ pc'[p] = "roll" /\ ChunkOf(p)' + 1 = j
      BY <1>1, <1>2, <1>3, <1>4, <1>5, <2>1, <2>4 DEF Reached, Chunks
    <3> QED
      BY <1>3, <2>4, <3>1 DEF Reached, Chunks
  <2>5. CASE j > k + 1
    BY <1>1, <1>3, <2>1, <2>5 DEF Reached, Chunks
  <2> QED
    BY <1>3, <2>2, <2>3, <2>4, <2>5 DEF Chunks
<1>11. \A q \in Procs : AtStep(q)'
  <2>1. AtStep(p)'
    <3>1. to = "roll" => chunk[k + 1].state = "none"
      BY <1>3, <1>4 DEF Orderly, Frontier, Reached, Chunks
    <3> QED
      BY <1>1, <1>2, <1>3, <1>4, <1>5, <3>1 DEF AtStep, Delivering, Confirming
  <2>2. ASSUME NEW q \in Procs, q # p PROVE AtStep(q)'
    <3>1. AtStep(q) /\ pc'[q] = pc[q] /\ ChunkOf(q)' = ChunkOf(q) /\ chunk' = chunk
      BY <1>1, <1>5, <2>2 DEF Orderly
    <3>2. pc[q] \in Free \/ ChunkOf(q) # k
      BY <1>5, <1>6, <2>2
    <3>3. pc[q] # "roll"
      BY <1>2, <3>1 DEF AtStep, Open
    <3>4. pc[q] \in {"accept", "credit"} => ChunkOf(q) < k + 1
      <4>1. pc[q] \in {"accept", "credit"} => ChunkOf(q) \in Chunks /\ ChunkOf(q) < k
        BY <3>1, Held DEF AtStep, Free
      <4> QED
        BY <1>3, <4>1 DEF Chunks
    <3> QED
      BY <1>3, <3>1, <3>2, <3>3, <3>4 DEF AtStep, Free, Delivering, Confirming
  <2> QED
    BY <2>1, <2>2
<1>12. Paid'
  <2> SUFFICES ASSUME NEW r \in Results, paid[r] > 0 PROVE Settled(r)'
    BY <1>1 DEF Paid
  <2>1. Settled(r)
    BY DEF Orderly, Paid
  <2>2. result[r].chunk \in Chunks
    BY DEF TypeInv, RowsOK
  <2>3. result[r].chunk < k + 1 /\ result[r].chunk # k
    BY <1>3, <2>1, <2>2 DEF Settled, Chunks
  <2>4. \A q \in Procs : pc'[q] \in Finalizing => ChunkOf(q)' # result[r].chunk
    BY <1>2, <1>4, <1>5, <2>1, <2>3 DEF Settled
  <2> QED
    BY <1>1, <1>3, <1>8, <2>1, <2>3, <2>4 DEF Settled
<1>13. Closing'
  <2>1. Done => Done'
    BY <1>1, <1>2, <1>3 DEF Done, Chunks
  <2> QED
    BY <1>1, <1>4, <1>5, <2>1 DEF Orderly, Closing
<1>14. Built'
  <2>1. \A r \in Taken : result[r].chunk \in Chunks /\ result[r].chunk <= k
    BY DEF Orderly, Built, Taken, TypeInv, RowsOK
  <2>2. \A r \in Taken : result[r].chunk <= k + 1 /\ result[r].chunk # k + 1
    BY <1>3, <2>1 DEF Chunks
  <2>3. k + 1 # 0
    BY <1>3
  <2> QED
    BY <1>1, <1>3, <1>8, <2>2, <2>3 DEF Built
<1>15. Condemned'
  <2>1. pc'[Sweeper] \in {"rejectTx", "slash"} => pc[Sweeper] = pc'[Sweeper]
    BY <1>4, <1>5 DEF Procs
  <2> QED
    BY <1>1, <1>8, <2>1 DEF Orderly, Condemned
<1> QED
  BY <1>9, <1>10, <1>11, <1>12, <1>13, <1>14, <1>15 DEF Orderly

\* The successor is rolled before the chunk is accepted.
LEMMA Roll_Orderly ==
  ASSUME TypeInv, Orderly, NEW p \in Procs, RollSuccessor(p)
  PROVE  Orderly'
<1> DEFINE k == ChunkOf(p)
           d == row.done
<1>1. /\ pc[p] = "roll" /\ pc' = [pc EXCEPT ![p] = "accept"] /\ pc \in [Procs -> Steps]
      /\ rid' = rid /\ todo' = todo /\ UNCHANGED <<job, result, row, paid, slashed>>
  BY DEF RollSuccessor, Move, TypeInv, Control
<1>2. /\ rid[p] \in Taken /\ rid[p] # NoResult /\ k \in Chunks
      /\ k + 1 = d /\ chunk[k].state \in Open /\ chunk[d].state = "none" /\ k + 1 < NChunks
  BY <1>1, Held DEF Orderly, AtStep, Free, Delivering, Confirming, TypeInv, Control, HasRow
<1>3. d \in Chunks /\ k < d /\ k # d
  BY <1>2, TrainingAssumption DEF Chunks
<1>4. chunk' = [chunk EXCEPT ![d].state = "pending"]
  BY <1>2 DEF RollSuccessor, SetChunk
<1>5. \A j \in Chunks : chunk'[j].state = IF j = d THEN "pending" ELSE chunk[j].state
  BY <1>4 DEF TypeInv, RowsOK
<1>6. \A q \in Procs : /\ q # p => pc'[q] = pc[q]
                       /\ rid'[q] = rid[q] /\ ChunkOf(q)' = ChunkOf(q)
                       /\ q # p /\ rid[q] # NoResult => ChunkOf(q) # k
  BY <1>1, <1>2 DEF ChunkOf, Orderly, Apart
<1>7. todo = {}
  BY <1>2 DEF Orderly, Waiting
<1>8. Taken' = Taken /\ pc'[p] = "accept"
  BY <1>1 DEF Taken
<1>9. Apart' /\ Unheld' /\ Waiting'
  <2>1. Apart'
    BY <1>1, <1>6, <1>7 DEF Orderly, Apart
  <2>2. Unheld'
    BY <1>1, <1>6, <1>7, <1>8 DEF Orderly, Unheld
  <2> QED
    BY <1>1, <1>7, <2>1, <2>2 DEF Waiting
<1>10. Frontier'
  <2> SUFFICES ASSUME NEW j \in Chunks PROVE Reached(j)'
    BY DEF Frontier
  <2>1. Reached(j)
    BY DEF Orderly, Frontier
  <2>2. CASE j = d
    BY <1>1, <1>5, <2>2 DEF Reached, Chunks
  <2>3. CASE j # d
    <3>1. ASSUME NEW q \in Procs, pc[q] \in {"roll", "accept"}, ChunkOf(q) = j
          PROVE  pc'[q] \in {"roll", "accept"} /\ ChunkOf(q)' = j
      BY <1>6, <1>8, <3>1
    <3> QED
      BY <1>1, <1>5, <2>1, <2>3, <3>1 DEF Reached
  <2> QED
    BY <2>2, <2>3
<1>11. \A q \in Procs : AtStep(q)'
  <2>1. AtStep(p)'
    BY <1>1, <1>2, <1>3, <1>5, <1>6, <1>8 DEF AtStep, Delivering, Confirming
  <2>2. ASSUME NEW q \in Procs, q # p PROVE AtStep(q)'
    <3>1. AtStep(q) /\ (pc[q] \notin Free => rid[q] # NoResult /\ ChunkOf(q) \in Chunks)
      BY Held DEF Orderly
    <3>2. pc[q] # "roll"
      BY <1>2, <1>3, <1>6, <2>2, <3>1 DEF AtStep, Free, Chunks
    <3>3. pc[q] \notin Free \cup {"flag"} => ChunkOf(q) # d
      BY <1>2, <3>1 DEF AtStep, Free, Delivering, Confirming, Open, TypeInv, Control, Steps
    <3> QED
      BY <1>1, <1>5, <1>6, <2>2, <3>1, <3>2, <3>3, Kept_AtStep
  <2> QED
    BY <2>1, <2>2
<1>12. Paid'
  <2> SUFFICES ASSUME NEW r \in Results, paid[r] > 0 PROVE Settled(r)'
    BY <1>1 DEF Paid
  <2>1. Settled(r)
    BY DEF Orderly, Paid
  <2>2. \A q \in Procs : pc'[q] \in Finalizing => ChunkOf(q)' # result[r].chunk
    BY <1>1, <1>6, <2>1 DEF Settled, Finalizing
  <2> QED
    BY <1>1, <1>8, <2>1, <2>2 DEF Settled
<1>13. Closing'
  <2>1. Done => Done'
    BY <1>1, <1>2, <1>5 DEF Done
  <2> QED
    BY <1>1, <1>6, <1>8, <2>1 DEF Orderly, Closing
<1>14. Built'
  BY <1>1, <1>8 DEF Orderly, Built
<1>15. Condemned'
  <2>1. pc'[Sweeper] \in {"rejectTx", "slash"} => pc[Sweeper] = pc'[Sweeper]
    BY <1>6, <1>8 DEF Procs
  <2> QED
    BY <1>1, <1>8, <2>1 DEF Orderly, Condemned
<1> QED
  BY <1>9, <1>10, <1>11, <1>12, <1>13, <1>14, <1>15 DEF Orderly

LEMMA Accept_Orderly ==
  ASSUME TypeInv, Orderly, NEW p \in Procs, AcceptChunk(p)
  PROVE  Orderly'
<1> DEFINE k == ChunkOf(p)
<1>1. /\ pc[p] = "accept" /\ pc' = [pc EXCEPT ![p] = "credit"] /\ pc \in [Procs -> Steps]
      /\ rid' = rid /\ todo' = todo /\ UNCHANGED <<job, result, row, paid, slashed>>
      /\ chunk' = [chunk EXCEPT ![k].state = "accepted"]
  BY DEF AcceptChunk, Move, SetChunk, TypeInv, Control
<1>2. /\ rid[p] \in Taken /\ rid[p] # NoResult /\ k \in Chunks
      /\ k < row.done /\ chunk[k].state \in Open
  BY <1>1, Held DEF Orderly, AtStep, Free, Delivering, Confirming
<1>3. k # row.done
  BY <1>2 DEF Chunks
<1>4. \A j \in Chunks : chunk'[j].state = IF j = k THEN "accepted" ELSE chunk[j].state
  BY <1>1 DEF TypeInv, RowsOK
<1>5. \A q \in Procs : /\ q # p => pc'[q] = pc[q]
                       /\ rid'[q] = rid[q] /\ ChunkOf(q)' = ChunkOf(q)
                       /\ q # p /\ rid[q] # NoResult => ChunkOf(q) # k
  BY <1>1, <1>2 DEF ChunkOf, Orderly, Apart
<1>6. p = Sweeper => todo = {}
  BY <1>1 DEF Orderly, Unheld
<1>7. Taken' = Taken /\ pc'[p] = "credit"
  BY <1>1 DEF Taken
<1>8. Apart' /\ Unheld' /\ Waiting'
  <2>1. Apart'
    BY <1>1, <1>5 DEF Orderly, Apart, Procs
  <2>2. Unheld'
    BY <1>1, <1>5, <1>6, <1>7 DEF Orderly, Unheld, Procs
  <2>3. todo # {} => row.done \in Chunks
    BY DEF Orderly, Waiting, TypeInv, RowsOK, Control
  <2>4. Waiting'
    BY <1>1, <1>3, <1>4, <2>3 DEF Orderly, Waiting
  <2> QED
    BY <2>1, <2>2, <2>4
<1>9. Frontier'
  <2> SUFFICES ASSUME NEW j \in Chunks PROVE Reached(j)'
    BY DEF Frontier
  <2>1. Reached(j)
    BY DEF Orderly, Frontier
  <2>2. CASE j = k
    BY <1>1, <1>2, <1>4, <2>2 DEF Reached, TypeInv, RowsOK, Chunks
  <2>3. CASE j # k
    <3>1. ASSUME NEW q \in Procs, pc[q] \in {"roll", "accept"}, ChunkOf(q) = j
          PROVE  pc'[q] = pc[q] /\ ChunkOf(q)' = j
      BY <1>5, <2>3, <3>1
    <3>2. ASSUME NEW q \in Procs, pc[q] = "roll", ChunkOf(q) + 1 = j
          PROVE  pc'[q] = pc[q] /\ ChunkOf(q)' + 1 = j
      BY <1>1, <1>5, <3>2
    <3> QED
      BY <1>1, <1>4, <2>1, <2>3, <3>1, <3>2 DEF Reached
  <2> QED
    BY <2>2, <2>3
<1>10. \A q \in Procs : AtStep(q)'
  <2>1. AtStep(p)'
    BY <1>1, <1>2, <1>4, <1>5, <1>7 DEF AtStep, Delivering, Confirming
  <2>2. ASSUME NEW q \in Procs, q # p PROVE AtStep(q)'
    <3>1. AtStep(q) /\ (pc[q] \notin Free => rid[q] # NoResult /\ ChunkOf(q) \in Chunks)
      BY Held DEF Orderly
    <3> QED
      BY <1>1, <1>3, <1>4, <1>5, <2>2, <3>1, Kept_AtStep
  <2> QED
    BY <2>1, <2>2
<1>11. Paid'
  <2> SUFFICES ASSUME NEW r \in Results, paid[r] > 0 PROVE Settled(r)'
    BY <1>1 DEF Paid
  <2>1. Settled(r)
    BY DEF Orderly, Paid
  <2>2. \A q \in Procs : pc'[q] \in Finalizing => ChunkOf(q)' # result[r].chunk
    BY <1>1, <1>5, <2>1 DEF Settled, Finalizing
  <2> QED
    BY <1>1, <1>7, <2>1, <2>2 DEF Settled
<1>12. Closing'
  <2>1. Done => Done'
    BY <1>1, <1>2, <1>4 DEF Done, Open
  <2> QED
    BY <1>1, <1>5, <1>7, <2>1 DEF Orderly, Closing
<1>13. Built'
  BY <1>1, <1>7 DEF Orderly, Built
<1>14. Condemned'
  <2>1. pc'[Sweeper] \in {"rejectTx", "slash"} => pc[Sweeper] = pc'[Sweeper]
    BY <1>5, <1>7 DEF Procs
  <2> QED
    BY <1>1, <1>7, <2>1 DEF Orderly, Condemned
<1> QED
  BY <1>8, <1>9, <1>10, <1>11, <1>12, <1>13, <1>14 DEF Orderly

\* The chunk was not paid for, and this was the last process to finalize it.
LEMMA Credit_Orderly ==
  ASSUME TypeInv, Orderly, NEW p \in Procs, CreditEarnings(p)
  PROVE  Orderly'
<1> DEFINE k == ChunkOf(p)
           w == rid[p]
<1>1. /\ pc[p] = "credit" /\ pc' = [pc EXCEPT ![p] = "count"] /\ pc \in [Procs -> Steps]
      /\ rid' = rid /\ todo' = todo /\ UNCHANGED <<job, chunk, result, row, slashed>>
      /\ paid' = [paid EXCEPT ![w] = @ + 1] /\ paid \in [Results -> Nat]
  BY DEF CreditEarnings, Move, TypeInv, Control, RowsOK
<1>2. w \in Taken /\ w \in Results /\ w # NoResult /\ k \in Chunks /\ k < row.done /\ k = result[w].chunk
  BY <1>1, Held DEF Orderly, AtStep, Free, Delivering, Confirming, ChunkOf
<1>3. paid[w] = 0 /\ \A r \in Results : paid[r] > 0 => result[r].chunk # k
  <2>1. \A r \in Results : paid[r] > 0 => result[r].chunk # k
    BY <1>1 DEF Orderly, Paid, Settled, Finalizing
  <2> QED
    BY <1>1, <1>2, <2>1
<1>4. paid'[w] = 1 /\ \A r \in Results : r # w => paid'[r] = paid[r]
  BY <1>1, <1>2, <1>3
<1>5. \A q \in Procs : /\ q # p => pc'[q] = pc[q]
                       /\ rid'[q] = rid[q] /\ ChunkOf(q)' = ChunkOf(q)
                       /\ q # p /\ rid[q] # NoResult => ChunkOf(q) # k
  BY <1>1, <1>2 DEF ChunkOf, Orderly, Apart
<1>6. p = Sweeper => todo = {}
  BY <1>1 DEF Orderly, Unheld
<1>7. Taken' = Taken /\ pc'[p] = "count"
  BY <1>1 DEF Taken
<1>8. Apart' /\ Unheld' /\ Waiting'
  <2>1. Apart'
    BY <1>1, <1>5 DEF Orderly, Apart, Procs
  <2>2. Unheld'
    BY <1>1, <1>5, <1>6, <1>7 DEF Orderly, Unheld, Procs
  <2>3. Waiting'
    BY <1>1 DEF Orderly, Waiting
  <2> QED
    BY <2>1, <2>2, <2>3
<1>9. Frontier'
  <2> SUFFICES ASSUME NEW j \in Chunks PROVE Reached(j)'
    BY DEF Frontier
  <2>1. Reached(j)
    BY DEF Orderly, Frontier
  <2>2. ASSUME NEW q \in Procs, pc[q] \in {"roll", "accept"}
        PROVE  pc'[q] = pc[q] /\ ChunkOf(q)' = ChunkOf(q)
    BY <1>1, <1>5, <2>2
  <2> QED
    BY <1>1, <2>1, <2>2 DEF Reached
<1>10. \A q \in Procs : AtStep(q)'
  <2>1. AtStep(p)'
    BY <1>7 DEF AtStep, Delivering, Confirming
  <2>2. ASSUME NEW q \in Procs, q # p PROVE AtStep(q)'
    <3>1. AtStep(q) /\ (pc[q] \notin Free => rid[q] # NoResult /\ ChunkOf(q) \in Chunks)
      BY Held DEF Orderly
    <3> QED
      BY <1>1, <1>5, <2>2, <3>1, Kept_AtStep
  <2> QED
    BY <2>1, <2>2
<1>11. Paid'
  <2> SUFFICES ASSUME NEW r \in Results, paid'[r] > 0 PROVE Settled(r)'
    BY DEF Paid
  <2>1. \A q \in Procs : pc'[q] \in Finalizing => q # p /\ pc[q] \in Finalizing /\ rid[q] # NoResult
    BY <1>5, <1>7, Held DEF Finalizing, Free
  <2>2. CASE r = w
    <3>1. \A q \in Procs : pc'[q] \in Finalizing => ChunkOf(q)' # result[r].chunk
      BY <1>2, <1>5, <2>1, <2>2
    <3>2. \A q \in Results : paid'[q] > 0 /\ result[q].chunk = result[r].chunk => q = r
      BY <1>2, <1>3, <1>4, <2>2
    <3> QED
      BY <1>1, <1>2, <1>4, <1>7, <2>2, <3>1, <3>2 DEF Settled
  <2>3. CASE r # w
    <3>1. Settled(r) /\ paid[r] > 0 /\ result[r].chunk # k
      BY <1>3, <1>4, <2>3 DEF Orderly, Paid
    <3>2. \A q \in Procs : pc'[q] \in Finalizing => ChunkOf(q)' # result[r].chunk
      BY <1>5, <2>1, <3>1 DEF Settled
    <3>3. \A q \in Results : paid'[q] > 0 /\ result[q].chunk = result[r].chunk => q = r
      BY <1>2, <1>4, <3>1 DEF Settled
    <3> QED
      BY <1>1, <1>4, <1>7, <2>3, <3>1, <3>2, <3>3 DEF Settled
  <2> QED
    BY <2>2, <2>3
<1>12. Closing'
  BY <1>1, <1>5, <1>7 DEF Orderly, Closing, Done
<1>13. Built'
  BY <1>1, <1>7 DEF Orderly, Built
<1>14. Condemned'
  <2>1. pc'[Sweeper] \in {"rejectTx", "slash"} => pc[Sweeper] = pc'[Sweeper]
    BY <1>5, <1>7 DEF Procs
  <2> QED
    BY <1>1, <1>7, <2>1 DEF Orderly, Condemned
<1> QED
  BY <1>8, <1>9, <1>10, <1>11, <1>12, <1>13, <1>14 DEF Orderly

\* A job closes when no chunk is in flight: then its lineage is at an end.
LEMMA Close_Orderly ==
  ASSUME TypeInv, Orderly, NEW p \in Procs, CountRemaining(p) \/ CloseJob(p)
  PROVE  Orderly'
<1>1. CASE CountRemaining(p)
  <2>1. Quiet
    BY <1>1, Rows_Quiet DEF CountRemaining
  <2>2. CASE Finish(p, "count")
    BY <2>1, <2>2, Finish_Orderly
  <2>3. CASE Move(p, "count", "close") /\ \A k \in Chunks : chunk[k].state \notin InFlight
    <3>1. Done
      <4>1. CASE row.done = NChunks
        BY <4>1 DEF Done
      <4>2. CASE row.done # NChunks
        <5>1. row.done \in Chunks
          BY <4>2, TrainingAssumption DEF TypeInv, RowsOK, Chunks
        <5>2. Reached(row.done) /\ chunk[row.done].state \notin InFlight
          BY <2>3, <5>1 DEF Orderly, Frontier
        <5>3. \A q \in Procs : pc[q] # "roll"
          <6> SUFFICES ASSUME NEW q \in Procs, pc[q] = "roll" PROVE FALSE
            OBVIOUS
          <6>1. chunk[ChunkOf(q)].state \in Open /\ ChunkOf(q) \in Chunks
            BY Held DEF Orderly, AtStep, Delivering, Confirming, Free
          <6> QED
            BY <2>3, <6>1 DEF Open, InFlight
        <5> QED
          BY <5>1, <5>2, <5>3 DEF Reached, InFlight, Done
      <4> QED
        BY <4>1, <4>2
    <3>2. AtStep(p)'
      BY <2>1, <2>3, Move_AtStep
    <3> QED
      BY <2>1, <2>3, <3>1, <3>2, Move_Orderly DEF Free, Finalizing
  <2> QED
    BY <1>1, <2>2, <2>3 DEF CountRemaining
<1>2. CASE CloseJob(p)
  <2>1. /\ pc[p] = "close" /\ pc' = [pc EXCEPT ![p] = "idle"] /\ pc \in [Procs -> Steps]
        /\ rid' = [rid EXCEPT ![p] = NoResult] /\ rid \in [Procs -> Results \cup {NoResult}]
        /\ todo' = todo /\ UNCHANGED <<chunk, result, row, paid, slashed>>
    BY <1>2 DEF CloseJob, Finish, TypeInv, Control
  <2>2. Done
    BY <2>1 DEF Orderly, Closing
  <2>3. \A q \in Procs : q # p =>
          /\ pc'[q] = pc[q] /\ rid'[q] = rid[q] /\ ChunkOf(q)' = ChunkOf(q)
          /\ pc[q] \notin Free => ChunkOf(q) \in Chunks
    BY <2>1, Held DEF ChunkOf
  <2>4. pc'[p] = "idle" /\ rid'[p] = NoResult /\ (p = Sweeper => todo = {}) /\ Taken' = Taken
    BY <2>1 DEF Orderly, Unheld, Taken
  <2>5. Apart'
    BY <2>1, <2>3, <2>4 DEF Orderly, Apart, Procs
  <2>6. Unheld'
    BY <2>1, <2>3, <2>4 DEF Orderly, Unheld, Procs
  <2>7. Frontier'
    <3>1. \A q \in Procs : pc[q] \in {"roll", "accept"} => pc'[q] = pc[q] /\ ChunkOf(q)' = ChunkOf(q)
      BY <2>1, <2>3
    <3>2. \A j \in Chunks : Reached(j)
      BY DEF Orderly, Frontier
    <3> QED
      BY <2>1, <3>1, <3>2 DEF Frontier, Reached
  <2>8. \A q \in Procs : AtStep(q)'
    <3>1. AtStep(p)'
      BY <2>4 DEF AtStep, Delivering, Confirming
    <3>2. ASSUME NEW q \in Procs, q # p PROVE AtStep(q)'
      BY <2>1, <2>3, <3>2, Kept_AtStep DEF Orderly
    <3> QED
      BY <3>1, <3>2
  <2>9. Waiting' /\ Built' /\ Closing'
    BY <2>1, <2>2, <2>4 DEF Orderly, Waiting, Built, Closing, Done
  <2>10. Paid'
    <3> SUFFICES ASSUME NEW r \in Results, paid[r] > 0 PROVE Settled(r)'
      BY <2>1 DEF Paid
    <3>1. Settled(r)
      BY DEF Orderly, Paid
    <3>2. \A q \in Procs : pc'[q] \in Finalizing => ChunkOf(q)' # result[r].chunk
      BY <2>3, <2>4, <3>1 DEF Settled, Finalizing
    <3> QED
      BY <2>1, <2>4, <3>1, <3>2 DEF Settled
  <2>11. Condemned'
    <3>1. pc'[Sweeper] \in {"rejectTx", "slash"} => pc[Sweeper] = pc'[Sweeper] /\ rid'[Sweeper] = rid[Sweeper]
      BY <2>3, <2>4 DEF Procs
    <3> QED
      BY <2>1, <2>4, <3>1 DEF Orderly, Condemned
  <2> QED
    BY <2>5, <2>6, <2>7, <2>8, <2>9, <2>10, <2>11 DEF Orderly
<1> QED
  BY <1>1, <1>2

\* A state whose last chunk is not what the module computes is not sound.
LEMMA Fabricated_Unsound ==
  ASSUME NEW n \in Nat, NEW s \in States(n)
  PROVE  ~Sound(Append(s, FALSE))
<1>1. s \in Seq(BOOLEAN) /\ Len(s) \in Nat
  <2>1. PICK m \in 0..n : s \in [1..m -> BOOLEAN]
    BY DEF States
  <2>2. s \in Seq(BOOLEAN)
    BY <2>1, SeqDef
  <2> QED
    BY <2>2
<1> DEFINE i == Len(s) + 1
<1>2. i \in DOMAIN Append(s, FALSE) /\ Append(s, FALSE)[i] = FALSE
  BY <1>1
<1> QED
  BY <1>2, Zenon DEF Sound

\* The sweep rejects, and burns a bond for, what a replay shows to be wrong.
LEMMA Confirm_Orderly ==
  ASSUME TypeInv, Orderly, failures = 0, failures' = 0,
         FetchAssertion \/ Replay \/ ConfirmTx \/ RejectTx \/ CountAttempt \/ FlagLineage
  PROVE  Orderly'
<1> USE DEF Confirming, Free, Finalizing
<1>s. Sweeper \in Procs
  BY DEF Procs
<1>f. ~Trouble
  BY DEF Trouble
<1>1. CASE FetchAssertion \/ ConfirmTx
  <2>1. Quiet
    BY <1>1, Rows_Quiet DEF FetchAssertion, ConfirmTx
  <2>2. ASSUME NEW from \in Confirming, Finish(Sweeper, from) PROVE Orderly'
    BY <1>s, <2>1, <2>2, Finish_Orderly
  <2>3. ASSUME NEW from \in Confirming, NEW to \in {"replay", "advance"}, Move(Sweeper, from, to)
        PROVE  Orderly'
    <3>1. AtStep(Sweeper)' /\ (to = "advance" => ChunkOf(Sweeper) = row.done)
      BY <1>s, <2>1, <2>3, Move_AtStep
    <3> QED
      BY <1>s, <2>1, <2>3, <3>1, Move_Orderly
  <2> QED
    BY <1>1, <2>2, <2>3 DEF FetchAssertion, ConfirmTx
<1>2. CASE Replay
  <2>1. Quiet
    BY <1>2, Rows_Quiet DEF Replay
  <2>2. CASE Move(Sweeper, "replay", "confirm")
    <3>1. AtStep(Sweeper)'
      BY <1>s, <2>1, <2>2, Move_AtStep
    <3> QED
      BY <1>s, <2>1, <2>2, <3>1, Move_Orderly
  <2>3. CASE Move(Sweeper, "replay", "rejectTx") /\ ~Matches
    <3>1. AtStep(Sweeper)'
      BY <1>s, <2>1, <2>3, Move_AtStep
    <3>2. ~Sound(result[rid[Sweeper]].final)
      <4>1. /\ rid[Sweeper] \in Taken /\ ChunkOf(Sweeper) = row.done
            /\ result[rid[Sweeper]].chunk = row.done
        BY <1>s, <2>3, Held DEF Move, Orderly, AtStep, ChunkOf
      <4>2. PICK b \in BOOLEAN : result[rid[Sweeper]].final = Append(row.latest, b)
        BY <4>1 DEF Orderly, Built
      <4>3. OriginOf(ChunkOf(Sweeper)) = row.latest
        BY <4>1 DEF OriginOf, Orderly, Built
      <4>4. b # TRUE
        BY <2>3, <4>2, <4>3 DEF Matches, AdvanceState
      <4>5. b = FALSE
        BY <4>4
      <4>6. Cardinality(Taken) \in Nat /\ row.latest \in States(Cardinality(Taken))
        BY Taken_Count DEF TypeInv, Grown
      <4>7. ~Sound(Append(row.latest, FALSE))
        BY <4>6, Fabricated_Unsound
      <4> QED
        BY <4>2, <4>5, <4>7
    <3> QED
      BY <1>s, <2>1, <2>3, <3>1, <3>2, Move_Orderly
  <2> QED
    BY <1>f, <1>2, <2>2, <2>3 DEF Replay
<1>3. CASE RejectTx
  <2>1. Quiet /\ Move(Sweeper, "rejectTx", "slash")
    BY <1>3, Rows_Quiet DEF RejectTx
  <2>2. AtStep(Sweeper)'
    BY <1>s, <2>1, Move_AtStep
  <2>3. ~Sound(result[rid[Sweeper]].final)
    BY <2>1 DEF Move, Orderly, Condemned
  <2> QED
    BY <1>s, <2>1, <2>2, <2>3, Move_Orderly
<1>4. CASE CountAttempt
  <2>1. \A k \in Chunks : chunk'[k].state = chunk[k].state
    BY <1>4 DEF CountAttempt, TypeInv, RowsOK
  <2>2. Quiet
    BY <1>4, <2>1 DEF CountAttempt, Quiet, SameResults
  <2>3. PICK to \in {"quarantine", "repool"} : Move(Sweeper, "attempt", to)
    BY <1>4 DEF CountAttempt
  <2>4. AtStep(Sweeper)'
    BY <1>s, <2>2, <2>3, Move_AtStep
  <2> QED
    BY <1>s, <2>2, <2>3, <2>4, Move_Orderly
<1>5. CASE FlagLineage
  <2>1. row'.done = row.done /\ row'.latest = row.latest
    BY <1>5 DEF FlagLineage, TypeInv, RowsOK
  <2>2. Quiet /\ Move(Sweeper, "flag", "count")
    BY <1>5, <2>1 DEF FlagLineage, Quiet, SameResults
  <2>3. AtStep(Sweeper)'
    BY <1>s, <2>2, Move_AtStep
  <2> QED
    BY <1>s, <2>2, <2>3, Move_Orderly
<1> QED
  BY <1>1, <1>2, <1>3, <1>4, <1>5

\* What a rejection, or a deadline that is over, does to the chunk.
LEMMA Reject_Orderly ==
  ASSUME TypeInv, Orderly, SlashWorker \/ QuarantineChunk \/ Repool
  PROVE  Orderly'
<1>s. Sweeper \in Procs
  BY DEF Procs
<1>1. CASE SlashWorker
  <2>1. /\ pc[Sweeper] = "slash" /\ pc' = [pc EXCEPT ![Sweeper] = "attempt"] /\ pc \in [Procs -> Steps]
        /\ UNCHANGED <<rid, todo, job, chunk, result, row, paid>>
        /\ slashed' = slashed \cup {rid[Sweeper]}
    BY <1>1 DEF SlashWorker, Move, TypeInv, Control
  <2>2. rid[Sweeper] \in Taken /\ ~Sound(result[rid[Sweeper]].final) /\ Taken' = Taken
    BY <1>s, <2>1, Held DEF Orderly, Condemned, Free, Taken
  <2>3. \A q \in Procs : /\ rid'[q] = rid[q] /\ ChunkOf(q)' = ChunkOf(q)
                         /\ q # Sweeper => pc'[q] = pc[q]
    BY <2>1 DEF ChunkOf
  <2>4. pc'[Sweeper] = "attempt"
    BY <1>s, <2>1
  <2>5. Apart' /\ Unheld' /\ Waiting'
    <3>1. Apart'
      BY <2>1, <2>3 DEF Orderly, Apart, Procs
    <3>2. Unheld'
      BY <1>s, <2>1, <2>3, <2>4 DEF Orderly, Unheld
    <3> QED
      BY <2>1, <3>1, <3>2 DEF Orderly, Waiting
  <2>6. Frontier'
    <3>1. \A q \in Procs : pc[q] \in {"roll", "accept"} => pc'[q] = pc[q] /\ ChunkOf(q)' = ChunkOf(q)
      BY <2>1, <2>3
    <3>2. \A j \in Chunks : Reached(j)
      BY DEF Orderly, Frontier
    <3> QED
      BY <2>1, <3>1, <3>2 DEF Frontier, Reached
  <2>7. \A q \in Procs : AtStep(q)'
    <3>1. AtStep(Sweeper) /\ AtStep(Sweeper)'
      BY <1>s, <2>1, <2>3, <2>4 DEF Orderly, AtStep, Delivering, Confirming
    <3>2. ASSUME NEW q \in Procs, q # Sweeper PROVE AtStep(q)'
      BY <2>1, <2>3, <3>2, Held, Kept_AtStep DEF Orderly
    <3> QED
      BY <3>1, <3>2
  <2>8. Paid'
    <3> SUFFICES ASSUME NEW r \in Results, paid[r] > 0 PROVE Settled(r)'
      BY <2>1 DEF Paid
    <3>1. Settled(r)
      BY DEF Orderly, Paid
    <3>2. \A q \in Procs : pc'[q] \in Finalizing => ChunkOf(q)' # result[r].chunk
      BY <2>3, <2>4, <3>1 DEF Settled, Finalizing
    <3> QED
      BY <2>1, <2>2, <3>1, <3>2 DEF Settled
  <2>9. Closing' /\ Built'
    BY <2>1, <2>2, <2>3, <2>4 DEF Orderly, Closing, Done, Built
  <2>10. Condemned'
    BY <2>1, <2>2, <2>4 DEF Orderly, Condemned
  <2> QED
    BY <2>5, <2>6, <2>7, <2>8, <2>9, <2>10 DEF Orderly
<1>2. CASE QuarantineChunk \/ Repool
  <2> DEFINE k == ChunkOf(Sweeper)
             to == IF pc[Sweeper] = "quarantine" THEN "flag" ELSE "idle"
             s == IF pc[Sweeper] = "quarantine" THEN "quarantined" ELSE "pending"
  <2>1. /\ pc[Sweeper] \in {"quarantine", "repool"} /\ pc' = [pc EXCEPT ![Sweeper] = to]
        /\ rid' = IF to = "idle" THEN [rid EXCEPT ![Sweeper] = NoResult] ELSE rid
        /\ chunk' = [chunk EXCEPT ![k].state = s]
        /\ UNCHANGED <<todo, job, result, row, paid, slashed>>
    BY <1>2 DEF QuarantineChunk, Repool, Move, Finish, SetChunk
  <2>2. /\ rid[Sweeper] # NoResult /\ k \in Chunks /\ k = row.done
        /\ chunk[k].state = "awaiting_confirm" /\ todo = {}
    BY <1>s, <2>1, Held DEF Orderly, AtStep, Unheld, Confirming, Free
  <2>3. \A j \in Chunks : chunk'[j].state = IF j = row.done THEN s ELSE chunk[j].state
    BY <2>1, <2>2 DEF TypeInv, RowsOK
  <2>4. s \in {"awaiting_confirm", "pending", "quarantined"}
    OBVIOUS
  <2>5. \/ to \in {"idle", "expire"} /\ rid' = [rid EXCEPT ![Sweeper] = NoResult]
        \/ to = "flag" /\ rid' = rid
    BY <2>1
  <2> HIDE DEF s, to
  <2> QED
    BY <1>s, <2>1, <2>2, <2>3, <2>4, <2>5, Leave_Orderly
<1> QED
  BY <1>1, <1>2

LEMMA Expire_Orderly ==
  ASSUME TypeInv, Orderly, ExpireStep
  PROVE  Orderly'
<1>s. Sweeper \in Procs /\ Sweeper \notin Handlers
  BY TrainingAssumption DEF Procs
<1>1. ASSUME NEW r \in Results, ExpireDelivery(r) PROVE Orderly'
  <2>1. /\ pc[Sweeper] = "expire" /\ r \in todo /\ pc' = [pc EXCEPT ![Sweeper] = "expireChunk"]
        /\ rid' = [rid EXCEPT ![Sweeper] = r] /\ todo' = todo \ {r}
        /\ result' = [result EXCEPT ![r].state = "failed"]
        /\ UNCHANGED <<job, chunk, row, paid, slashed>>
        /\ pc \in [Procs -> Steps] /\ rid \in [Procs -> Results \cup {NoResult}]
    BY <1>1 DEF ExpireDelivery, TypeInv, Control
  <2>2. r \in Taken /\ r # NoResult
    BY <2>1, TrainingAssumption DEF TypeInv, Control, HasRow
  <2>3. SameResults
    BY <2>1, <2>2 DEF SameResults, Taken, TypeInv, RowsOK
  <2>4. Taken' = Taken /\ \A q \in Results : result'[q].chunk = result[q].chunk /\ result'[q].final = result[q].final
    BY <2>3, Same_Taken DEF SameResults
  <2>5. /\ rid[Sweeper] = NoResult /\ result[r].chunk = row.done
        /\ chunk[row.done].state \in {"awaiting_outputs", "pending"}
    BY <1>s, <2>1 DEF Orderly, Unheld, Waiting
  <2>6. pc'[Sweeper] = "expireChunk" /\ rid'[Sweeper] = r /\ ChunkOf(Sweeper)' = row.done
    BY <1>s, <2>1, <2>4, <2>5 DEF ChunkOf
  <2>7. \A q \in Procs : q # Sweeper =>
          /\ pc'[q] = pc[q] /\ rid'[q] = rid[q]
          /\ rid[q] # NoResult \/ pc[q] \notin Free =>
               /\ rid[q] \in Taken /\ rid[q] \in Results /\ rid[q] # NoResult /\ ChunkOf(q) \in Chunks
               /\ ChunkOf(q)' = ChunkOf(q) /\ ChunkOf(q) # row.done
    <3> SUFFICES ASSUME NEW q \in Procs, q # Sweeper, rid[q] # NoResult \/ pc[q] \notin Free
                 PROVE  /\ rid[q] \in Taken /\ rid[q] \in Results /\ rid[q] # NoResult /\ ChunkOf(q) \in Chunks
                        /\ ChunkOf(q)' = ChunkOf(q) /\ ChunkOf(q) # row.done
      BY <2>1
    <3>1. rid[q] \in Taken /\ rid[q] \in Results /\ rid[q] # NoResult /\ ChunkOf(q) \in Chunks /\ rid'[q] = rid[q]
      BY <2>1, Held
    <3>2. ChunkOf(q) # result[r].chunk
      BY <2>1, <3>1 DEF Orderly, Apart, Procs
    <3> QED
      BY <2>4, <2>5, <3>1, <3>2 DEF ChunkOf
  <2>8. \A q \in todo : q \in Results /\ result[q].chunk = row.done /\ row.done \in Chunks
    BY DEF Orderly, Waiting, TypeInv, Control, RowsOK
  <2>9. Apart'
    BY <1>s, <2>1, <2>4, <2>6, <2>7, <2>8 DEF Apart, Orderly, Procs
  <2>10. Unheld'
    BY <2>2, <2>6, <2>7 DEF Unheld, Orderly, Procs
  <2>11. Frontier'
    <3>1. \A q \in Procs : pc[q] \in {"roll", "accept"} => pc'[q] = pc[q] /\ ChunkOf(q)' = ChunkOf(q)
      BY <2>1, <2>7 DEF Free
    <3>2. \A j \in Chunks : Reached(j)
      BY DEF Orderly, Frontier
    <3> QED
      BY <2>1, <3>1, <3>2 DEF Frontier, Reached
  <2>12. \A q \in Procs : AtStep(q)'
    <3>1. AtStep(Sweeper)'
      BY <2>1, <2>5, <2>6 DEF AtStep, Delivering, Confirming
    <3>2. ASSUME NEW q \in Procs, q # Sweeper PROVE AtStep(q)'
      BY <2>1, <2>7, <3>2, Kept_AtStep DEF Orderly
    <3> QED
      BY <3>1, <3>2
  <2>13. Waiting'
    BY <2>1, <2>4, <2>8 DEF Orderly, Waiting
  <2>14. Paid'
    <3> SUFFICES ASSUME NEW q \in Results, paid[q] > 0 PROVE Settled(q)'
      BY <2>1 DEF Paid
    <3>1. Settled(q)
      BY DEF Orderly, Paid
    <3>2. \A x \in Procs : pc'[x] \in Finalizing => ChunkOf(x)' # result[q].chunk
      BY <2>6, <2>7, <3>1 DEF Settled, Finalizing, Free
    <3> QED
      BY <2>1, <2>4, <3>1, <3>2 DEF Settled
  <2>15. Closing'
    BY <2>1, <2>6, <2>7 DEF Orderly, Closing, Done
  <2>16. Built'
    BY <2>1, <2>4 DEF Orderly, Built, Taken
  <2>17. Condemned'
    <3>1. slashed' = slashed /\ pc'[Sweeper] \notin {"rejectTx", "slash"}
      BY <2>1, <2>6
    <3>2. \A q \in slashed : q \in Taken /\ q \in Results /\ ~Sound(result[q].final)
      BY DEF Orderly, Condemned, Taken
    <3>3. \A q \in slashed' : q \in Taken' /\ ~Sound(result'[q].final)
      BY <2>4, <3>1, <3>2
    <3> QED
      BY <3>1, <3>3 DEF Condemned, Sound
  <2> QED
    BY <2>9, <2>10, <2>11, <2>12, <2>13, <2>14, <2>15, <2>16, <2>17 DEF Orderly
<1>2. CASE ExpireChunk
  <2> DEFINE k == ChunkOf(Sweeper)
             to == IF todo = {} THEN "idle" ELSE "expire"
  <2>1. /\ pc[Sweeper] = "expireChunk" /\ pc' = [pc EXCEPT ![Sweeper] = to]
        /\ rid' = [rid EXCEPT ![Sweeper] = NoResult]
        /\ chunk' = [chunk EXCEPT ![k] = [state |-> "pending", attempts |-> Attempts(k)]]
        /\ UNCHANGED <<todo, job, result, row, paid, slashed>>
    BY <1>2 DEF ExpireChunk
  <2>2. /\ rid[Sweeper] # NoResult /\ k \in Chunks /\ k = row.done
        /\ chunk[k].state \in {"awaiting_outputs", "pending"}
    BY <1>s, <2>1, Held DEF Orderly, AtStep, Free
  <2>3. \A j \in Chunks : chunk'[j].state = IF j = row.done THEN "pending" ELSE chunk[j].state
    BY <2>1, <2>2 DEF TypeInv, RowsOK
  <2>4. to \in {"idle", "expire"} /\ (todo = {} \/ to = "expire")
    OBVIOUS
  <2> HIDE DEF to
  <2> QED
    BY <1>s, <2>1, <2>2, <2>3, <2>4, Leave_Orderly
<1> QED
  BY <1>1, <1>2 DEF ExpireStep

\* Only a chunk that is in flight and that nobody is at can be taken up, and
\* that is the one at the frontier.
LEMMA At_Frontier ==
  ASSUME TypeInv, Orderly, NEW k \in Chunks, ~Busy(k),
         chunk[k].state \in {"pending", "awaiting_outputs", "awaiting_confirm"}
  PROVE  k = row.done /\ todo = {}
<1>1. \A q \in Procs : pc[q] \in {"roll", "accept"} => ChunkOf(q) # k
  BY Held DEF Busy, Free
<1>2. k = row.done
  BY <1>1 DEF Orderly, Frontier, Reached, Chunks, TypeInv, RowsOK
<1> QED
  BY <1>2 DEF Orderly, Waiting, Busy

\* A process that takes up a result leaves the rest as it was.
LEMMA Begin_Orderly ==
  ASSUME TypeInv, Orderly, NEW p \in Procs, NEW r \in Taken, NEW to, Begin(p, r, to),
         ~Busy(result[r].chunk),
         \/ to = "store" /\ chunk[result[r].chunk].state = "awaiting_outputs"
         \/ to = "fetchAssertion" /\ chunk[result[r].chunk].state = "awaiting_confirm",
         UNCHANGED rows
  PROVE  Orderly'
<1>1. /\ pc[p] = "idle" /\ pc' = [pc EXCEPT ![p] = to] /\ pc \in [Procs -> Steps]
      /\ rid' = [rid EXCEPT ![p] = r] /\ rid \in [Procs -> Results \cup {NoResult}]
      /\ UNCHANGED <<todo, job, chunk, result, row, paid, slashed>>
  BY DEF Begin, TypeInv, Control, rows
<1>2. /\ r \in Results /\ r # NoResult /\ result[r].chunk \in Chunks
      /\ result[r].chunk = row.done /\ todo = {}
  <2>1. r \in Results /\ r # NoResult /\ result[r].chunk \in Chunks
    BY TrainingAssumption DEF Taken, TypeInv, RowsOK
  <2> QED
    BY <2>1, At_Frontier
<1>3. pc'[p] = to /\ rid'[p] = r /\ ChunkOf(p)' = row.done /\ Taken' = Taken
  BY <1>1, <1>2 DEF ChunkOf, Taken
<1>4. \A q \in Procs : q # p =>
        /\ pc'[q] = pc[q] /\ rid'[q] = rid[q] /\ ChunkOf(q)' = ChunkOf(q)
        /\ rid[q] # NoResult => ChunkOf(q) # row.done
        /\ pc[q] \notin Free => rid[q] # NoResult /\ ChunkOf(q) \in Chunks
  BY <1>1, <1>2, Held DEF ChunkOf, Busy
<1>5. Apart' /\ Unheld' /\ Waiting'
  <2>1. Apart'
    BY <1>1, <1>2, <1>3, <1>4 DEF Orderly, Apart, Procs
  <2>2. Unheld'
    BY <1>1, <1>2, <1>3, <1>4 DEF Orderly, Unheld
  <2> QED
    BY <1>1, <1>2, <2>1, <2>2 DEF Waiting
<1>6. Frontier'
  <2>1. \A q \in Procs : pc[q] \in {"roll", "accept"} => pc'[q] = pc[q] /\ ChunkOf(q)' = ChunkOf(q)
    BY <1>1, <1>4
  <2>2. \A j \in Chunks : Reached(j)
    BY DEF Orderly, Frontier
  <2> QED
    BY <1>1, <2>1, <2>2 DEF Frontier, Reached
<1>7. \A q \in Procs : AtStep(q)'
  <2>1. AtStep(p)'
    BY <1>1, <1>2, <1>3 DEF AtStep, Delivering, Confirming
  <2>2. ASSUME NEW q \in Procs, q # p PROVE AtStep(q)'
    BY <1>1, <1>4, <2>2, Kept_AtStep DEF Orderly
  <2> QED
    BY <2>1, <2>2
<1>8. Paid'
  <2> SUFFICES ASSUME NEW q \in Results, paid[q] > 0 PROVE Settled(q)'
    BY <1>1 DEF Paid
  <2>1. Settled(q)
    BY DEF Orderly, Paid
  <2>2. \A x \in Procs : pc'[x] \in Finalizing => ChunkOf(x)' # result[q].chunk
    BY <1>3, <1>4, <2>1 DEF Settled, Finalizing
  <2> QED
    BY <1>1, <1>3, <2>1, <2>2 DEF Settled
<1>9. Closing' /\ Built'
  BY <1>1, <1>3, <1>4 DEF Orderly, Closing, Done, Built
<1>10. Condemned'
  <2>1. pc'[Sweeper] \in {"rejectTx", "slash"} => pc[Sweeper] = pc'[Sweeper] /\ rid'[Sweeper] = rid[Sweeper]
    BY <1>3, <1>4 DEF Procs
  <2> QED
    BY <1>1, <1>3, <2>1 DEF Orderly, Condemned
<1> QED
  BY <1>5, <1>6, <1>7, <1>8, <1>9, <1>10 DEF Orderly

LEMMA Start_Orderly ==
  ASSUME ~overlapped', TypeInv, Orderly,
         \/ \E h \in Handlers : CompleteOther(h) \/ \E r \in Results : StartDeliver(h, r)
         \/ \E r \in Results : SelectParked(r) \/ Reaudit(r)
         \/ Tick
  PROVE  Orderly'
<1>1. ASSUME NEW h \in Handlers, CompleteOther(h) PROVE Orderly'
  <2>1. h \in Procs /\ h # Sweeper
    BY TrainingAssumption DEF Procs
  <2>2. Quiet /\ Move(h, "idle", "count")
    BY <1>1, Rows_Quiet DEF CompleteOther, Move
  <2>3. AtStep(h)'
    BY <2>1, <2>2, Move_AtStep
  <2> QED
    BY <2>1, <2>2, <2>3, Move_Orderly DEF Free, Finalizing
<1>2. ASSUME NEW h \in Handlers, NEW r \in Results, StartDeliver(h, r) PROVE Orderly'
  <2>1. h \in Procs /\ r \in Taken /\ ~Busy(result[r].chunk)
    BY <1>2 DEF StartDeliver, Procs, Taken, TakesUp
  <2> QED
    BY <1>2, <2>1, Begin_Orderly DEF StartDeliver
<1>3. ASSUME NEW r \in Results, SelectParked(r) PROVE Orderly'
  <2>1. Sweeper \in Procs /\ r \in Taken /\ ~Busy(result[r].chunk)
    BY <1>3 DEF SelectParked, Parked, Procs, Taken, TakesUp
  <2> QED
    BY <1>3, <2>1, Begin_Orderly DEF SelectParked, Parked
<1>4. ASSUME NEW r \in Results, Reaudit(r) PROVE Orderly'
  <2>1. row'.done = row.done /\ row'.latest = row.latest
    BY <1>4 DEF Reaudit, TypeInv, RowsOK
  <2>2. Quiet /\ UNCHANGED <<pc, rid, todo>>
    BY <1>4, <2>1 DEF Reaudit, Quiet, SameResults, procs
  <2> QED
    BY <2>2, Same_Orderly
<1>5. CASE Tick
  <2>1. Quiet /\ UNCHANGED <<pc, rid, todo>>
    BY <1>5, Rows_Quiet DEF Tick, procs
  <2> QED
    BY <2>1, Same_Orderly
<1> QED
  BY <1>1, <1>2, <1>3, <1>4, <1>5

\* A result that passes continues the frontier.
LEMMA Passes_Orderly ==
  ASSUME ~overlapped', TypeInv, Orderly,
         NEW r \in Results, NEW k \in Chunks, NEW sound \in BOOLEAN, Passes(r, k, sound)
  PROVE  Orderly'
<1>1. /\ chunk[k].state = "pending" /\ ~Busy(k) /\ r \notin Taken
      /\ UNCHANGED <<pc, rid, todo, job, row, paid, slashed>>
  BY DEF Passes, TakesUp, procs, Taken
<1>2. k = row.done /\ todo = {}
  BY <1>1, At_Frontier
<1>3. PICK b \in BOOLEAN :
        result' = [result EXCEPT ![r] = [state |-> "passed", chunk |-> k, kept |-> FALSE,
                                         final |-> Append(OriginOf(k), b)]]
  BY DEF Passes, AdvanceState
<1> DEFINE new == [state |-> "passed", chunk |-> k, kept |-> FALSE, final |-> Append(OriginOf(k), b)]
<1>4. new.chunk = k /\ new.state = "passed" /\ new.final = Append(OriginOf(k), b) /\ result' = [result EXCEPT ![r] = new]
  BY <1>3
<1> HIDE DEF new
<1>5. /\ Taken' = Taken \cup {r}
      /\ result'[r].chunk = k /\ result'[r].final = Append(OriginOf(k), b)
      /\ \A q \in Taken : q \in Results /\ q # r /\ result'[q] = result[q]
  BY <1>1, <1>4 DEF TypeInv, RowsOK, Taken
<1>6. \A j \in Chunks : chunk'[j].state = IF j = k THEN "awaiting_outputs" ELSE chunk[j].state
  BY DEF Passes, TypeInv, RowsOK
<1>7. \A q \in Procs : rid[q] # NoResult \/ pc[q] \notin Free =>
        /\ rid[q] \in Taken /\ rid[q] # NoResult /\ ChunkOf(q) \in Chunks
        /\ ChunkOf(q)' = ChunkOf(q) /\ ChunkOf(q) # k
  <2> SUFFICES ASSUME NEW q \in Procs, rid[q] # NoResult \/ pc[q] \notin Free
               PROVE  /\ rid[q] \in Taken /\ rid[q] # NoResult /\ ChunkOf(q) \in Chunks
                      /\ ChunkOf(q)' = ChunkOf(q) /\ ChunkOf(q) # k
    OBVIOUS
  <2>1. rid[q] \in Taken /\ rid[q] # NoResult /\ ChunkOf(q) \in Chunks
    BY Held
  <2> QED
    BY <1>1, <1>5, <2>1 DEF ChunkOf, Busy
<1>8. Apart' /\ Unheld' /\ Waiting'
  <2>1. Apart'
    BY <1>1, <1>2, <1>7 DEF Orderly, Apart, Procs
  <2> QED
    BY <1>1, <1>2, <2>1 DEF Orderly, Unheld, Waiting
<1>9. Frontier'
  <2> SUFFICES ASSUME NEW j \in Chunks PROVE Reached(j)'
    BY DEF Frontier
  <2>1. Reached(j)
    BY DEF Orderly, Frontier
  <2>2. CASE j = k
    BY <1>1, <1>2, <1>6, <2>2 DEF Reached, Chunks
  <2>3. CASE j # k
    <3>1. \A q \in Procs : pc[q] \in {"roll", "accept"} => pc'[q] = pc[q] /\ ChunkOf(q)' = ChunkOf(q)
      BY <1>1, <1>7 DEF Free
    <3> QED
      BY <1>1, <1>6, <2>1, <2>3, <3>1 DEF Reached
  <2> QED
    BY <2>2, <2>3
<1>10. \A q \in Procs : AtStep(q)'
  <2> SUFFICES ASSUME NEW q \in Procs PROVE AtStep(q)'
    OBVIOUS
  <2>1. AtStep(q)
    BY DEF Orderly
  <2>2. pc[q] # "roll"
    BY <1>1, <1>2, <2>1 DEF AtStep
  <2> QED
    BY <1>1, <1>6, <1>7, <2>1, <2>2, Kept_AtStep
<1>11. Paid'
  <2> SUFFICES ASSUME NEW q \in Results, paid[q] > 0 PROVE Settled(q)'
    BY <1>1 DEF Paid
  <2>1. Settled(q)
    BY DEF Orderly, Paid
  <2>2. q \in Taken /\ result'[q].chunk = result[q].chunk
    BY <1>5, <2>1 DEF Settled
  <2>3. \A x \in Procs : pc'[x] \in Finalizing => ChunkOf(x)' # result[q].chunk
    BY <1>1, <1>7, <2>1 DEF Settled, Finalizing, Free
  <2>4. \A x \in Results : paid[x] > 0 => x \in Taken
    BY DEF Orderly, Paid, Settled
  <2>5. \A x \in Results : paid'[x] > 0 /\ result'[x].chunk = result'[q].chunk => x = q
    BY <1>1, <1>5, <2>1, <2>2, <2>4 DEF Settled
  <2> QED
    BY <1>1, <1>5, <2>1, <2>2, <2>3, <2>5 DEF Settled
<1>12. Closing'
  <2>1. Done => Done'
    BY <1>1, <1>6 DEF Done
  <2> QED
    BY <1>1, <2>1 DEF Orderly, Closing
<1>13. Built'
  <2>1. OriginOf(k) = row.latest
    BY <1>2 DEF OriginOf, Orderly, Built
  <2>2. result'[r].chunk <= row.done /\ result'[r].final = Append(row.latest, b)
    BY <1>2, <1>5, <2>1 DEF TypeInv, RowsOK
  <2>3. \A q \in Taken : /\ result'[q].chunk <= row.done
                         /\ result'[q].chunk = row.done => \E c \in BOOLEAN : result'[q].final = Append(row.latest, c)
    BY <1>5 DEF Orderly, Built
  <2> QED
    BY <1>1, <1>5, <2>2, <2>3 DEF Orderly, Built
<1>14. Condemned'
  <2>1. pc[Sweeper] \in {"rejectTx", "slash"} => rid[Sweeper] \in Taken
    BY <1>7 DEF Procs, Free
  <2> QED
    BY <1>1, <1>5, <2>1 DEF Orderly, Condemned
<1> QED
  BY <1>8, <1>9, <1>10, <1>11, <1>12, <1>13, <1>14 DEF Orderly

\* The deliveries that are overdue are none that anyone is at.
LEMMA Overdue_Orderly ==
  ASSUME ~overlapped', TypeInv, Orderly, SelectUndelivered
  PROVE  Orderly'
<1>1. /\ pc[Sweeper] = "idle" /\ pc' = [pc EXCEPT ![Sweeper] = "expire"] /\ pc \in [Procs -> Steps]
      /\ todo' # {} /\ UNCHANGED <<rid, job, chunk, result, row, paid, slashed>>
  BY DEF SelectUndelivered, rows, TypeInv, Control
<1>2. \A r \in todo' : /\ r \in Results /\ ~Busy(result[r].chunk)
                       /\ chunk[result[r].chunk].state = "awaiting_outputs" /\ result[r].chunk \in Chunks
  BY DEF SelectUndelivered, Awaited, TakesUp, TypeInv, RowsOK
<1>3. \A r \in todo' : result[r].chunk = row.done
  BY <1>2, At_Frontier
<1>4. \A q \in Procs : /\ q # Sweeper => pc'[q] = pc[q]
                       /\ rid'[q] = rid[q] /\ ChunkOf(q)' = ChunkOf(q)
  BY <1>1 DEF ChunkOf
<1>5. pc'[Sweeper] = "expire" /\ rid[Sweeper] = NoResult /\ Sweeper \in Procs /\ Taken' = Taken
  BY <1>1 DEF Orderly, Unheld, Procs, Taken
<1>6. Apart'
  <2>1. \A h \in Handlers, r \in todo' : rid[h] # NoResult => ChunkOf(h) # result[r].chunk
    BY <1>2 DEF Busy, Procs
  <2> QED
    BY <1>1, <1>4, <2>1 DEF Orderly, Apart, Procs
<1>7. Unheld'
  BY <1>4, <1>5 DEF Orderly, Unheld
<1>8. Frontier'
  <2>1. \A q \in Procs : pc[q] \in {"roll", "accept"} => pc'[q] = pc[q] /\ ChunkOf(q)' = ChunkOf(q)
    BY <1>1, <1>4
  <2>2. \A j \in Chunks : Reached(j)
    BY DEF Orderly, Frontier
  <2> QED
    BY <1>1, <2>1, <2>2 DEF Frontier, Reached
<1>9. \A q \in Procs : AtStep(q)'
  <2>1. AtStep(Sweeper)'
    BY <1>5 DEF AtStep, Delivering, Confirming
  <2>2. ASSUME NEW q \in Procs, q # Sweeper PROVE AtStep(q)'
    BY <1>1, <1>4, <2>2, Held, Kept_AtStep DEF Orderly
  <2> QED
    BY <2>1, <2>2
<1>10. Waiting'
  BY <1>1, <1>2, <1>3 DEF Waiting
<1>11. Paid'
  <2> SUFFICES ASSUME NEW q \in Results, paid[q] > 0 PROVE Settled(q)'
    BY <1>1 DEF Paid
  <2>1. Settled(q)
    BY DEF Orderly, Paid
  <2>2. \A x \in Procs : pc'[x] \in Finalizing => ChunkOf(x)' # result[q].chunk
    BY <1>4, <1>5, <2>1 DEF Settled, Finalizing
  <2> QED
    BY <1>1, <1>5, <2>1, <2>2 DEF Settled
<1>12. Closing' /\ Built' /\ Condemned'
  BY <1>1, <1>4, <1>5 DEF Orderly, Closing, Done, Built, Condemned
<1> QED
  BY <1>6, <1>7, <1>8, <1>9, <1>10, <1>11, <1>12 DEF Orderly

\* Failures are only ever counted up; what has crossed or overlapped stays so.
LEMMA History_Step ==
  ASSUME [Next]_vars
  PROVE  /\ failures' = failures \/ failures' = failures + 1
         /\ crossed => crossed'
         /\ overlapped => overlapped'
<1> DEFINE Onward == /\ failures' = failures \/ failures' = failures + 1
                     /\ crossed => crossed'
                     /\ overlapped => overlapped'
<1>1. Smooth => Onward
  <2>1. Smooth => failures' = failures /\ crossed' = crossed /\ overlapped' = overlapped
    BY Zenon DEF Smooth, history, marks
  <2> QED
    BY <2>1, Zenon
<1>2. Trouble => Onward
  <2>1. Trouble => failures' = failures + 1 /\ crossed' = crossed /\ overlapped' = overlapped
    BY Zenon DEF Trouble, marks
  <2> QED
    BY <2>1, Zenon
<1> SUFFICES Onward
  BY Zenon DEF Onward
<1> HIDE DEF Onward
<1>0. CASE UNCHANGED vars
  BY <1>0, <1>1, Zenon DEF vars, Smooth
<1>3. ASSUME NEW r \in Results, NEW k \in Chunks, NEW sound \in BOOLEAN, Passes(r, k, sound)
      PROVE  Onward
  BY <1>3, Zenon DEF Passes, TakesUp, Onward
<1>4. ASSUME NEW h \in Handlers, CompleteOther(h) \/ \E r \in Results : StartDeliver(h, r)
      PROVE  Onward
  <2>1. CASE CompleteOther(h)
    BY <1>1, <2>1, Zenon DEF CompleteOther
  <2>2. ASSUME NEW r \in Results, StartDeliver(h, r) PROVE Onward
    BY <2>2, Zenon DEF StartDeliver, TakesUp, Onward
  <2> QED
    BY <1>4, <2>1, <2>2
<1>5. ASSUME NEW p \in Procs, Finalize(p) PROVE Onward
  BY <1>1, <1>5, Zenon DEF Finalize, AdvanceLineage, RollSuccessor, AcceptChunk,
              CreditEarnings, CountRemaining, CloseJob
<1>6. ASSUME NEW h \in Handlers, DeliverStep(h) PROVE Onward
  <2>1. h \in Procs
    BY DEF Procs
  <2>2. CASE Finalize(h)
    BY <1>5, <2>1, <2>2
  <2>3. CASE StoreState(h) \/ ReadOrigin(h) \/ FetchAnchor(h) \/ ParkChunk(h)
    BY <1>1, <1>2, <2>3, Zenon DEF StoreState, ReadOrigin, FetchAnchor, ParkChunk
  <2>4. CASE InitAnchor(h) \/ AssertTx(h)
    BY <1>1, <1>2, <2>4, Zenon DEF InitAnchor, AssertTx
  <2> QED
    BY <1>6, <2>2, <2>3, <2>4, Zenon DEF DeliverStep
<1>7. ASSUME NEW r \in Results, SelectParked(r) PROVE Onward
  BY <1>7, Zenon DEF SelectParked, TakesUp, Onward
<1>8. ASSUME NEW r \in Results, Reaudit(r) \/ ExpireDelivery(r) PROVE Onward
  BY <1>1, <1>8, Zenon DEF Reaudit, ExpireDelivery, Smooth
<1>9. CASE ConfirmStep
  <2>1. Sweeper \in Procs
    BY DEF Procs
  <2>2. CASE Finalize(Sweeper)
    BY <1>5, <2>1, <2>2
  <2>3. CASE FetchAssertion \/ Replay
    BY <1>1, <1>2, <2>3, Zenon DEF FetchAssertion, Replay
  <2>4. CASE ConfirmTx \/ RejectTx
    BY <1>1, <1>2, <2>4, Zenon DEF ConfirmTx, RejectTx
  <2>5. CASE SlashWorker \/ CountAttempt \/ QuarantineChunk \/ FlagLineage \/ Repool
    BY <1>1, <2>5, Zenon DEF SlashWorker, CountAttempt, QuarantineChunk, FlagLineage, Repool
  <2> QED
    BY <1>9, <2>2, <2>3, <2>4, <2>5, Zenon DEF ConfirmStep
<1>10. CASE SelectUndelivered \/ ExpireChunk
  <2>1. CASE SelectUndelivered
    BY <2>1, Zenon DEF SelectUndelivered, TakesUp, Onward
  <2>2. CASE ExpireChunk
    BY <1>1, <2>2, Zenon DEF ExpireChunk
  <2> QED
    BY <1>10, <2>1, <2>2
<1>11. ASSUME NEW p \in Procs, ProcessFails(p) PROVE Onward
  BY <1>2, <1>11, Zenon DEF ProcessFails
<1>12. CASE Tick
  BY <1>1, <1>12, Zenon DEF Tick, Smooth
<1>13. CASE Next
  BY <1>3, <1>4, <1>6, <1>7, <1>8, <1>9, <1>10, <1>11, <1>12, <1>13, Zenon DEF Next, ExpireStep
<1> QED
  BY <1>0, <1>13, Zenon

LEMMA Orderly_Init == Init => Orderly
<1> SUFFICES ASSUME Init PROVE Orderly
  OBVIOUS
<1> USE TrainingAssumption DEF Init
<1>1. Taken = {} /\ \A p \in Procs : pc[p] = "idle" /\ rid[p] = NoResult
  BY DEF Taken
<1>2. 0 \in Chunks /\ row.done = 0 /\ row.latest = Origin
  BY DEF Chunks
<1>3. Apart /\ Unheld /\ Waiting
  BY <1>1 DEF Apart, Unheld, Waiting, Procs
<1>4. Frontier
  BY <1>2 DEF Frontier, Reached, Chunks
<1>5. \A p \in Procs : AtStep(p)
  BY <1>1 DEF AtStep, Delivering, Confirming
<1>6. Paid /\ Closing
  BY <1>1 DEF Paid, Closing
<1>7. Built /\ Condemned
  BY <1>1, <1>2 DEF Built, Condemned, Procs
<1> QED
  BY <1>3, <1>4, <1>5, <1>6, <1>7 DEF Orderly

LEMMA RowInv_Step == TypeInv /\ RowInv /\ [Next]_vars => RowInv'
<1> SUFFICES ASSUME TypeInv, RowInv, [Next]_vars, failures' = 0, ~overlapped' PROVE Orderly'
  BY DEF RowInv
<1>1. failures = 0 /\ ~overlapped
  BY History_Step DEF TypeInv, Notes
<1>2. Orderly
  BY <1>1 DEF RowInv
<1>3. ~Trouble
  BY <1>1 DEF Trouble
<1>4. CASE UNCHANGED vars
  <2>1. Quiet /\ UNCHANGED <<pc, rid, todo>>
    BY <1>4, Rows_Quiet DEF vars, procs
  <2> QED
    BY <1>2, <2>1, Same_Orderly
<1>5. ASSUME NEW p \in Procs, Finalize(p) PROVE Orderly'
  BY <1>2, <1>5, Advance_Orderly, Roll_Orderly, Accept_Orderly, Credit_Orderly, Close_Orderly DEF Finalize
<1>6. ASSUME NEW h \in Handlers, DeliverStep(h) PROVE Orderly'
  BY <1>1, <1>2, <1>5, <1>6, Delivery_Orderly DEF DeliverStep, Procs
<1>7. CASE ConfirmStep
  BY <1>1, <1>2, <1>5, <1>7, Confirm_Orderly, Reject_Orderly DEF ConfirmStep, Procs
<1>8. CASE ExpireStep \/ SelectUndelivered
  BY <1>2, <1>8, Expire_Orderly, Overdue_Orderly
<1>9. CASE \/ \E h \in Handlers : CompleteOther(h) \/ \E r \in Results : StartDeliver(h, r)
           \/ \E r \in Results : SelectParked(r) \/ Reaudit(r)
           \/ Tick
  BY <1>2, <1>9, Start_Orderly
<1>10. ASSUME NEW r \in Results, NEW k \in Chunks, NEW sound \in BOOLEAN, Passes(r, k, sound)
       PROVE  Orderly'
  BY <1>2, <1>10, Passes_Orderly
<1>11. \A p \in Procs : ~ProcessFails(p)
  BY <1>3 DEF ProcessFails
<1> QED
  BY <1>4, <1>6, <1>7, <1>8, <1>9, <1>10, <1>11 DEF Next

LEMMA Rows_Orderly == Spec => []RowInv
<1>1. Init => RowInv
  BY Orderly_Init DEF RowInv
<1>2. TypeInv /\ RowInv /\ [Next]_vars => RowInv'
  BY RowInv_Step
<1> QED
  BY <1>1, <1>2, Typed, PTL DEF Spec

\* PaidOnce until a call fails or two activities overlap on a chunk: whatever is
\* redone, rejected or timed out, the price of a chunk is credited for one
\* result, and once for that.
THEOREM TrainingPaidOnce == Spec => [](failures = 0 /\ ~overlapped => PaidOnce)
<1>1. TypeInv /\ RowInv => (failures = 0 /\ ~overlapped => PaidOnce)
  <2> SUFFICES ASSUME TypeInv, Paid PROVE PaidOnce
    BY DEF RowInv, Orderly
  <2> DEFINE R == {r \in Results : paid[r] > 0}
             K == {result[r].chunk : r \in R}
             f == [r \in R |-> result[r].chunk]
  <2>1. \A r \in Results : paid[r] <= 1
    BY DEF Paid, Settled, TypeInv, RowsOK
  <2>2. IsFiniteSet(R)
    BY StatesAssumption, FS_Subset
  <2>3. f \in Bijection(R, K)
    <3>1. f \in [R -> K] /\ \A c \in K : \E r \in R : f[r] = c
      OBVIOUS
    <3>2. \A q, r \in R : f[q] = f[r] => q = r
      BY DEF Paid, Settled
    <3> HIDE DEF R, K, f
    <3> QED
      BY <3>1, <3>2 DEF Bijection, Injection, Surjection, IsInjective
  <2> HIDE DEF f, K, R
  <2>4. Cardinality(R) = Cardinality(K)
    BY <2>2, <2>3, FS_Bijection DEF ExistsBijection
  <2> QED
    BY <2>1, <2>4 DEF PaidOnce, R, K
<1> QED
  BY <1>1, Typed, Rows_Orderly, PTL

\* ClosedIsDone until two activities overlap on a chunk: between two chunks a
\* lineage never reads as done.
THEOREM TrainingClosedIsDone == Spec => [](~overlapped => ClosedIsDone)
<1>1. RowInv => (~overlapped => ClosedIsDone)
  BY DEF RowInv, Orderly, Closing, Done, ClosedIsDone
<1> QED
  BY <1>1, Rows_Orderly, PTL

\* SoundNeverSlashed until a call fails or two activities overlap on a chunk: the
\* replay of the sweep starts from the state the result was built on, so the
\* bond that goes is a fabricator's.
THEOREM TrainingSoundNeverSlashed ==
  Spec => [](failures = 0 /\ ~overlapped => SoundNeverSlashed)
<1>1. RowInv => (failures = 0 /\ ~overlapped => SoundNeverSlashed)
  BY DEF RowInv, Orderly, Condemned, SoundNeverSlashed
<1> QED
  BY <1>1, Rows_Orderly, PTL
-----------------------------------------------------------------------------
\* The chain is touched by four steps only.
LEMMA Chain_Touched ==
  ASSUME [Next]_vars
  PROVE  \/ UNCHANGED <<lineage, assertion>>
         \/ \E h \in Handlers : InitAnchor(h) \/ AssertTx(h)
         \/ ConfirmTx \/ RejectTx
<1> DEFINE Still == UNCHANGED <<lineage, assertion>>
<1>0. CASE UNCHANGED vars
  BY <1>0 DEF vars, anchorVars
<1>1. ASSUME NEW r \in Results, NEW k \in Chunks, NEW sound \in BOOLEAN, Passes(r, k, sound)
      PROVE  Still
  BY <1>1 DEF Passes, anchorVars
<1>2. ASSUME NEW h \in Handlers, CompleteOther(h) \/ \E r \in Results : StartDeliver(h, r)
      PROVE  Still
  BY <1>2 DEF CompleteOther, StartDeliver, anchorVars
<1>3. ASSUME NEW p \in Procs, Finalize(p) \/ ProcessFails(p)
      PROVE  Still
  BY <1>3 DEF Finalize, ProcessFails, AdvanceLineage, RollSuccessor, AcceptChunk,
              CreditEarnings, CountRemaining, CloseJob, anchorVars
<1>4. ASSUME NEW h \in Handlers, DeliverStep(h) PROVE Still \/ InitAnchor(h) \/ AssertTx(h)
  BY <1>3, <1>4 DEF DeliverStep, Procs, StoreState, ReadOrigin, FetchAnchor, ParkChunk, anchorVars
<1>5. ASSUME NEW r \in Results, SelectParked(r) \/ Reaudit(r) \/ ExpireDelivery(r)
      PROVE  Still
  BY <1>5 DEF SelectParked, Reaudit, ExpireDelivery, anchorVars
<1>6. ASSUME ConfirmStep PROVE Still \/ ConfirmTx \/ RejectTx
  BY <1>3, <1>6 DEF ConfirmStep, Procs, FetchAssertion, Replay, SlashWorker, CountAttempt,
                    QuarantineChunk, FlagLineage, Repool, anchorVars
<1>7. ASSUME SelectUndelivered \/ ExpireChunk \/ Tick PROVE Still
  BY <1>7 DEF SelectUndelivered, ExpireChunk, Tick, SlotPasses, anchorVars
<1> QED
  BY <1>0, <1>1, <1>2, <1>3, <1>4, <1>5, <1>6, <1>7 DEF Next, ExpireStep

\* Every assertion is of a chunk's number of buckets.
LEMMA Sized_Step == TypeInv /\ Sized /\ [Next]_vars => Sized'
<1> SUFFICES ASSUME TypeInv, Sized, [Next]_vars PROVE Sized'
  OBVIOUS
<1>t. assertion \in [Generations -> Assertions \cup {NoAssertion}]
  BY DEF TypeInv, AnchorInv, LineageTypeOK
<1>1. ASSUME UNCHANGED assertion PROVE Sized'
  BY <1>1 DEF Sized
<1>2. ASSUME NEW h \in Handlers, InitAnchor(h) PROVE Sized'
  BY <1>1, <1>2 DEF InitAnchor, InitLineage, anchorVars
<1>3. ASSUME NEW h \in Handlers, AssertTx(h) PROVE Sized'
  <2>1. CASE UNCHANGED anchorVars
    BY <1>1, <2>1 DEF anchorVars
  <2>2. CASE AssertChunk(Start(ChunkOf(h)), origin[h], result[rid[h]].final, Buckets, Window)
    <3> DEFINE a == [from |-> origin[h], to |-> result[rid[h]].final, buckets |-> Buckets,
                     opened |-> slot, window |-> Window]
    <3>1. assertion' = [assertion EXCEPT ![Start(ChunkOf(h))] = a] /\ a.buckets = Buckets
      BY <2>2 DEF AssertChunk
    <3> HIDE DEF a
    <3> QED
      BY <1>t, <3>1 DEF Sized
  <2> QED
    BY <1>3, <2>1, <2>2 DEF AssertTx
<1>4. ASSUME ConfirmTx \/ RejectTx PROVE Sized'
  <2>1. \A g \in Generations : assertion'[g] # NoAssertion => assertion'[g] = assertion[g]
    BY <1>t, <1>4 DEF ConfirmTx, RejectTx, ConfirmChunk, RejectChunk, anchorVars
  <2> QED
    BY <2>1 DEF Sized
<1> QED
  BY <1>1, <1>2, <1>3, <1>4, Chain_Touched

\* Parts of Aligned that a step keeps which leaves the chain alone.
LEMMA Still_Shown ==
  ASSUME Aligned, UNCHANGED assertion, row'.done = row.done,
         \A h \in Handlers : pc[h] = "park" => pc'[h] = "park",
         row.done \in Chunks /\ chunk[row.done].state = "awaiting_confirm" /\ pc[Sweeper] \notin Judged =>
           chunk'[row.done].state = "awaiting_confirm" /\ pc'[Sweeper] \notin Judged
  PROVE  Shown'
  BY DEF Aligned, Shown

LEMMA Still_Aligned ==
  ASSUME TypeInv, Aligned, UNCHANGED lineage, Shown', Own',
         row'.done = row.done, row'.latest = row.latest,
         \A r \in Taken : result'[r].final = result[r].final,
         \A h \in Handlers :
           /\ pc'[h] \notin Finalizing
           /\ pc'[h] # pc[h] => OnChain(h)'
           /\ pc'[h] = pc[h] => origin'[h] = origin[h],
         pc'[Sweeper] = "advance" <=> pc[Sweeper] = "advance",
         pc'[Sweeper] = "advance" => rid'[Sweeper] = rid[Sweeper]
  PROVE  Aligned'
<1>1. HandlersPark' /\ \A h \in Handlers : OnChain(h)'
  BY DEF Aligned, HandlersPark, OnChain
<1>2. Told'
  <2>1. pc[Sweeper] = "advance" => rid[Sweeper] \in Taken
    BY DEF TypeInv, Control, HasRow, Free, Procs
  <2> QED
    BY <2>1 DEF Aligned, Told, Sound
<1> QED
  BY <1>1, <1>2 DEF Aligned

\* The sweep goes on looking at what it has taken up.
LEMMA Still_Own ==
  ASSUME TypeInv, Aligned, UNCHANGED assertion, row'.latest = row.latest,
         \A r \in Taken : result'[r].chunk = result[r].chunk /\ result'[r].final = result[r].final,
         pc'[Sweeper] \in Looking => pc[Sweeper] \in Looking,
         pc'[Sweeper] \in Looking \cup {"advance"} =>
           pc[Sweeper] \in Looking \cup {"advance"} /\ rid'[Sweeper] = rid[Sweeper],
         pc'[Sweeper] \in {"confirm", "advance"} => pc[Sweeper] \in {"confirm", "advance"} \/ Matches
  PROVE  Own'
<1>1. pc[Sweeper] \in Looking \cup {"advance"} => rid[Sweeper] \in Taken
  BY DEF TypeInv, Control, HasRow, Free, Procs, Looking
<1>2. ASSUME pc'[Sweeper] \in Looking
      PROVE  LET a == assertion'[Start(result'[rid'[Sweeper]].chunk)]
             IN  a # NoAssertion => a.to = result'[rid'[Sweeper]].final
  BY <1>1, <1>2 DEF Aligned, Own, ChunkOf
<1>3. ASSUME pc'[Sweeper] \in {"confirm", "advance"} PROVE Matches'
  <2>1. Matches /\ rid[Sweeper] \in Taken /\ rid'[Sweeper] = rid[Sweeper]
    BY <1>1, <1>3 DEF Aligned, Own, Looking
  <2> QED
    BY <2>1 DEF Matches, AdvanceState, OriginOf, ChunkOf
<1> QED
  BY <1>2, <1>3 DEF Own, ChunkOf

\* A delivery, and the sweep, have the chunk at the frontier to themselves.
LEMMA Delivery_Alone ==
  ASSUME TypeInv, Orderly, NEW h \in Handlers, pc[h] \in Delivering
  PROVE  /\ ChunkOf(h) = row.done /\ row.done \in Chunks /\ rid[h] \in Taken
         /\ rid[h] \in Results /\ chunk[row.done].state = "awaiting_outputs"
         /\ \A q \in Handlers : q # h => pc[q] \notin Delivering
         /\ pc[Sweeper] \notin Confirming \cup {"advance"}
<1>h. h \in Procs /\ h # Sweeper /\ Sweeper \in Procs
  BY TrainingAssumption DEF Procs
<1>1. /\ ChunkOf(h) = row.done /\ row.done \in Chunks /\ rid[h] \in Taken /\ rid[h] \in Results
      /\ rid[h] # NoResult /\ chunk[row.done].state = "awaiting_outputs"
  BY <1>h, Held DEF Orderly, AtStep, Free, Delivering
<1>2. \A q \in Procs : q # h /\ pc[q] \notin Free => ChunkOf(q) # row.done
  BY <1>h, <1>1, Held DEF Orderly, Apart
<1>3. \A q \in Procs : pc[q] \in Delivering \cup {"advance"} \cup Confirming => ChunkOf(q) = row.done /\ pc[q] \notin Free
  BY DEF Orderly, AtStep, Free, Delivering, Confirming
<1>4. \A q \in Procs : q # h => pc[q] \notin Delivering \cup {"advance"} \cup Confirming
  BY <1>2, <1>3
<1> QED
  BY <1>h, <1>1, <1>2, <1>4 DEF Procs

LEMMA Sweep_Alone ==
  ASSUME TypeInv, Orderly, pc[Sweeper] \in Confirming \cup {"advance"}
  PROVE  /\ ChunkOf(Sweeper) = row.done /\ row.done \in Chunks /\ rid[Sweeper] \in Taken
         /\ rid[Sweeper] \in Results /\ result[rid[Sweeper]].chunk = row.done
         /\ \A h \in Handlers : pc[h] \notin Delivering
<1>s. Sweeper \in Procs
  BY DEF Procs
<1>1. /\ ChunkOf(Sweeper) = row.done /\ row.done \in Chunks /\ rid[Sweeper] \in Taken
      /\ rid[Sweeper] \in Results
  BY <1>s, Held DEF Orderly, AtStep, Free, Delivering, Confirming
<1>2. \A h \in Handlers : pc[h] \notin Delivering
  BY Delivery_Alone
<1> QED
  BY <1>1, <1>2 DEF ChunkOf

\* No assertion stands in the way of the frontier, unless a delivery is about
\* to park or the sweep has yet to judge it.
LEMMA Shown_Only ==
  ASSUME TypeInv, Aligned, NEW g \in Generations, assertion[g] # NoAssertion,
         pc[Sweeper] # "advance"
  PROVE  g = Start(row.done) /\ lineage.exists
  BY DEF TypeInv, AnchorInv, Anchored, Aligned, Told

\* A delivery keeps its origin, and the chain, as they are until it asserts.
LEMMA Deliver_Aligned ==
  ASSUME TypeInv, Orderly, Aligned, failures = 0, failures' = 0, NEW h \in Handlers,
         StoreState(h) \/ ReadOrigin(h) \/ FetchAnchor(h)
  PROVE  Aligned'
<1>h. h \in Procs /\ h # Sweeper /\ Sweeper \in Procs /\ Sweeper \notin Handlers /\ Handlers \subseteq Procs
  BY TrainingAssumption DEF Procs
<1>f. ~Trouble /\ pc \in [Procs -> Steps]
  BY DEF Trouble, TypeInv, Control
<1>1. PICK to \in {"readOrigin", "fetchAnchor", "init", "assert"} :
        /\ Move(h, pc[h], to) /\ to # pc[h] /\ pc[h] \in {"store", "readOrigin", "fetchAnchor"}
        /\ to = "fetchAnchor" => origin' = [origin EXCEPT ![h] = OriginOf(ChunkOf(h))]
        /\ to # "fetchAnchor" => origin' = origin
        /\ to = "init" => ~lineage.exists /\ pc[h] = "fetchAnchor"
        /\ to = "assert" => lineage.exists /\ pc[h] = "fetchAnchor"
  BY <1>f DEF StoreState, ReadOrigin, FetchAnchor, Move
<1>2. /\ UNCHANGED <<lineage, assertion, chunk, row>>
      /\ \A r \in Results : result'[r].chunk = result[r].chunk /\ result'[r].final = result[r].final
  <2>1. CASE StoreState(h)
    BY <2>1 DEF StoreState, anchorVars, TypeInv, RowsOK
  <2>2. CASE ReadOrigin(h) \/ FetchAnchor(h)
    BY <2>2 DEF ReadOrigin, FetchAnchor, rows, anchorVars
  <2> QED
    BY <2>1, <2>2
<1>3. /\ pc'[h] = to /\ rid' = rid /\ \A q \in Procs : q # h => pc'[q] = pc[q]
  BY <1>h, <1>f, <1>1 DEF Move
<1>4. /\ ChunkOf(h) = row.done /\ pc[Sweeper] \notin Judged \cup Looking
  BY <1>1, Delivery_Alone DEF Delivering, Confirming, Judged, Looking
<1>5. OriginOf(ChunkOf(h)) = row.latest
  BY <1>4 DEF OriginOf, Orderly, Built
<1>6. OnChain(h)'
  <2>1. to = "fetchAnchor" => origin'[h] = row.latest
    BY <1>1, <1>5 DEF TypeInv, Notes
  <2>2. to \in {"init", "assert"} => origin'[h] = row.latest
    BY <1>1 DEF Aligned, OnChain
  <2> QED
    BY <1>1, <1>2, <1>3, <2>1, <2>2 DEF OnChain
<1>7. \A q \in Handlers : q # h => pc'[q] = pc[q] /\ origin'[q] = origin[q]
  BY <1>h, <1>1, <1>3 DEF TypeInv, Notes
<1>8. Shown'
  BY <1>h, <1>1, <1>2, <1>3, <1>4, Still_Shown
<1>9. Own'
  BY <1>h, <1>2, <1>3, Still_Own DEF Taken
<1>10. \A q \in Handlers : pc'[q] \notin Finalizing
  BY <1>h, <1>3 DEF Aligned, HandlersPark, Finalizing
<1>11. \A q \in Handlers :
         /\ pc'[q] \notin Finalizing
         /\ pc'[q] # pc[q] => OnChain(q)'
         /\ pc'[q] = pc[q] => origin'[q] = origin[q]
  BY <1>1, <1>3, <1>6, <1>7, <1>10 DEF Move
<1>12. pc'[Sweeper] = pc[Sweeper] /\ rid'[Sweeper] = rid[Sweeper]
  BY <1>h, <1>3
<1> QED
  BY <1>2, <1>8, <1>9, <1>11, <1>12, Still_Aligned DEF Taken

\* The lineage is initialized at the state the frontier continues.
LEMMA Init_Aligned ==
  ASSUME TypeInv, Orderly, Aligned, failures = 0, failures' = 0, NEW h \in Handlers, InitAnchor(h)
  PROVE  Aligned'
<1>h. h \in Procs /\ h # Sweeper /\ Sweeper \in Procs /\ Sweeper \notin Handlers /\ Handlers \subseteq Procs
  BY TrainingAssumption DEF Procs
<1>f. ~Trouble /\ pc \in [Procs -> Steps]
  BY DEF Trouble, TypeInv, Control
<1>1. /\ pc[h] = "init" /\ pc' = [pc EXCEPT ![h] = "assert"]
      /\ UNCHANGED <<rid, chunk, result, row, origin, assertion>>
      /\ lineage' = IF lineage.exists THEN lineage ELSE [exists |-> TRUE, digest |-> origin[h], gens |-> 0]
  BY <1>f DEF InitAnchor, Move, InitLineage, rows, anchorVars
<1>2. /\ pc'[h] = "assert" /\ \A q \in Procs : q # h => pc'[q] = pc[q]
  BY <1>h, <1>f, <1>1
<1>3. /\ pc[Sweeper] \notin Confirming \cup {"advance"}
      /\ \A q \in Handlers : q # h => pc[q] \notin Delivering
  BY <1>1, Delivery_Alone DEF Delivering
<1>4. origin[h] = row.latest /\ ~lineage.exists
  BY <1>1 DEF Aligned, OnChain
<1>5. lineage' = [exists |-> TRUE, digest |-> row.latest, gens |-> 0] /\ row.done = 0
  BY <1>1, <1>4 DEF Aligned, Told
<1>6. HandlersPark' /\ \A q \in Handlers : OnChain(q)'
  <2>1. OnChain(h)'
    BY <1>1, <1>2, <1>4, <1>5 DEF OnChain
  <2>2. ASSUME NEW q \in Handlers, q # h PROVE OnChain(q)'
    BY <1>h, <1>2, <1>3, <2>2 DEF OnChain, Delivering
  <2>3. HandlersPark'
    BY <1>h, <1>2 DEF Aligned, HandlersPark, Finalizing
  <2> QED
    BY <2>1, <2>2, <2>3
<1>7. Shown'
  BY <1>h, <1>1, <1>2, Still_Shown
<1>8. Own'
  BY <1>h, <1>1, <1>2, Still_Own
<1>9. Told'
  <2>1. Start(0) = 0
    BY AnchorAssumption, TrainingAssumption DEF Start, ChunkGenerations
  <2> QED
    BY <1>h, <1>1, <1>2, <1>3, <1>5, <2>1 DEF Aligned, Told
<1> QED
  BY <1>6, <1>7, <1>8, <1>9 DEF Aligned

\* A delivery is let in by the chain, and parks its chunk.
LEMMA Assert_Aligned ==
  ASSUME TypeInv, Orderly, Aligned, failures = 0, failures' = 0, NEW h \in Handlers, AssertTx(h)
  PROVE  Aligned'
<1>h. h \in Procs /\ h # Sweeper /\ Sweeper \in Procs /\ Sweeper \notin Handlers /\ Handlers \subseteq Procs
  BY TrainingAssumption DEF Procs
<1>f. ~Trouble /\ pc \in [Procs -> Steps]
  BY DEF Trouble, TypeInv, Control
<1>1. pc[h] = "assert" /\ UNCHANGED <<rid, chunk, result, row, origin>>
  BY DEF AssertTx, Move, rows
<1>2. /\ pc[Sweeper] \notin Confirming \cup {"advance"} /\ ChunkOf(h) = row.done /\ row.done \in Chunks
      /\ chunk[row.done].state = "awaiting_outputs"
      /\ \A q \in Handlers : q # h => pc[q] \notin Delivering
  BY <1>1, Delivery_Alone DEF Delivering
<1>3. origin[h] = row.latest /\ lineage.exists
  BY <1>1 DEF Aligned, OnChain
<1>4. Start(row.done) \in Generations
  BY <1>2, Start_Generation
<1>5. Assertable(h)
  <2>1. Continues(origin[h], Start(ChunkOf(h)))
    BY <1>2, <1>3 DEF Continues, Aligned, Told
  <2>2. assertion[Start(ChunkOf(h))] = NoAssertion
    BY <1>1, <1>2, <1>4 DEF Aligned, Shown, Delivering
  <2> QED
    BY <2>1, <2>2 DEF Assertable
<1>6. /\ pc' = [pc EXCEPT ![h] = "park"] /\ lineage' = lineage
      /\ \A g \in Generations : g # Start(row.done) => assertion'[g] = assertion[g]
  BY <1>f, <1>2, <1>5 DEF AssertTx, Move, AssertChunk, TypeInv, AnchorInv, LineageTypeOK
<1>7. pc'[h] = "park" /\ \A q \in Procs : q # h => pc'[q] = pc[q]
  BY <1>h, <1>f, <1>6
<1>8. Shown'
  BY <1>7 DEF Shown
<1>9. Own'
  BY <1>h, <1>2, <1>7 DEF Own, Looking, Confirming
<1>10. \A q \in Handlers :
         /\ pc'[q] \notin Finalizing
         /\ pc'[q] # pc[q] => OnChain(q)'
         /\ pc'[q] = pc[q] => origin'[q] = origin[q]
  BY <1>h, <1>1, <1>3, <1>6, <1>7 DEF Aligned, HandlersPark, OnChain, Finalizing
<1> QED
  BY <1>h, <1>1, <1>6, <1>7, <1>8, <1>9, <1>10, Still_Aligned

LEMMA Park_Aligned ==
  ASSUME TypeInv, Orderly, Aligned, NEW h \in Handlers, ParkChunk(h)
  PROVE  Aligned'
<1>h. h \in Procs /\ h # Sweeper /\ Sweeper \in Procs /\ Sweeper \notin Handlers /\ Handlers \subseteq Procs
  BY TrainingAssumption DEF Procs
<1>1. /\ pc[h] = "park" /\ pc' = [pc EXCEPT ![h] = "idle"] /\ rid' = [rid EXCEPT ![h] = NoResult]
      /\ chunk' = [chunk EXCEPT ![ChunkOf(h)].state = "awaiting_confirm"]
      /\ pc \in [Procs -> Steps] /\ rid \in [Procs -> Results \cup {NoResult}]
      /\ UNCHANGED <<lineage, assertion, result, row, origin>>
  BY DEF ParkChunk, Finish, SetChunk, anchorVars, TypeInv, Control
<1>2. /\ pc[Sweeper] \notin Confirming \cup {"advance"} /\ ChunkOf(h) = row.done /\ row.done \in Chunks
  BY <1>1, Delivery_Alone DEF Delivering
<1>3. pc'[h] = "idle" /\ \A q \in Procs : q # h => pc'[q] = pc[q] /\ rid'[q] = rid[q]
  BY <1>h, <1>1
<1>4. chunk'[row.done].state = "awaiting_confirm"
  BY <1>1, <1>2 DEF TypeInv, RowsOK
<1>5. Shown'
  BY <1>h, <1>1, <1>2, <1>3, <1>4 DEF Shown, Judged, Confirming
<1>6. Own'
  BY <1>h, <1>2, <1>3 DEF Own, Looking, Confirming
<1>7. \A q \in Handlers :
        /\ pc'[q] \notin Finalizing
        /\ pc'[q] # pc[q] => OnChain(q)'
        /\ pc'[q] = pc[q] => origin'[q] = origin[q]
  BY <1>h, <1>1, <1>3 DEF Aligned, HandlersPark, OnChain, Finalizing
<1> QED
  BY <1>h, <1>1, <1>2, <1>3, <1>5, <1>6, <1>7, Still_Aligned

\* The chain and the row move on by the same chunk, one after the other.
LEMMA Confirm_Aligned ==
  ASSUME TypeInv, Orderly, Sized, Aligned, failures = 0, failures' = 0, ConfirmTx \/ RejectTx
  PROVE  Aligned'
<1>s. Sweeper \in Procs /\ Sweeper \notin Handlers /\ Handlers \subseteq Procs
  BY TrainingAssumption DEF Procs
<1>f. ~Trouble /\ pc \in [Procs -> Steps] /\ rid \in [Procs -> Results \cup {NoResult}]
  BY DEF Trouble, TypeInv, Control
<1> DEFINE k == row.done
           g == Start(row.done)
<1>1. pc[Sweeper] \in {"confirm", "rejectTx"} /\ UNCHANGED <<chunk, result, row, origin>>
  BY DEF ConfirmTx, RejectTx, Move, rows
<1>2. /\ ChunkOf(Sweeper) = k /\ k \in Chunks /\ rid[Sweeper] \in Results
      /\ \A h \in Handlers : pc[h] \notin Delivering
  BY <1>1, Sweep_Alone DEF Confirming
<1>3. g \in Generations /\ g \in Nat
  BY <1>2, Start_Generation
<1>4. \A j \in Generations : assertion[j] # NoAssertion => j = g /\ lineage.exists
  BY <1>1, Shown_Only
<1>t. assertion \in [Generations -> Assertions \cup {NoAssertion}]
  BY DEF TypeInv, AnchorInv, LineageTypeOK
<1>5. CASE ConfirmChunk(g) /\ Move(Sweeper, "confirm", "advance")
  <2>1. /\ pc[Sweeper] = "confirm" /\ pc' = [pc EXCEPT ![Sweeper] = "advance"] /\ rid' = rid
        /\ assertion[g] # NoAssertion /\ assertion' = [assertion EXCEPT ![g] = NoAssertion]
        /\ lineage' = [lineage EXCEPT !.digest = assertion[g].to, !.gens = Advanced(g)]
    BY <1>5 DEF ConfirmChunk, WindowOver, Move
  <2>2. pc'[Sweeper] = "advance" /\ \A q \in Procs : q # Sweeper => pc'[q] = pc[q]
    BY <1>s, <1>f, <2>1
  <2>3. lineage.exists /\ lineage.gens = g /\ assertion[g].buckets = Buckets
        /\ assertion[g].to = result[rid[Sweeper]].final /\ Matches
    BY <1>1, <1>2, <1>3, <1>4, <2>1 DEF Aligned, Told, Own, Looking, Sized
  <2>4. Advanced(g) = Start(k + 1)
    <3>1. Advanced(g) = k * ChunkGenerations + ChunkGenerations /\ ChunkGenerations \in Nat /\ k \in Nat
      BY <1>2, <2>3, AnchorAssumption, TrainingAssumption DEF Advanced, Start, ChunkGenerations, Chunks
    <3> HIDE DEF k
    <3> QED
      BY <3>1 DEF Start
  <2>5. lineage'.exists /\ lineage'.digest = result[rid[Sweeper]].final /\ lineage'.gens = Start(k + 1)
    BY <2>1, <2>3, <2>4 DEF TypeInv, AnchorInv, LineageTypeOK
  <2>6. \A j \in Generations : assertion'[j] = NoAssertion
    BY <1>3, <1>4, <1>t, <2>1
  <2>7. HandlersPark' /\ \A h \in Handlers : OnChain(h)'
    BY <1>s, <1>1, <1>2, <2>2 DEF Aligned, HandlersPark, OnChain, Delivering
  <2>8. Shown'
    BY <2>6 DEF Shown
  <2>9. Own'
    BY <1>1, <2>1, <2>2, <2>3 DEF Own, Looking, Matches, OriginOf, ChunkOf
  <2>10. Told'
    BY <1>1, <2>1, <2>2, <2>5 DEF Aligned, Told
  <2> QED
    BY <2>7, <2>8, <2>9, <2>10 DEF Aligned
<1>6. CASE UNCHANGED anchorVars /\ Finish(Sweeper, "confirm")
  <2>1. /\ pc[Sweeper] = "confirm" /\ pc' = [pc EXCEPT ![Sweeper] = "idle"]
        /\ rid' = [rid EXCEPT ![Sweeper] = NoResult] /\ UNCHANGED <<lineage, assertion>>
    BY <1>6 DEF Finish, anchorVars
  <2>2. pc'[Sweeper] = "idle" /\ \A q \in Procs : q # Sweeper => pc'[q] = pc[q]
    BY <1>s, <1>f, <2>1
  <2>3. Shown'
    BY <1>s, <1>1, <2>1, <2>2, Still_Shown DEF Judged
  <2>4. Own'
    BY <2>2 DEF Own, Looking
  <2>5. \A h \in Handlers :
          /\ pc'[h] \notin Finalizing
          /\ pc'[h] # pc[h] => OnChain(h)'
          /\ pc'[h] = pc[h] => origin'[h] = origin[h]
    BY <1>s, <1>1, <2>2 DEF Aligned, HandlersPark
  <2> QED
    BY <1>1, <2>1, <2>2, <2>3, <2>4, <2>5, Still_Aligned
<1>7. CASE RejectTx
  <2>1. /\ pc[Sweeper] = "rejectTx" /\ pc' = [pc EXCEPT ![Sweeper] = "slash"] /\ rid' = rid
        /\ lineage' = lineage /\ \A j \in Generations : assertion'[j] = NoAssertion
    BY <1>f, <1>2, <1>3, <1>4, <1>t, <1>7 DEF RejectTx, Move, RejectChunk, anchorVars
  <2>2. pc'[Sweeper] = "slash" /\ \A q \in Procs : q # Sweeper => pc'[q] = pc[q]
    BY <1>s, <1>f, <2>1
  <2>3. Shown'
    BY <2>1 DEF Shown
  <2>4. Own'
    BY <2>2 DEF Own, Looking
  <2>5. \A h \in Handlers :
          /\ pc'[h] \notin Finalizing
          /\ pc'[h] # pc[h] => OnChain(h)'
          /\ pc'[h] = pc[h] => origin'[h] = origin[h]
    BY <1>s, <1>1, <2>2 DEF Aligned, HandlersPark
  <2> QED
    BY <1>1, <2>1, <2>2, <2>3, <2>4, <2>5, Still_Aligned
<1> QED
  BY <1>f, <1>2, <1>5, <1>6, <1>7 DEF ConfirmTx

\* What the sweep has confirmed and not yet written to the row.
LEMMA Confirmed_State ==
  ASSUME TypeInv, Orderly, Aligned, pc[Sweeper] = "advance"
  PROVE  LET s == result[rid[Sweeper]].final IN Sound(s) /\ Len(s) = row.done + 1
<1> DEFINE k == row.done
           w == rid[Sweeper]
<1>1. ChunkOf(Sweeper) = k /\ k \in Nat
  BY Sweep_Alone DEF TypeInv, RowsOK
<1>2. result[w].final = Append(row.latest, TRUE)
  <2>1. OriginOf(ChunkOf(Sweeper)) = row.latest
    BY <1>1 DEF OriginOf, Orderly, Built
  <2> QED
    BY <2>1 DEF Aligned, Own, Matches, AdvanceState
<1>3. row.latest \in Seq(BOOLEAN)
  <2>1. Cardinality(Taken) \in Nat /\ row.latest \in States(Cardinality(Taken))
    BY Taken_Count DEF TypeInv, Grown
  <2>2. PICK m \in 0..Cardinality(Taken) : row.latest \in [1..m -> BOOLEAN]
    BY <2>1 DEF States
  <2> QED
    BY <2>1, <2>2, SeqDef
<1>4. Sound(Append(row.latest, TRUE)) /\ Len(Append(row.latest, TRUE)) = k + 1
  <2> DEFINE s == row.latest
             t == Append(s, TRUE)
  <2>1. Sound(s) /\ Len(s) = k
    BY DEF Aligned, Told
  <2>2. Len(t) = k + 1 /\ DOMAIN t = 1..k + 1 /\ DOMAIN s = 1..k
    BY <1>1, <1>3, <2>1
  <2>3. ASSUME NEW i \in DOMAIN t PROVE t[i]
    <3>1. CASE i = k + 1
      <4>1. t[i] = TRUE
        BY <1>3, <2>1, <3>1
      <4> QED
        BY <4>1, Zenon
    <3>2. CASE i # k + 1
      <4>1. i \in DOMAIN s /\ i \in 1..Len(s)
        BY <1>1, <2>1, <2>2, <3>2
      <4>2. t[i] = s[i]
        <5>1. TRUE \in BOOLEAN
          BY Zenon
        <5>2. \A j \in 1..Len(s) : t[j] = s[j]
          BY <1>3, <5>1, AppendProperties
        <5> QED
          BY <4>1, <5>2, Zenon
      <4>3. s[i]
        BY <2>1, <4>1, Zenon DEF Sound
      <4> QED
        BY <4>2, <4>3, Zenon
    <3> QED
      BY <3>1, <3>2
  <2>4. Sound(t)
    BY <2>3, Zenon DEF Sound
  <2> QED
    BY <2>2, <2>4
<1> QED
  BY <1>2, <1>4

LEMMA Advance_Aligned ==
  ASSUME TypeInv, Orderly, Aligned, AdvanceLineage(Sweeper)
  PROVE  Aligned'
<1>s. Sweeper \in Procs /\ Sweeper \notin Handlers /\ Handlers \subseteq Procs
  BY TrainingAssumption DEF Procs
<1> DEFINE k == row.done
           w == rid[Sweeper]
           to == IF ChunkOf(Sweeper) + 1 < NChunks THEN "roll" ELSE "accept"
<1>1. /\ pc[Sweeper] = "advance" /\ pc' = [pc EXCEPT ![Sweeper] = to] /\ pc \in [Procs -> Steps] /\ rid' = rid
      /\ row' = [row EXCEPT !.latest = result[w].final, !.done = ChunkOf(Sweeper) + 1]
      /\ UNCHANGED <<lineage, assertion, chunk, result, origin>>
  BY DEF AdvanceLineage, Move, anchorVars, TypeInv, Control
<1>2. /\ ChunkOf(Sweeper) = k /\ k \in Chunks /\ w \in Taken /\ w \in Results
      /\ \A h \in Handlers : pc[h] \notin Delivering
  BY <1>1, Sweep_Alone
<1>3. row'.latest = result[w].final /\ row'.done = k + 1 /\ k \in Nat
  BY <1>1, <1>2 DEF TypeInv, RowsOK, Chunks
<1>4. pc'[Sweeper] = to /\ to \in {"roll", "accept"} /\ \A q \in Procs : q # Sweeper => pc'[q] = pc[q]
  BY <1>s, <1>1
<1> HIDE DEF to
<1>5. Sound(row'.latest) /\ Len(row'.latest) = k + 1
  BY <1>1, <1>3, Confirmed_State
<1>6. HandlersPark' /\ \A h \in Handlers : OnChain(h)'
  BY <1>s, <1>1, <1>2, <1>4 DEF Aligned, HandlersPark, OnChain, Delivering
<1>7. Shown'
  <2>1. \A g \in Generations : assertion[g] = NoAssertion
    BY <1>1, <1>2 DEF Aligned, Shown, Judged, Delivering
  <2> QED
    BY <1>1, <2>1 DEF Shown
<1>8. Own'
  BY <1>4 DEF Own, Looking
<1>9. Told'
  BY <1>1, <1>3, <1>4, <1>5 DEF Aligned, Told
<1> QED
  BY <1>6, <1>7, <1>8, <1>9 DEF Aligned

\* A step that leaves the chain, the frontier and the states alone, and takes
\* no process to where the chain matters.
LEMMA Aside_Aligned ==
  ASSUME TypeInv, Aligned, UNCHANGED <<lineage, assertion, origin>>,
         row'.done = row.done, row'.latest = row.latest,
         \A r \in Taken : result'[r].chunk = result[r].chunk /\ result'[r].final = result[r].final,
         \A h \in Handlers :
           pc'[h] = pc[h] \/ (pc[h] # "park" /\ pc'[h] \in {"idle", "store", "count", "close"}),
         \/ pc'[Sweeper] = pc[Sweeper] /\ rid'[Sweeper] = rid[Sweeper]
         \/ pc[Sweeper] # "advance" /\ pc'[Sweeper] \notin Looking \cup {"advance"},
         row.done \in Chunks /\ chunk[row.done].state = "awaiting_confirm" /\ pc[Sweeper] \notin Judged =>
           chunk'[row.done].state = "awaiting_confirm" /\ pc'[Sweeper] \notin Judged
  PROVE  Aligned'
<1>1. Shown'
  BY Still_Shown
<1>2. Own'
  BY Still_Own DEF Looking
<1>3. \A h \in Handlers :
        /\ pc'[h] \notin Finalizing
        /\ pc'[h] # pc[h] => OnChain(h)'
        /\ pc'[h] = pc[h] => origin'[h] = origin[h]
  BY DEF Aligned, HandlersPark, OnChain, Finalizing
<1> QED
  BY <1>1, <1>2, <1>3, Still_Aligned

\* What a delivery does before and after its turn at the chain, or for another
\* lineage of the job.
LEMMA Handler_Aligned ==
  ASSUME TypeInv, Orderly, Aligned, NEW h \in Handlers,
         CompleteOther(h) \/ CountRemaining(h) \/ CloseJob(h) \/ \E r \in Results : StartDeliver(h, r)
  PROVE  Aligned'
<1>s. h \in Procs /\ h # Sweeper /\ Sweeper \in Procs /\ Handlers \subseteq Procs
  BY TrainingAssumption DEF Procs
<1>1. /\ pc[h] \in {"idle", "count", "close"} /\ pc \in [Procs -> Steps]
      /\ rid \in [Procs -> Results \cup {NoResult}]
      /\ \E to \in {"idle", "store", "count", "close"} : pc' = [pc EXCEPT ![h] = to]
      /\ rid' = rid \/ \E r \in Results \cup {NoResult} : rid' = [rid EXCEPT ![h] = r]
  BY DEF TypeInv, Control, CompleteOther, CountRemaining, CloseJob, StartDeliver, Begin, Finish, Move
<1>2. UNCHANGED <<lineage, assertion, origin, row, chunk, result>>
  BY DEF CompleteOther, CountRemaining, CloseJob, StartDeliver, anchorVars, rows
<1>3. /\ pc'[h] \in {"idle", "store", "count", "close"} /\ \A q \in Procs : q # h => pc'[q] = pc[q]
      /\ rid'[Sweeper] = rid[Sweeper]
  BY <1>s, <1>1
<1> QED
  BY <1>s, <1>1, <1>2, <1>3, Aside_Aligned DEF Looking

\* The sweep before it touches the chain, and once it has.
LEMMA Look_Aligned ==
  ASSUME TypeInv, Aligned, failures = 0, failures' = 0, FetchAssertion \/ Replay
  PROVE  Aligned'
<1>s. Sweeper \in Procs /\ Sweeper \notin Handlers /\ Handlers \subseteq Procs
  BY TrainingAssumption DEF Procs
<1>f. ~Trouble /\ pc \in [Procs -> Steps] /\ rid \in [Procs -> Results \cup {NoResult}]
  BY DEF Trouble, TypeInv, Control
<1>1. /\ UNCHANGED <<lineage, assertion, origin, row, chunk, result>>
      /\ pc[Sweeper] \in {"fetchAssertion", "replay"}
  BY DEF FetchAssertion, Replay, Move, Finish, anchorVars, rows
<1>2. PICK to \in {"idle", "replay", "confirm", "rejectTx"} :
        /\ pc' = [pc EXCEPT ![Sweeper] = to]
        /\ to = "idle" \/ rid' = rid
        /\ to = "confirm" => Matches
  BY <1>f DEF FetchAssertion, Replay, Move, Finish
<1>3. pc'[Sweeper] = to /\ \A q \in Procs : q # Sweeper => pc'[q] = pc[q]
  BY <1>s, <1>f, <1>2
<1>4. CASE to \in {"idle", "rejectTx"}
  BY <1>s, <1>1, <1>3, <1>4, Aside_Aligned DEF Looking, Judged
<1>5. CASE to \in {"replay", "confirm"}
  <2>1. Shown'
    BY <1>s, <1>1, <1>3, <1>5, Still_Shown DEF Judged
  <2>2. Own'
    BY <1>1, <1>2, <1>3, <1>5, Still_Own DEF Looking
  <2>3. \A h \in Handlers :
          /\ pc'[h] \notin Finalizing
          /\ pc'[h] # pc[h] => OnChain(h)'
          /\ pc'[h] = pc[h] => origin'[h] = origin[h]
    BY <1>s, <1>1, <1>3 DEF Aligned, HandlersPark
  <2> QED
    BY <1>1, <1>3, <1>5, <2>1, <2>2, <2>3, Still_Aligned
<1> QED
  BY <1>2, <1>4, <1>5

\* What the sweep takes up is what was asserted, until it crosses.
LEMMA Select_Aligned ==
  ASSUME TypeInv, Aligned, NEW r \in Results, SelectParked(r), ~crossed'
  PROVE  Aligned'
<1>s. Sweeper \in Procs /\ Sweeper \notin Handlers /\ Handlers \subseteq Procs
  BY TrainingAssumption DEF Procs
<1>f. ~Foreign(r)
  <2>1. crossed' = (crossed \/ Foreign(r))
    BY Zenon DEF SelectParked
  <2> QED
    BY <2>1, Zenon
<1>1. /\ UNCHANGED <<lineage, assertion, origin, row, chunk, result>>
      /\ pc[Sweeper] = "idle" /\ pc' = [pc EXCEPT ![Sweeper] = "fetchAssertion"]
      /\ rid' = [rid EXCEPT ![Sweeper] = r]
      /\ pc \in [Procs -> Steps] /\ rid \in [Procs -> Results \cup {NoResult}]
  BY DEF SelectParked, Begin, anchorVars, rows, TypeInv, Control
<1>2. /\ pc'[Sweeper] = "fetchAssertion" /\ rid'[Sweeper] = r
      /\ \A q \in Procs : q # Sweeper => pc'[q] = pc[q]
  BY <1>s, <1>1
<1>3. Shown'
  BY <1>s, <1>1, <1>2, Still_Shown DEF Judged
<1>4. Own'
  BY <1>f, <1>1, <1>2 DEF Own, Foreign, ChunkOf
<1>5. \A h \in Handlers :
        /\ pc'[h] \notin Finalizing
        /\ pc'[h] # pc[h] => OnChain(h)'
        /\ pc'[h] = pc[h] => origin'[h] = origin[h]
  BY <1>s, <1>1, <1>2 DEF Aligned, HandlersPark
<1> QED
  BY <1>1, <1>2, <1>3, <1>4, <1>5, Still_Aligned

\* The verdict of the sweep, and the finalization of what it has confirmed:
\* the chain has been touched before.
LEMMA Verdict_Aligned ==
  ASSUME TypeInv, Orderly, Aligned,
         \/ SlashWorker \/ CountAttempt \/ QuarantineChunk \/ FlagLineage \/ Repool
         \/ RollSuccessor(Sweeper) \/ AcceptChunk(Sweeper) \/ CreditEarnings(Sweeper)
         \/ CountRemaining(Sweeper) \/ CloseJob(Sweeper)
  PROVE  Aligned'
<1>s. Sweeper \in Procs /\ Sweeper \notin Handlers /\ Handlers \subseteq Procs
  BY TrainingAssumption DEF Procs
<1>1. /\ UNCHANGED <<lineage, assertion, origin, result>>
      /\ pc \in [Procs -> Steps] /\ rid \in [Procs -> Results \cup {NoResult}]
      /\ row'.done = row.done /\ row'.latest = row.latest
  BY DEF SlashWorker, CountAttempt, QuarantineChunk, FlagLineage, Repool, RollSuccessor,
         AcceptChunk, CreditEarnings, CountRemaining, CloseJob, anchorVars, rows,
         TypeInv, Control, RowsOK
<1>2. \E to \in {"attempt", "quarantine", "flag", "repool", "accept", "credit", "count", "close", "idle"} :
        pc' = [pc EXCEPT ![Sweeper] = to]
  BY DEF SlashWorker, CountAttempt, QuarantineChunk, FlagLineage, Repool, RollSuccessor,
         AcceptChunk, CreditEarnings, CountRemaining, CloseJob, Move, Finish
<1>3. /\ pc'[Sweeper] \notin Looking \cup {"advance"}
      /\ \A q \in Procs : q # Sweeper => pc'[q] = pc[q]
  BY <1>s, <1>1, <1>2 DEF Looking
<1>4. pc[Sweeper] # "advance"
  BY DEF SlashWorker, CountAttempt, QuarantineChunk, FlagLineage, Repool, RollSuccessor,
         AcceptChunk, CreditEarnings, CountRemaining, CloseJob, Move, Finish
<1>5. row.done \in Chunks /\ chunk[row.done].state = "awaiting_confirm" /\ pc[Sweeper] \notin Judged =>
        chunk'[row.done].state = "awaiting_confirm" /\ pc'[Sweeper] \notin Judged
  <2> SUFFICES ASSUME row.done \in Chunks, chunk[row.done].state = "awaiting_confirm",
                      pc[Sweeper] \notin Judged
               PROVE  chunk'[row.done].state = "awaiting_confirm" /\ pc'[Sweeper] \notin Judged
    OBVIOUS
  <2>1. AtStep(Sweeper)
    BY <1>s DEF Orderly
  <2>2. ~SlashWorker /\ ~CountAttempt /\ ~QuarantineChunk /\ ~Repool
    BY DEF SlashWorker, CountAttempt, QuarantineChunk, Repool, Move, Finish, Judged
  <2>3. ~RollSuccessor(Sweeper)
    BY <2>1 DEF RollSuccessor, Move, AtStep
  <2>4. CASE AcceptChunk(Sweeper)
    <3>1. pc[Sweeper] = "accept" /\ pc'[Sweeper] = "credit"
          /\ chunk' = [chunk EXCEPT ![ChunkOf(Sweeper)].state = "accepted"]
      BY <1>s, <1>1, <2>4 DEF AcceptChunk, Move, SetChunk
    <3>2. ChunkOf(Sweeper) # row.done
      BY <2>1, <3>1 DEF AtStep, TypeInv, RowsOK
    <3> QED
      BY <3>1, <3>2 DEF Judged, TypeInv, RowsOK
  <2>5. CASE FlagLineage \/ CreditEarnings(Sweeper) \/ CountRemaining(Sweeper) \/ CloseJob(Sweeper)
    <3>1. chunk' = chunk /\ pc'[Sweeper] \in {"count", "close", "idle"}
      BY <1>s, <1>1, <2>5 DEF FlagLineage, CreditEarnings, CountRemaining, CloseJob, Move, Finish, rows
    <3> QED
      BY <3>1 DEF Judged
  <2> QED
    BY <2>2, <2>3, <2>4, <2>5
<1> QED
  BY <1>s, <1>1, <1>3, <1>4, <1>5, Aside_Aligned

\* Deliveries that are overdue, the slow lane, the clock, and a worker's result.
LEMMA Other_Aligned ==
  ASSUME TypeInv, Orderly, Aligned,
         \/ ExpireStep \/ SelectUndelivered \/ Tick \/ UNCHANGED vars
         \/ \E r \in Results : Reaudit(r)
         \/ \E r \in Results, k \in Chunks, sound \in BOOLEAN : Passes(r, k, sound)
  PROVE  Aligned'
<1>s. Sweeper \in Procs /\ Sweeper \notin Handlers /\ Handlers \subseteq Procs
  BY TrainingAssumption DEF Procs
<1>f. pc \in [Procs -> Steps] /\ rid \in [Procs -> Results \cup {NoResult}]
  BY DEF TypeInv, Control
<1>1. CASE SelectUndelivered \/ Tick \/ UNCHANGED vars \/ \E r \in Results : Reaudit(r)
  <2>1. /\ UNCHANGED <<lineage, assertion, origin, result, chunk>>
        /\ row'.done = row.done /\ row'.latest = row.latest
    BY <1>1 DEF SelectUndelivered, Tick, SlotPasses, Reaudit, vars, anchorVars, rows, procs, TypeInv, RowsOK
  <2>2. \/ pc' = pc /\ rid' = rid
        \/ pc[Sweeper] = "idle" /\ pc' = [pc EXCEPT ![Sweeper] = "expire"]
    BY <1>1 DEF SelectUndelivered, Tick, Reaudit, vars, procs
  <2>3. \A q \in Procs : q # Sweeper => pc'[q] = pc[q]
    BY <1>s, <1>f, <2>2
  <2>4. \/ pc'[Sweeper] = pc[Sweeper] /\ rid'[Sweeper] = rid[Sweeper]
        \/ pc[Sweeper] = "idle" /\ pc'[Sweeper] = "expire"
    BY <1>s, <1>f, <2>2
  <2> QED
    BY <1>s, <2>1, <2>3, <2>4, Aside_Aligned DEF Looking, Judged
<1>2. ASSUME NEW r \in Results, ExpireDelivery(r) PROVE Aligned'
  <2>1. /\ UNCHANGED <<lineage, assertion, origin, chunk, row>>
        /\ pc[Sweeper] = "expire" /\ pc' = [pc EXCEPT ![Sweeper] = "expireChunk"]
        /\ \A q \in Results : result'[q].chunk = result[q].chunk /\ result'[q].final = result[q].final
    BY <1>2 DEF ExpireDelivery, anchorVars, TypeInv, RowsOK
  <2>2. pc'[Sweeper] = "expireChunk" /\ \A q \in Procs : q # Sweeper => pc'[q] = pc[q]
    BY <1>s, <1>f, <2>1
  <2> QED
    BY <1>s, <2>1, <2>2, Aside_Aligned DEF Looking, Judged, Taken
<1>3. CASE ExpireChunk
  <2>1. /\ UNCHANGED <<lineage, assertion, origin, result, row>>
        /\ pc[Sweeper] = "expireChunk"
        /\ \E to \in {"idle", "expire"} : pc' = [pc EXCEPT ![Sweeper] = to]
    BY <1>3 DEF ExpireChunk, anchorVars
  <2>2. pc'[Sweeper] \in {"idle", "expire"} /\ \A q \in Procs : q # Sweeper => pc'[q] = pc[q]
    BY <1>s, <1>f, <2>1
  <2>3. chunk[row.done].state # "awaiting_confirm"
    BY <1>s, <2>1 DEF Orderly, AtStep
  <2> QED
    BY <1>s, <2>1, <2>2, <2>3, Aside_Aligned DEF Looking
<1>4. ASSUME NEW r \in Results, NEW k \in Chunks, NEW sound \in BOOLEAN, Passes(r, k, sound)
      PROVE  Aligned'
  <2>1. UNCHANGED <<lineage, assertion, origin, row, pc, rid>>
    BY <1>4 DEF Passes, anchorVars, procs
  <2>2. \A q \in Taken : result'[q] = result[q]
    BY <1>4 DEF Passes, Taken, TypeInv, RowsOK
  <2>3. chunk[k].state = "pending" /\ \A j \in Chunks : j # k => chunk'[j] = chunk[j]
    BY <1>4 DEF Passes, TypeInv, RowsOK
  <2> QED
    BY <2>1, <2>2, <2>3, Aside_Aligned
<1> QED
  BY <1>1, <1>2, <1>3, <1>4 DEF ExpireStep

LEMMA ChainInv_Step ==
  TypeInv /\ RowInv /\ Sized /\ ChainInv /\ [Next]_vars => ChainInv'
<1> SUFFICES ASSUME TypeInv, RowInv, Sized, ChainInv, [Next]_vars, Straight', ~overlapped'
             PROVE  Aligned'
  BY DEF ChainInv
<1>0. failures' = 0 /\ ~crossed'
  BY Zenon DEF Straight
<1>1. failures = 0
  BY <1>0, History_Step DEF TypeInv, Notes
<1>2. ~crossed /\ ~overlapped
  BY <1>0, History_Step, Zenon
<1>3. Orderly /\ Aligned
  BY <1>1, <1>2 DEF RowInv, ChainInv, Straight
<1>4. \A p \in Procs : ~ProcessFails(p)
  BY <1>0, <1>1 DEF ProcessFails, Trouble
<1>5. ASSUME NEW h \in Handlers, DeliverStep(h) PROVE Aligned'
  <2>1. ~AdvanceLineage(h) /\ ~RollSuccessor(h) /\ ~AcceptChunk(h) /\ ~CreditEarnings(h)
    BY <1>3 DEF Aligned, HandlersPark, Finalizing, AdvanceLineage, RollSuccessor, AcceptChunk,
                CreditEarnings, Move
  <2> QED
    BY <1>0, <1>1, <1>3, <1>5, <2>1, Deliver_Aligned, Init_Aligned, Assert_Aligned, Park_Aligned,
       Handler_Aligned DEF DeliverStep, Finalize
<1>6. CASE ConfirmStep
  BY <1>0, <1>1, <1>3, <1>6, Look_Aligned, Confirm_Aligned, Advance_Aligned, Verdict_Aligned
     DEF ConfirmStep, Finalize
<1>7. ASSUME NEW r \in Results, SelectParked(r) PROVE Aligned'
  BY <1>0, <1>3, <1>7, Select_Aligned
<1>8. CASE \E h \in Handlers : CompleteOther(h) \/ \E r \in Results : StartDeliver(h, r)
  BY <1>3, <1>8, Handler_Aligned
<1>9. CASE \/ ExpireStep \/ SelectUndelivered \/ Tick \/ UNCHANGED vars
           \/ \E r \in Results : Reaudit(r)
           \/ \E r \in Results, k \in Chunks, sound \in BOOLEAN : Passes(r, k, sound)
  BY <1>3, <1>9, Other_Aligned
<1> QED
  BY <1>4, <1>5, <1>6, <1>7, <1>8, <1>9 DEF Next

LEMMA ChainInv_Init == Init => ChainInv /\ Sized
<1> SUFFICES ASSUME Init PROVE Aligned /\ Sized
  BY DEF ChainInv
<1> USE TrainingAssumption DEF Init, AnchorInit
<1>1. Sized /\ Shown
  BY DEF Sized, Shown
<1>2. HandlersPark /\ \A h \in Handlers : OnChain(h)
  BY DEF HandlersPark, OnChain, Finalizing, Procs
<1>3. Own
  BY DEF Own, Looking, Procs
<1>4. Told
  <2>1. row.latest = << >> /\ row.done = 0
    BY StatesAssumption
  <2>2. Sound(row.latest) /\ Len(row.latest) = 0
    BY <2>1 DEF Sound
  <2> QED
    BY <2>1, <2>2 DEF Told, Procs
<1> QED
  BY <1>1, <1>2, <1>3, <1>4 DEF Aligned

LEMMA Chain_Aligned == Spec => []ChainInv
<1>1. TypeInv /\ Sized /\ [Next]_vars => Sized'
  BY Sized_Step
<1>2. TypeInv /\ RowInv /\ Sized /\ ChainInv /\ [Next]_vars => ChainInv'
  BY ChainInv_Step
<1> QED
  BY <1>1, <1>2, ChainInv_Init, Typed, Rows_Orderly, PTL DEF Spec

\* ChainSound until two activities overlap on a chunk: a fabricated chunk is
\* caught before its state can become the next chunk's origin.
THEOREM TrainingChainSound == Spec => [](~overlapped => ChainSound)
<1>1. TypeInv /\ RowInv /\ ChainInv => (~overlapped => ChainSound)
  <2> SUFFICES ASSUME TypeInv, RowInv, ChainInv, ~overlapped, Straight, lineage.exists
               PROVE  Sound(lineage.digest) /\ lineage.gens = Start(Len(lineage.digest))
    BY DEF ChainSound
  <2>1. Orderly /\ Aligned
    BY DEF RowInv, ChainInv, Straight
  <2>2. CASE pc[Sweeper] = "advance"
    BY <2>1, <2>2, Confirmed_State DEF Aligned, Told
  <2>3. CASE pc[Sweeper] # "advance"
    BY <2>1, <2>3 DEF Aligned, Told
  <2> QED
    BY <2>2, <2>3
<1> QED
  BY <1>1, Typed, Rows_Orderly, Chain_Aligned, PTL

\* RecordsAgree until two activities overlap on a chunk: between two activities
\* neither the lineages row nor the account on chain runs ahead of the other.
THEOREM TrainingRecordsAgree == Spec => [](~overlapped => RecordsAgree)
<1>1. ChainInv => (~overlapped => RecordsAgree)
  BY DEF ChainInv, Aligned, Told, RecordsAgree, Procs
<1> QED
  BY <1>1, Chain_Aligned, PTL

\* PaidAfterWindow until two activities overlap on a chunk: no chunk is paid for
\* that the chain has not confirmed.
THEOREM TrainingPaidAfterWindow == Spec => [](~overlapped => PaidAfterWindow)
<1>1. TypeInv /\ RowInv /\ ChainInv => (~overlapped => PaidAfterWindow)
  <2> SUFFICES ASSUME TypeInv, RowInv, ChainInv, ~overlapped, NEW r \in Results, Straight,
                      paid[r] > 0
               PROVE  lineage.exists /\ lineage.gens >= Start(result[r].chunk + 1)
    BY DEF PaidAfterWindow
  <2> DEFINE k == result[r].chunk
             d == row.done
  <2>1. Orderly /\ Aligned
    BY DEF RowInv, ChainInv, Straight
  <2>2. k \in Nat /\ d \in Nat /\ k < d
    BY <2>1 DEF Orderly, Paid, Settled, TypeInv, RowsOK, Chunks
  <2>3. lineage.exists
    BY <2>1, <2>2 DEF Aligned, Told
  <2>4. lineage.gens = Start(d) \/ lineage.gens = Start(d + 1)
    BY <2>1, <2>3 DEF Aligned, Told
  <2>5. \A m, n \in Nat : m <= n => Start(m) <= Start(n)
    <3>1. ChunkGenerations \in Nat
      BY TrainingAssumption, AnchorAssumption DEF ChunkGenerations
    <3>2. \A c, m, n \in Nat : m <= n => m * c <= n * c
      OBVIOUS
    <3> QED
      BY <3>1, <3>2 DEF Start
  <2>6. Start(k + 1) <= Start(d) /\ Start(k + 1) <= Start(d + 1) /\ \A m \in Nat : Start(m) \in Nat
    <3>1. k + 1 \in Nat /\ d + 1 \in Nat /\ k + 1 <= d /\ k + 1 <= d + 1
      BY <2>2
    <3>2. \A m \in Nat : Start(m) \in Nat
      BY TrainingAssumption, AnchorAssumption DEF Start, ChunkGenerations
    <3> HIDE DEF k, d
    <3> QED
      BY <2>2, <2>5, <3>1, <3>2
  <2>7. Start(k + 1) \in Nat /\ Start(d) \in Nat /\ Start(d + 1) \in Nat
    BY <2>2, <2>6
  <2> HIDE DEF k, d
  <2>8. lineage.gens >= Start(k + 1)
    BY <2>4, <2>6, <2>7
  <2> QED
    BY <2>3, <2>8 DEF k
<1> QED
  BY <1>1, Typed, Rows_Orderly, Chain_Aligned, PTL
=============================================================================
