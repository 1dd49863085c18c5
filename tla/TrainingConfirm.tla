--------------------------- MODULE TrainingConfirm --------------------------
(***************************************************************************)
(* One lineage of a training bounty with TRAINING_FRAUD_PROOF on: the      *)
(* delivery of final states, their assertion on chain, and the sweep that  *)
(* confirms or rejects them (apps/coordinator/src/verification.ts), over   *)
(* the chain of LineageAnchor.                                             *)
(*                                                                         *)
(* A state of the lineage is a sequence with an element for each chunk it  *)
(* went through: TRUE if the chunk is what the module computes from the    *)
(* state before, FALSE if it is not.  A digest stands for its state.       *)
(*                                                                         *)
(* As in ChunkLifecycle, a statement of a handler or of the sweeper is an  *)
(* action.  The way from the lease to "passed" is that of ChunkLifecycle   *)
(* and one action here.  result_rejections, which nothing reads, is left   *)
(* out.                                                                    *)
(***************************************************************************)
EXTENDS LineageAnchor, Sequences, FiniteSets

CONSTANTS
    NChunks,     \* chunks of the lineage, search_space_end / M / chunk_size
    Buckets,     \* buckets_count of a chunk (32)
    Window,      \* TRAINING_WINDOW_SLOTS
    RejectCap,   \* REJECT_CAP (3)
    Results, Handlers, Sweeper, NoResult,
    MaxFailures, \* bound on restarts and calls to the chain that fail
    MayOverlap   \* FALSE: a run stops short of activities that overlap

ASSUME TrainingAssumption ==
    /\ NChunks \in Nat \ {0}
    /\ Buckets \in 1..MaxBuckets
    /\ NChunks * Buckets * BucketGenerations <= MaxU64
    /\ Window \in Nat
    /\ RejectCap \in Nat \ {0}
    /\ Results \subseteq Nat
    /\ NoResult \notin Results
    /\ Sweeper \notin Handlers
    /\ MaxFailures \in Nat
    /\ MayOverlap \in BOOLEAN

\* Each result is one chunk longer than a state there was before it.
ASSUME StatesAssumption ==
    /\ IsFiniteSet(Results) /\ Origin = << >>
    /\ \A n \in 0..Cardinality(Results) : [1..n -> BOOLEAN] \subseteq Digests

VARIABLES
    job,      \* jobs.status
    chunk,    \* chunks: state ("none" without a row), attempts
    result,   \* results: verification_state, chunk, final state, the state in chunk_outputs
    row,      \* the lineages row: latest_state, done (in chunks), flagged
    paid,     \* prices credited for a result
    slashed,  \* results for which slashStake was called
    pc, rid,  \* the next statement of each process, the result it works on
    origin,   \* the origin a delivery is asserted from
    seenSlot, \* the slot the sweep started with
    todo,     \* undelivered results the sweep has selected
    failures,
    crossed,   \* history: the sweep took up another result than the asserted one
    overlapped \* history: a chunk was taken up while another was busy with it

rows  == <<job, chunk, result, row, paid, slashed>>
procs == <<pc, rid, origin, seenSlot, todo>>
marks == <<crossed, overlapped>>
history == <<failures, marks>>
vars  == <<anchorVars, rows, procs, history>>

Procs == Handlers \cup {Sweeper}
Chunks == 0..(NChunks - 1)
ChunkGenerations == Buckets * BucketGenerations
Start(k) == k * ChunkGenerations

ChunkStates == {"none", "pending", "awaiting_outputs", "awaiting_confirm",
                "accepted", "quarantined"}
\* Mutant: the list of maybeCompleteJob as it was before awaiting_confirm.
InFlightBefore == {"pending", "awaiting_outputs"}
InFlight == {"pending", "awaiting_outputs", "awaiting_confirm"}
Steps == {"idle", "store", "readOrigin", "fetchAnchor", "init", "assert", "park",
          "fetchAssertion", "replay", "confirm", "rejectTx", "slash", "attempt",
          "quarantine", "flag", "repool", "expire", "expireChunk",
          "advance", "roll", "accept", "credit", "count", "close"}

TypeOK ==
    /\ LineageTypeOK
    /\ job \in {"open", "closed"}
    /\ chunk \in [Chunks -> [state : ChunkStates, attempts : 0..RejectCap]]
    /\ result \in [Results -> [state : {"none", "passed", "failed"}, chunk : Chunks,
                               final : Digests, kept : BOOLEAN]]
    /\ row \in [latest : Digests, done : 0..NChunks, flagged : BOOLEAN]
    /\ paid \in [Results -> Nat]
    /\ slashed \subseteq Results
    /\ pc \in [Procs -> Steps]
    /\ rid \in [Procs -> Results \cup {NoResult}]
    /\ origin \in [Handlers -> Digests]
    /\ seenSlot \in 0..MaxSlot
    /\ todo \subseteq Results
    /\ failures \in 0..MaxFailures
    /\ crossed \in BOOLEAN
    /\ overlapped \in BOOLEAN

\* createTrainingJob has inserted the lineage and its first chunk.
Init ==
    /\ AnchorInit
    /\ job = "open"
    /\ chunk = [k \in Chunks |-> [state |-> IF k = 0 THEN "pending" ELSE "none",
                                  attempts |-> 0]]
    /\ result = [r \in Results |-> [state |-> "none", chunk |-> 0,
                                    final |-> Origin, kept |-> FALSE]]
    /\ row = [latest |-> Origin, done |-> 0, flagged |-> FALSE]
    /\ paid = [r \in Results |-> 0]
    /\ slashed = {}
    /\ pc = [p \in Procs |-> "idle"]
    /\ rid = [p \in Procs |-> NoResult]
    /\ origin = [h \in Handlers |-> Origin]
    /\ seenSlot = 0
    /\ todo = {}
    /\ failures = 0
    /\ crossed = FALSE
    /\ overlapped = FALSE
-----------------------------------------------------------------------------
ChunkOf(p) == result[rid[p]].chunk

Busy(k) == \/ \E p \in Procs : rid[p] # NoResult /\ ChunkOf(p) = k
           \/ \E r \in todo : result[r].chunk = k

\* What a run whose activities do not overlap leaves out.
Undisturbed(k) == MayOverlap \/ ~Busy(k)

\* A delivery or the sweep takes up the chunks S.  Nothing in the code keeps it
\* from one that another is still busy with.
TakesUp(S) ==
    /\ overlapped' = (overlapped \/ \E k \in S : Busy(k))
    /\ \A k \in S : Undisturbed(k)

\* A call to the chain that times out, is not included, or cannot be made.
Trouble == failures < MaxFailures /\ failures' = failures + 1 /\ UNCHANGED marks
Smooth  == UNCHANGED history

Move(p, from, to) ==
    /\ pc[p] = from
    /\ pc' = [pc EXCEPT ![p] = to]
    /\ UNCHANGED <<rid, todo>>

\* The process is done with its result.
Finish(p, from) ==
    /\ pc[p] = from
    /\ pc' = [pc EXCEPT ![p] = "idle"]
    /\ rid' = [rid EXCEPT ![p] = NoResult]
    /\ UNCHANGED todo

Begin(p, r, to) ==
    /\ pc[p] = "idle"
    /\ pc' = [pc EXCEPT ![p] = to]
    /\ rid' = [rid EXCEPT ![p] = r]
    /\ UNCHANGED todo

SetChunk(k, s) == chunk' = [chunk EXCEPT ![k].state = s]

Attempts(k) == IF chunk[k].attempts < RejectCap THEN chunk[k].attempts + 1
                                                 ELSE RejectCap

\* The state a chunk continues: derived for the first one, else the latest of
\* the lineage, which is there before the chunk is rolled.
OriginOf(k) == IF k = 0 THEN Origin ELSE row.latest

\* What the module computes from a state.
AdvanceState(s) == Append(s, TRUE)
-----------------------------------------------------------------------------
(***************************************************************************)
(* A worker leases the chunk, trains from its origin, and passes the       *)
(* verification; earlier attempts may have failed on the way.  Sampled     *)
(* buckets may miss what is wrong with the work.                           *)
(***************************************************************************)

Passes(r, k, sound) ==
    /\ job = "open"
    /\ chunk[k].state = "pending"
    /\ TakesUp({k})
    /\ result[r].state = "none"
    /\ \A q \in Results : q < r => result[q].state # "none"
    /\ \E a \in chunk[k].attempts..RejectCap :
         chunk' = [chunk EXCEPT ![k] = [state |-> "awaiting_outputs", attempts |-> a]]
    /\ result' = [result EXCEPT ![r] =
                    [state |-> "passed", chunk |-> k, kept |-> FALSE,
                     final |-> IF sound THEN AdvanceState(OriginOf(k))
                                        ELSE Append(OriginOf(k), FALSE)]]
    /\ UNCHANGED <<anchorVars, job, row, paid, slashed, procs, failures, crossed>>
-----------------------------------------------------------------------------
(***************************************************************************)
(* PUT /v1/results/:id/outputs: deliverTrainingState, for a state that     *)
(* matches the commitment, and assertTrainingChunk.  The chunk is what is  *)
(* checked, not the state of the result.                                   *)
(***************************************************************************)

\* Mutant: the state of the chunk is not checked.
StartDeliverAny(h, r) ==
    /\ result[r].state # "none"
    /\ TakesUp({result[r].chunk})
    /\ Begin(h, r, "store")
    /\ UNCHANGED <<anchorVars, rows, origin, seenSlot, failures, crossed>>

StartDeliver(h, r) ==
    /\ result[r].state # "none"
    /\ chunk[result[r].chunk].state = "awaiting_outputs"
    /\ TakesUp({result[r].chunk})
    /\ Begin(h, r, "store")
    /\ UNCHANGED <<anchorVars, rows, origin, seenSlot, failures, crossed>>

StoreState(h) ==
    /\ Move(h, "store", "readOrigin")
    /\ result' = [result EXCEPT ![rid[h]].kept = TRUE]
    /\ Smooth
    /\ UNCHANGED <<anchorVars, job, chunk, row, paid, slashed, origin, seenSlot>>

ReadOrigin(h) ==
    /\ Move(h, "readOrigin", "fetchAnchor")
    /\ origin' = [origin EXCEPT ![h] = OriginOf(ChunkOf(h))]
    /\ Smooth
    /\ UNCHANGED <<anchorVars, rows, seenSlot>>

\* A call that fails looks like an anchor that is not there.
FetchAnchor(h) ==
    /\ \/ lineage.exists  /\ Move(h, "fetchAnchor", "assert") /\ Smooth
       \/ ~lineage.exists /\ Move(h, "fetchAnchor", "init")   /\ Smooth
       \/ Move(h, "fetchAnchor", "init") /\ Trouble
    /\ UNCHANGED <<anchorVars, rows, origin, seenSlot>>

\* initLineageChain only logs what goes wrong.
InitAnchor(h) ==
    /\ Move(h, "init", "assert")
    /\ \/ InitLineage(origin[h]) /\ Smooth
       \/ lineage.exists /\ Smooth /\ UNCHANGED anchorVars
       \/ Trouble /\ UNCHANGED anchorVars
    /\ UNCHANGED <<rows, origin, seenSlot>>

Assertable(h) == /\ Continues(origin[h], Start(ChunkOf(h)))
                 /\ assertion[Start(ChunkOf(h))] = NoAssertion

\* When assertChunkChain throws, whether or not the transaction landed, the
\* delivery goes on to the end as if the flag were off.
AssertTx(h) ==
    /\ pc[h] = "assert"
    /\ \/ /\ AssertChunk(Start(ChunkOf(h)), origin[h], result[rid[h]].final,
                         Buckets, Window)
          /\ \/ Move(h, "assert", "park") /\ Smooth
             \/ Move(h, "assert", "advance") /\ Trouble
       \/ /\ Move(h, "assert", "advance")
          /\ \/ ~Assertable(h) /\ Smooth
             \/ Trouble
          /\ UNCHANGED anchorVars
    /\ UNCHANGED <<rows, origin, seenSlot>>

\* Mutant: the delivery does not return here.
ParkAndGo(h) ==
    /\ Move(h, "park", "advance")
    /\ SetChunk(ChunkOf(h), "awaiting_confirm")
    /\ Smooth
    /\ UNCHANGED <<anchorVars, job, result, row, paid, slashed, origin, seenSlot>>

ParkChunk(h) ==
    /\ Finish(h, "park")
    /\ SetChunk(ChunkOf(h), "awaiting_confirm")
    /\ Smooth
    /\ UNCHANGED <<anchorVars, job, result, row, paid, slashed, origin, seenSlot>>
-----------------------------------------------------------------------------
(***************************************************************************)
(* finalizeTrainingChunk, by a delivery or by the sweep.                   *)
(***************************************************************************)

\* Mutant: the generations of the successor are counted too.
AdvancePast(p) ==
    /\ Move(p, "advance", IF ChunkOf(p) + 1 < NChunks THEN "roll" ELSE "accept")
    /\ row' = [row EXCEPT !.latest = result[rid[p]].final, !.done = ChunkOf(p) + 2]
    /\ Smooth
    /\ UNCHANGED <<anchorVars, job, chunk, result, paid, slashed, origin, seenSlot>>

\* The state is there: a result without one is neither delivered nor selected.
AdvanceLineage(p) ==
    /\ Move(p, "advance", IF ChunkOf(p) + 1 < NChunks THEN "roll" ELSE "accept")
    /\ row' = [row EXCEPT !.latest = result[rid[p]].final, !.done = ChunkOf(p) + 1]
    /\ Smooth
    /\ UNCHANGED <<anchorVars, job, chunk, result, paid, slashed, origin, seenSlot>>

\* on conflict (job_id, range_start) do nothing
RollSuccessor(p) ==
    /\ Move(p, "roll", "accept")
    /\ IF chunk[ChunkOf(p) + 1].state = "none"
         THEN SetChunk(ChunkOf(p) + 1, "pending") ELSE UNCHANGED chunk
    /\ Smooth
    /\ UNCHANGED <<anchorVars, job, result, row, paid, slashed, origin, seenSlot>>

AcceptChunk(p) ==
    /\ Move(p, "accept", "credit")
    /\ SetChunk(ChunkOf(p), "accepted")
    /\ Smooth
    /\ UNCHANGED <<anchorVars, job, result, row, paid, slashed, origin, seenSlot>>

CreditEarnings(p) ==
    /\ Move(p, "credit", "count")
    /\ paid' = [paid EXCEPT ![rid[p]] = @ + 1]
    /\ Smooth
    /\ UNCHANGED <<anchorVars, job, chunk, result, row, slashed, origin, seenSlot>>

\* The other lineages of the job may have chunks left.
CountRemaining(p) ==
    /\ \/ Finish(p, "count")
       \/ /\ Move(p, "count", "close")
          /\ \A k \in Chunks : chunk[k].state \notin InFlight
    /\ Smooth
    /\ UNCHANGED <<anchorVars, rows, origin, seenSlot>>

CloseJob(p) ==
    /\ Finish(p, "close")
    /\ job' = "closed"
    /\ Smooth
    /\ UNCHANGED <<anchorVars, chunk, result, row, paid, slashed, origin, seenSlot>>

\* A delivery for another lineage of the job gets to maybeCompleteJob.
CompleteOther(h) ==
    /\ pc[h] = "idle"
    /\ pc' = [pc EXCEPT ![h] = "count"]
    /\ Smooth
    /\ UNCHANGED <<anchorVars, rows, rid, todo, origin, seenSlot>>
-----------------------------------------------------------------------------
(***************************************************************************)
(* confirmTrainingChunks, for the one chunk a tick takes.                  *)
(***************************************************************************)

Parked == {r \in Results : /\ chunk[result[r].chunk].state = "awaiting_confirm"
                           /\ result[r].state = "passed" /\ result[r].kept}

Foreign(r) == LET a == assertion[Start(result[r].chunk)] IN a # NoAssertion /\ a.to # result[r].final

\* Any passed result of the chunk with a stored state: a rejected one is still
\* passed, so it need not be the one that was asserted.
SelectParked(r) ==
    /\ r \in Parked
    /\ \A q \in Parked : result[r].chunk <= result[q].chunk
    /\ TakesUp({result[r].chunk})
    /\ Begin(Sweeper, r, "fetchAssertion")
    /\ seenSlot' = slot
    /\ crossed' = (crossed \/ Foreign(r))
    /\ UNCHANGED <<anchorVars, rows, origin, failures>>

Asserted == assertion[Start(ChunkOf(Sweeper))]

\* The account goes with the assertion, so its status is never 1 or 2.
FetchAssertion ==
    /\ \/ /\ Finish(Sweeper, "fetchAssertion")
          /\ \/ Asserted = NoAssertion /\ Smooth
             \/ /\ Asserted # NoAssertion /\ Smooth
                /\ seenSlot < Asserted.opened + Asserted.window
             \/ Trouble
       \/ /\ Move(Sweeper, "fetchAssertion", "replay")
          /\ Asserted # NoAssertion
          /\ seenSlot >= Asserted.opened + Asserted.window
          /\ Smooth
    /\ UNCHANGED <<anchorVars, rows, origin, seenSlot>>

\* Mutant: the final states are not compared.
MatchesAny == TRUE

Matches == result[rid[Sweeper]].final = AdvanceState(OriginOf(ChunkOf(Sweeper)))

\* Mutant: a replay that fails counts as one that diverges.
ReplayErrorRejects ==
    /\ \/ Move(Sweeper, "replay", "confirm")  /\ Matches  /\ Smooth
       \/ Move(Sweeper, "replay", "rejectTx") /\ ~Matches /\ Smooth
       \/ Move(Sweeper, "replay", "rejectTx") /\ Trouble
    /\ UNCHANGED <<anchorVars, rows, origin, seenSlot>>

Replay ==
    /\ \/ Move(Sweeper, "replay", "confirm")  /\ Matches  /\ Smooth
       \/ Move(Sweeper, "replay", "rejectTx") /\ ~Matches /\ Smooth
       \/ Finish(Sweeper, "replay") /\ Trouble
    /\ UNCHANGED <<anchorVars, rows, origin, seenSlot>>

ConfirmTx ==
    LET g == Start(ChunkOf(Sweeper)) IN
    /\ pc[Sweeper] = "confirm"
    /\ \/ /\ ConfirmChunk(g)
          /\ \/ Move(Sweeper, "confirm", "advance") /\ Smooth
             \/ Finish(Sweeper, "confirm") /\ Trouble
       \/ /\ Finish(Sweeper, "confirm")
          /\ \/ ~(WindowOver(g) /\ lineage.digest = assertion[g].from) /\ Smooth
             \/ Trouble
          /\ UNCHANGED anchorVars
    /\ UNCHANGED <<rows, origin, seenSlot>>

\* What goes wrong is logged.
RejectTx ==
    LET g == Start(ChunkOf(Sweeper)) IN
    /\ Move(Sweeper, "rejectTx", "slash")
    /\ \/ RejectChunk(g) /\ Smooth
       \/ assertion[g] = NoAssertion /\ Smooth /\ UNCHANGED anchorVars
       \/ Trouble /\ UNCHANGED anchorVars
    /\ UNCHANGED <<rows, origin, seenSlot>>

SlashWorker ==
    /\ Move(Sweeper, "slash", "attempt")
    /\ slashed' = slashed \cup {rid[Sweeper]}
    /\ Smooth
    /\ UNCHANGED <<anchorVars, job, chunk, result, row, paid, origin, seenSlot>>

CountAttempt ==
    LET k == ChunkOf(Sweeper) IN
    /\ Move(Sweeper, "attempt", IF Attempts(k) >= RejectCap THEN "quarantine"
                                                            ELSE "repool")
    /\ chunk' = [chunk EXCEPT ![k].attempts = Attempts(k)]
    /\ Smooth
    /\ UNCHANGED <<anchorVars, job, result, row, paid, slashed, origin, seenSlot>>

QuarantineChunk ==
    /\ Move(Sweeper, "quarantine", "flag")
    /\ SetChunk(ChunkOf(Sweeper), "quarantined")
    /\ Smooth
    /\ UNCHANGED <<anchorVars, job, result, row, paid, slashed, origin, seenSlot>>

FlagLineage ==
    /\ Move(Sweeper, "flag", "count")
    /\ row' = [row EXCEPT !.flagged = TRUE]
    /\ Smooth
    /\ UNCHANGED <<anchorVars, job, chunk, result, paid, slashed, origin, seenSlot>>

\* Mutant: the chunk is not put back.
RepoolForgets ==
    /\ Finish(Sweeper, "repool")
    /\ Smooth
    /\ UNCHANGED <<anchorVars, rows, origin, seenSlot>>

\* The result stays "passed".
Repool ==
    /\ Finish(Sweeper, "repool")
    /\ SetChunk(ChunkOf(Sweeper), "pending")
    /\ Smooth
    /\ UNCHANGED <<anchorVars, job, result, row, paid, slashed, origin, seenSlot>>
-----------------------------------------------------------------------------
(***************************************************************************)
(* expireDeliveries, and the slow lane.  Results pass in the order of      *)
(* their numbers, so a window that is over for one is over for the ones    *)
(* before it.                                                              *)
(***************************************************************************)

Awaited == {r \in Results : /\ chunk[result[r].chunk].state = "awaiting_outputs"
                            /\ result[r].state = "passed"}

SelectUndelivered ==
    /\ pc[Sweeper] = "idle"
    /\ todo' \in SUBSET Awaited
    /\ todo' # {}
    /\ \A r \in todo', q \in Awaited : q <= r => q \in todo'
    /\ TakesUp({result[r].chunk : r \in todo'})
    /\ pc' = [pc EXCEPT ![Sweeper] = "expire"]
    /\ UNCHANGED <<anchorVars, rows, rid, origin, seenSlot, failures, crossed>>

ExpireDelivery(r) ==
    /\ pc[Sweeper] = "expire" /\ r \in todo
    /\ todo' = todo \ {r}
    /\ rid' = [rid EXCEPT ![Sweeper] = r]
    /\ pc' = [pc EXCEPT ![Sweeper] = "expireChunk"]
    /\ result' = [result EXCEPT ![r].state = "failed"]
    /\ Smooth
    /\ UNCHANGED <<anchorVars, job, chunk, row, paid, slashed, origin, seenSlot>>

ExpireChunk ==
    LET k == ChunkOf(Sweeper) IN
    /\ pc[Sweeper] = "expireChunk"
    /\ pc' = [pc EXCEPT ![Sweeper] = IF todo = {} THEN "idle" ELSE "expire"]
    /\ rid' = [rid EXCEPT ![Sweeper] = NoResult]
    /\ chunk' = [chunk EXCEPT ![k] = [state |-> "pending", attempts |-> Attempts(k)]]
    /\ Smooth
    /\ UNCHANGED <<anchorVars, job, result, row, paid, slashed, todo, origin, seenSlot>>

Predecessors(k) ==
    IF k = 0 THEN {Origin}
             ELSE {result[q].final : q \in {q \in Results :
                     result[q].chunk = k - 1 /\ result[q].state = "passed" /\ result[q].kept}}

\* slowLaneReaudit takes any passed result of an accepted chunk, and any of
\* the chunk before it.
Reaudit(r) ==
    /\ pc[Sweeper] = "idle"
    /\ result[r].state = "passed" /\ result[r].kept
    /\ chunk[result[r].chunk].state = "accepted"
    /\ \E s \in Predecessors(result[r].chunk) : result[r].final # AdvanceState(s)
    /\ row' = [row EXCEPT !.flagged = TRUE]
    /\ UNCHANGED <<anchorVars, job, chunk, result, paid, slashed, procs, history>>
-----------------------------------------------------------------------------
\* A throw or a restart between two statements.
ProcessFails(p) ==
    /\ pc[p] # "idle"
    /\ Trouble
    /\ pc' = [pc EXCEPT ![p] = "idle"]
    /\ rid' = [rid EXCEPT ![p] = NoResult]
    /\ todo' = IF p = Sweeper THEN {} ELSE todo
    /\ UNCHANGED <<anchorVars, rows, origin, seenSlot>>

\* Slots matter while a window is open.
Tick ==
    /\ \E k \in Chunks : /\ assertion[Start(k)] # NoAssertion
                         /\ ~WindowOver(Start(k))
    /\ SlotPasses
    /\ UNCHANGED <<rows, procs, history>>

Finalize(p) ==
    \/ AdvanceLineage(p) \/ RollSuccessor(p) \/ AcceptChunk(p) \/ CreditEarnings(p)
    \/ CountRemaining(p) \/ CloseJob(p)

DeliverStep(h) ==
    \/ StoreState(h) \/ ReadOrigin(h) \/ FetchAnchor(h) \/ InitAnchor(h)
    \/ AssertTx(h) \/ ParkChunk(h) \/ Finalize(h)

ConfirmStep ==
    \/ FetchAssertion \/ Replay \/ ConfirmTx
    \/ RejectTx \/ SlashWorker \/ CountAttempt \/ QuarantineChunk \/ FlagLineage
    \/ Repool \/ Finalize(Sweeper)

ExpireStep == (\E r \in Results : ExpireDelivery(r)) \/ ExpireChunk

Next ==
    \/ \E r \in Results, k \in Chunks, sound \in BOOLEAN : Passes(r, k, sound)
    \/ \E h \in Handlers : \/ \E r \in Results : StartDeliver(h, r)
                           \/ CompleteOther(h) \/ DeliverStep(h)
    \/ \E r \in Results : SelectParked(r) \/ Reaudit(r)
    \/ ConfirmStep
    \/ SelectUndelivered \/ ExpireStep
    \/ \E p \in Procs : ProcessFails(p)
    \/ Tick

Spec == Init /\ [][Next]_vars

\* Deliveries and the sweep run to their end, the sweep comes to every stage
\* again and again, and slots pass.  No worker has to do anything.
Fairness ==
    /\ \A h \in Handlers : WF_vars(DeliverStep(h))
    /\ WF_vars(ConfirmStep) /\ WF_vars(ExpireStep)
    /\ SF_vars(\E r \in Results : SelectParked(r))
    /\ WF_vars(Tick)

FairSpec == Spec /\ Fairness
-----------------------------------------------------------------------------
Sound(s) == \A i \in DOMAIN s : s[i]

\* A fabricated chunk is caught before its state can become the next chunk's
\* origin (confirmTrainingChunks): what is confirmed on chain is what the
\* module computes from the seed, chunk after chunk.  That is while things go
\* straight.  After an assertion that failed, the chunk is finalized unconfirmed
\* and the lineage is initialized at whatever state it has come to.  And when
\* the sweep takes up another result than the asserted one, what it replays is
\* not what it confirms: a chunk rejected twice can have a fabricated state
\* confirmed on the strength of an earlier, honest attempt.
Straight == failures = 0 /\ ~crossed

ChainSound ==
    Straight /\ lineage.exists =>
        Sound(lineage.digest) /\ lineage.gens = Start(Len(lineage.digest))

\* A chunk is paid for only after the chain has confirmed it, so after its
\* window (plans/cwf/03b-fraud-proof-training-verification.md, section 6).  Not
\* once chain and row have come apart: then no assertion is let in any more.
PaidAfterWindow ==
    \A r \in Results : Straight /\ paid[r] > 0 =>
        lineage.exists /\ lineage.gens >= Start(result[r].chunk + 1)

\* The lineages row and the account on chain tell the same story between two
\* activities: neither runs ahead of the other.
RecordsAgree ==
    Straight /\ (\A p \in Procs : pc[p] = "idle") /\ lineage.exists =>
        lineage.digest = row.latest /\ lineage.gens = Start(row.done)

\* A lineage between two chunks never reads as done: the successor is rolled
\* before the completion check, whoever makes that check.  Again until a call
\* fails: a chunk that is finalized anew takes its lineage back to its own end.
ClosedIsDone ==
    failures = 0 /\ job = "closed" =>
        row.done = NChunks \/ \E k \in Chunks : chunk[k].state = "quarantined"

\* The price of a chunk is credited once, whatever is retried.
PaidOnce ==
    Cardinality({r \in Results : paid[r] > 0}) =
        Cardinality({result[r].chunk : r \in {r \in Results : paid[r] > 0}})
    /\ \A r \in Results : paid[r] <= 1

\* A bond is burnt only for work that a successful replay shows to be
\* fabricated, or that was built on such work: never for trouble of the
\* coordinator's own (the comment before the verdict of the sweep).
SoundNeverSlashed == \A r \in slashed : ~Sound(result[r].final)

\* After a rejection the honest redo of the chunk resumes the lineage: no
\* assertion of sound work is rejected on chain.  The sweep that takes up the
\* rejected result again breaks it.
SoundNeverRejected ==
    [][\A k \in Chunks :
         LET a == assertion[Start(k)] IN
         a # NoAssertion /\ assertion'[Start(k)] = NoAssertion /\ lineage' = lineage
             => ~Sound(a.to)]_anchorVars

\* A chunk parked with a state of an attempt that still counts is accepted,
\* quarantined or handed out again (confirmTrainingChunks, tick after tick).
\* A chunk that was parked for an attempt already timed out is not: the sweep
\* never selects it.
ParkedResolves ==
    \A k \in Chunks : (\E r \in Parked : result[r].chunk = k)
                         ~> chunk[k].state # "awaiting_confirm"
=============================================================================
