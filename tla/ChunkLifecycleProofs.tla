------------------------ MODULE ChunkLifecycleProofs ------------------------
(***************************************************************************)
(* What is proved of ChunkLifecycle, for any number of chunks, workers,    *)
(* results, concurrent requests and failures.                              *)
(*                                                                         *)
(* The first theorems rest each on an inductive invariant of its own, and  *)
(* all of them on TypeInv: the type invariant with HasRow, which says that *)
(* a process in the middle of a row knows its row.  The statements a       *)
(* process may be at carry the rest of the argument: PaymentInv says what  *)
(* is true of a row whose process is about to pay, TranscriptInv what is   *)
(* true when it is about to slash, HonestInv whose fault it is when a      *)
(* result is about to fail, AuditInv what was counted when it is about to  *)
(* pass unchallenged; FiledInv, that it is still the same row.             *)
(*                                                                         *)
(* The last two are about what happens when a chunk is taken up while      *)
(* another process is busy with it (overlapped).  Until then OrderlyInv    *)
(* says of each chunk by itself that it is in order (Tidy), and makes      *)
(* every statement a step of ChunkBoard or none; LatestInv, which holds    *)
(* all the same afterwards, says what is left undone with a result of the  *)
(* lease that runs.                                                        *)
(***************************************************************************)
EXTENDS ChunkLifecycle, FiniteSetTheorems, TLAPS

\* The statements a process runs without holding a row.
Between == {"idle", "leaseTx", "expire", "stalled", "undelivered", "reclaim"}

\* A process that is in the middle of a row knows which.
HasRow == \A p \in Procs : pc[p] \notin Between => rid[p] \in Results

ProcsInv == ProcsOK /\ HasRow
TypeInv == RowsOK /\ ProcsInv /\ HistoryOK

USE ConstantsAssumption

-----------------------------------------------------------------------------
(***************************************************************************)
(* What each way of moving, and each way of writing a row, preserves.      *)
(***************************************************************************)

\* A process that goes from one statement about its row to the next keeps it.
LEMMA MoveOK ==
  ASSUME ProcsInv, NEW p \in Procs, NEW from, NEW to \in Steps, Move(p, from, to),
         from \notin Between \/ to \in Between
  PROVE  ProcsInv'
  BY DEF ProcsInv, ProcsOK, HasRow, Move

\* A process that is done with its row holds none, and is idle or takes another.
LEMMA FinishOK ==
  ASSUME ProcsInv, NEW p \in Procs, NEW from, Finish(p, from)
  PROVE  ProcsInv'
<1>1. {"idle", "expire"} \subseteq Steps /\ {"idle", "expire"} \subseteq Between
  BY DEF Steps, HandlerSteps, SweepSteps, Between
<1> QED
  BY <1>1 DEF ProcsInv, ProcsOK, HasRow, Finish

\* A request starts on an existing row.
LEMMA BeginOK ==
  ASSUME ProcsInv, NEW p \in Procs, NEW r \in Results, NEW to \in Steps, Begin(p, r, to)
  PROVE  ProcsInv'
  BY DEF ProcsInv, ProcsOK, HasRow, Begin

\* The sweeper's list is a set of result rows.
LEMMA SelectOK ==
  ASSUME ProcsInv, NEW S \in SUBSET Results, NEW loop \in Steps \cap Between, Select(S, loop)
  PROVE  ProcsInv'
  BY DEF ProcsInv, ProcsOK, HasRow, Select, Procs

\* The sweeper takes a row of its list.
LEMMA TurnOK ==
  ASSUME ProcsInv, NEW from, NEW r \in Results, NEW to \in Steps, Turn(from, r, to)
  PROVE  ProcsInv'
  BY DEF ProcsInv, ProcsOK, HasRow, Turn, Procs

\* The sweeper lets go of its row.
LEMMA EndTurnOK ==
  ASSUME ProcsInv, NEW from, NEW loop \in Steps \cap Between, EndTurn(from, loop)
  PROVE  ProcsInv'
<1>1. "idle" \in Steps /\ "idle" \in Between
  BY DEF Steps, HandlerSteps, Between
<1> QED
  BY <1>1 DEF ProcsInv, ProcsOK, HasRow, EndTurn, Procs

\* Each single-column update leaves rows the check constraints admit.
LEMMA SetChunkOK ==
  ASSUME RowsOK, NEW c \in Chunks, NEW s \in ChunkStates, SetChunk(c, s),
         UNCHANGED <<job, result, challenge, rejection, delivered, credits>>
  PROVE  RowsOK'
  BY DEF RowsOK, SetChunk, ChunkRows

\* As SetChunkOK, for results.verification_state.
LEMMA SetResultOK ==
  ASSUME RowsOK, NEW r \in Results, NEW s \in ResultStates, SetResult(r, s),
         UNCHANGED <<job, chunk, challenge, rejection, delivered, credits>>
  PROVE  RowsOK'
  BY DEF RowsOK, SetResult, ResultRows

\* As SetChunkOK, for challenges.passed.
LEMMA SetPassedOK ==
  ASSUME RowsOK, NEW r \in Results, NEW v \in Verdicts, SetPassed(r, v),
         UNCHANGED <<job, chunk, result, rejection, delivered, credits>>
  PROVE  RowsOK'
  BY DEF RowsOK, SetPassed, ChallengeRows

\* As SetChunkOK, for result_rejections.reason.
LEMMA RejectOK ==
  ASSUME RowsOK, NEW r \in Results, NEW reason \in Reasons, Reject(r, reason),
         UNCHANGED <<job, chunk, result, challenge, delivered, credits>>
  PROVE  RowsOK'
  BY DEF RowsOK, Reject

\* A chunk put back into the pool is a chunk row: its attempts stay capped.
LEMMA PooledType ==
  ASSUME RowsOK, NEW c \in Chunks, NEW n \in {0, 1}
  PROVE  Pooled(c, n) \in ChunkRows
<1>1. chunk[c].attempts \in 0..QuarantineAt
  BY DEF RowsOK, ChunkRows
<1>2. Attempts(chunk[c].attempts + n) \in 0..QuarantineAt
  BY <1>1 DEF Attempts
<1>3. "pending" \in ChunkStates
  BY DEF ChunkStates
<1> QED
  BY <1>2, <1>3 DEF Pooled, ChunkRows

\* As SetChunkOK, for a chunk put back into the pool.
LEMMA PoolOK ==
  ASSUME RowsOK, NEW c \in Chunks, NEW n \in {0, 1},
         chunk' = [chunk EXCEPT ![c] = Pooled(c, n)],
         UNCHANGED <<job, result, challenge, rejection, delivered, credits>>
  PROVE  RowsOK'
  BY PooledType DEF RowsOK

\* The row a result id has before its insert.
LEMMA FreeRowType == FreeRow \in ResultRows
<1>1. (CHOOSE c \in Chunks : TRUE) \in Chunks
  OBVIOUS
<1> QED
  BY <1>1 DEF FreeRow, ResultStates, ResultRows

\* A process that works on a row has one.
LEMMA RowHeld ==
  ASSUME RowsOK, ProcsInv, NEW p \in Procs, pc[p] \notin Between
  PROVE  rid[p] \in Results /\ ChunkOf(p) \in Chunks
  BY DEF RowsOK, ResultRows, ProcsInv, HasRow, ChunkOf

\* From here to TypeProcessFails, one lemma for each statement of the handlers
\* and the sweeper: it keeps the type invariant.
LEMMA TypeStartLease ==
  ASSUME TypeInv, NEW h \in Handlers, NEW w \in Workers, StartLease(h, w)
  PROVE  TypeInv'
<1>1. RowsOK'
  BY DEF TypeInv, RowsOK, StartLease, rows
<1>2. ProcsInv'
  BY DEF TypeInv, ProcsInv, ProcsOK, HasRow, Procs, StartLease, procs, Steps,
     HandlerSteps, SweepSteps, SharedSteps, Between
<1>3. HistoryOK'
  BY DEF TypeInv, HistoryOK, StartLease, history, notes, marks
<1> QED
  BY <1>1, <1>2, <1>3 DEF TypeInv

\* LeaseTx keeps the type invariant.
LEMMA TypeLeaseTx ==
  ASSUME TypeInv, NEW h \in Handlers, LeaseTx(h)
  PROVE  TypeInv'
<1>1. RowsOK'
  <2>1. who[h] \in Workers \cup {NoWorker}
    BY DEF TypeInv, ProcsInv, ProcsOK, Procs
  <2>2. ASSUME NEW c \in Chunks
        PROVE  [state |-> "leased", holder |-> who[h], live |-> TRUE,
                attempts |-> chunk[c].attempts] \in ChunkRows
    BY <2>1 DEF TypeInv, RowsOK, ChunkRows, ChunkStates
  <2>3. \/ chunk' = chunk
        \/ \E c \in Chunks :
             chunk' = [chunk EXCEPT ![c] =
                         [state |-> "leased", holder |-> who[h], live |-> TRUE,
                          attempts |-> chunk[c].attempts]]
    BY DEF LeaseTx, Pending
  <2>4. chunk' \in [Chunks -> ChunkRows]
    BY <2>2, <2>3 DEF TypeInv, RowsOK
  <2> QED
    BY <2>4 DEF TypeInv, RowsOK, LeaseTx
<1>2. ProcsInv'
  BY DEF TypeInv, ProcsInv, ProcsOK, HasRow, Procs, LeaseTx, procs, Steps,
     HandlerSteps, SweepSteps, SharedSteps, Between
<1>3. HistoryOK'
  BY DEF TypeInv, HistoryOK, LeaseTx, history, notes, marks, FiledFor
<1> QED
  BY <1>1, <1>2, <1>3 DEF TypeInv

\* StartSubmit keeps the type invariant.
LEMMA TypeStartSubmit ==
  ASSUME TypeInv, NEW h \in Handlers, NEW c \in Chunks, NEW good \in BOOLEAN, StartSubmit(h, c, good)
  PROVE  TypeInv'
<1>1. RowsOK'
  BY PooledType DEF TypeInv, RowsOK, ProcsInv, ProcsOK, Procs, StartSubmit,
     ResultRows, ResultStates, ChunkRows
<1>2. ProcsInv'
  BY BeginOK DEF TypeInv, Procs, StartSubmit, Steps, HandlerSteps, SweepSteps,
     SharedSteps, Between
<1>3. HistoryOK'
  BY DEF TypeInv, HistoryOK, StartSubmit, history, notes, marks, TakesUp
<1> QED
  BY <1>1, <1>2, <1>3 DEF TypeInv

\* InsertResult keeps the type invariant.
LEMMA TypeInsertResult ==
  ASSUME TypeInv, NEW h \in Handlers, InsertResult(h)
  PROVE  TypeInv'
<1>1. rid[h] \in Results /\ ChunkOf(h) \in Chunks
  BY RowHeld DEF TypeInv, Procs, Between, InsertResult, Move
<1>2. RowsOK'
  BY <1>1, SetResultOK DEF TypeInv, InsertResult, ResultStates
<1>3. ProcsInv'
  BY MoveOK DEF TypeInv, Procs, InsertResult, Steps, HandlerSteps, SweepSteps,
     SharedSteps, Between
<1>4. HistoryOK'
  BY DEF TypeInv, HistoryOK, InsertResult, history, notes, marks
<1> QED
  BY <1>2, <1>3, <1>4 DEF TypeInv

\* MarkSubmitted keeps the type invariant.
LEMMA TypeMarkSubmitted ==
  ASSUME TypeInv, NEW h \in Handlers, MarkSubmitted(h)
  PROVE  TypeInv'
<1>1. rid[h] \in Results /\ ChunkOf(h) \in Chunks
  BY RowHeld DEF TypeInv, Procs, Between, MarkSubmitted, Move
<1>2. RowsOK'
  BY <1>1, SetChunkOK DEF TypeInv, MarkSubmitted, ChunkStates
<1>3. ProcsInv'
  BY MoveOK DEF TypeInv, Procs, MarkSubmitted, Steps, HandlerSteps, SweepSteps,
     SharedSteps, Between
<1>4. HistoryOK'
  BY DEF TypeInv, HistoryOK, MarkSubmitted, history, notes, marks
<1> QED
  BY <1>2, <1>3, <1>4 DEF TypeInv

\* DecideChallenge keeps the type invariant.
LEMMA TypeDecideChallenge ==
  ASSUME TypeInv, NEW h \in Handlers, DecideChallenge(h)
  PROVE  TypeInv'
<1>1. RowsOK'
  BY DEF TypeInv, RowsOK, DecideChallenge, rows
<1>2. ProcsInv'
  BY MoveOK DEF TypeInv, Procs, DecideChallenge, Steps, HandlerSteps, SweepSteps,
     SharedSteps, Between
<1>3. HistoryOK'
  BY DEF TypeInv, HistoryOK, DecideChallenge, history, notes, marks
<1> QED
  BY <1>1, <1>2, <1>3 DEF TypeInv

\* IssueChallenge keeps the type invariant.
LEMMA TypeIssueChallenge ==
  ASSUME TypeInv, NEW h \in Handlers, IssueChallenge(h)
  PROVE  TypeInv'
<1>1. rid[h] \in Results /\ ChunkOf(h) \in Chunks
  BY RowHeld DEF TypeInv, Procs, Between, IssueChallenge, Move
<1>2. RowsOK'
  BY <1>1, SetPassedOK DEF TypeInv, IssueChallenge, Verdicts
<1>3. ProcsInv'
  BY MoveOK DEF TypeInv, Procs, IssueChallenge, Steps, HandlerSteps, SweepSteps,
     SharedSteps, Between
<1>4. HistoryOK'
  BY DEF TypeInv, HistoryOK, IssueChallenge, history, notes, marks
<1> QED
  BY <1>2, <1>3, <1>4 DEF TypeInv

\* MarkChallenged keeps the type invariant.
LEMMA TypeMarkChallenged ==
  ASSUME TypeInv, NEW h \in Handlers, MarkChallenged(h)
  PROVE  TypeInv'
<1>1. rid[h] \in Results /\ ChunkOf(h) \in Chunks
  BY RowHeld DEF TypeInv, Procs, Between, MarkChallenged, Move
<1>2. RowsOK'
  BY <1>1, SetResultOK DEF TypeInv, MarkChallenged, ResultStates
<1>3. ProcsInv'
  BY MoveOK DEF TypeInv, Procs, MarkChallenged, Steps, HandlerSteps, SweepSteps,
     SharedSteps, Between
<1>4. HistoryOK'
  BY DEF TypeInv, HistoryOK, MarkChallenged, history, notes, marks
<1> QED
  BY <1>2, <1>3, <1>4 DEF TypeInv

\* MarkVerifying keeps the type invariant.
LEMMA TypeMarkVerifying ==
  ASSUME TypeInv, NEW h \in Handlers, MarkVerifying(h)
  PROVE  TypeInv'
<1>1. rid[h] \in Results /\ ChunkOf(h) \in Chunks
  BY RowHeld DEF TypeInv, Procs, Between, MarkVerifying, Finish
<1>2. RowsOK'
  BY <1>1, SetChunkOK DEF TypeInv, MarkVerifying, ChunkStates
<1>3. ProcsInv'
  BY FinishOK DEF TypeInv, Procs, MarkVerifying, Steps, HandlerSteps, SweepSteps,
     SharedSteps, Between
<1>4. HistoryOK'
  BY <1>1 DEF TypeInv, HistoryOK, MarkVerifying, history, notes, marks
<1> QED
  BY <1>2, <1>3, <1>4 DEF TypeInv

\* StartRespond keeps the type invariant.
LEMMA TypeStartRespond ==
  ASSUME TypeInv, NEW h \in Handlers, NEW r \in Results, StartRespond(h, r)
  PROVE  TypeInv'
<1>1. RowsOK'
  BY DEF TypeInv, RowsOK, StartRespond, rows
<1>2. ProcsInv'
  BY BeginOK DEF TypeInv, Procs, StartRespond, Steps, HandlerSteps, SweepSteps,
     SharedSteps, Between
<1>3. HistoryOK'
  BY DEF TypeInv, HistoryOK, StartRespond, history, notes, marks, TakesUp
<1> QED
  BY <1>1, <1>2, <1>3 DEF TypeInv

\* StampResponse keeps the type invariant.
LEMMA TypeStampResponse ==
  ASSUME TypeInv, NEW h \in Handlers, StampResponse(h)
  PROVE  TypeInv'
<1>1. rid[h] \in Results /\ ChunkOf(h) \in Chunks
  BY RowHeld DEF TypeInv, Procs, Between, StampResponse, Move
<1>2. RowsOK'
  BY <1>1, PooledType DEF TypeInv, RowsOK, ProcsInv, ProcsOK, Procs,
     StampResponse, ChallengeRows
<1>3. ProcsInv'
  BY MoveOK DEF TypeInv, Procs, StampResponse, Steps, HandlerSteps, SweepSteps,
     SharedSteps, Between
<1>4. HistoryOK'
  BY <1>1 DEF TypeInv, HistoryOK, StampResponse, history, notes, marks
<1> QED
  BY <1>2, <1>3, <1>4 DEF TypeInv

\* VerdictTrue keeps the type invariant.
LEMMA TypeVerdictTrue ==
  ASSUME TypeInv, NEW h \in Handlers, VerdictTrue(h)
  PROVE  TypeInv'
<1>1. rid[h] \in Results /\ ChunkOf(h) \in Chunks
  BY RowHeld DEF TypeInv, Procs, Between, VerdictTrue, Move
<1>2. RowsOK'
  BY <1>1, SetPassedOK DEF TypeInv, VerdictTrue, Verdicts
<1>3. ProcsInv'
  BY MoveOK DEF TypeInv, Procs, VerdictTrue, Steps, HandlerSteps, SweepSteps,
     SharedSteps, Between
<1>4. HistoryOK'
  BY DEF TypeInv, HistoryOK, VerdictTrue, history, notes, marks
<1> QED
  BY <1>2, <1>3, <1>4 DEF TypeInv

\* VerdictFalse keeps the type invariant.
LEMMA TypeVerdictFalse ==
  ASSUME TypeInv, NEW h \in Handlers, VerdictFalse(h)
  PROVE  TypeInv'
<1>1. rid[h] \in Results /\ ChunkOf(h) \in Chunks
  BY RowHeld DEF TypeInv, Procs, Between, VerdictFalse, Move
<1>2. RowsOK'
  BY <1>1, SetPassedOK DEF TypeInv, VerdictFalse, Verdicts
<1>3. ProcsInv'
  BY MoveOK DEF TypeInv, Procs, VerdictFalse, Steps, HandlerSteps, SweepSteps,
     SharedSteps, Between
<1>4. HistoryOK'
  BY DEF TypeInv, HistoryOK, VerdictFalse, history, notes, marks
<1> QED
  BY <1>2, <1>3, <1>4 DEF TypeInv

\* StartDeliver keeps the type invariant.
LEMMA TypeStartDeliver ==
  ASSUME TypeInv, NEW h \in Handlers, NEW r \in Results, StartDeliver(h, r)
  PROVE  TypeInv'
<1>1. RowsOK'
  BY DEF TypeInv, RowsOK, StartDeliver, rows
<1>2. ProcsInv'
  BY BeginOK DEF TypeInv, Procs, StartDeliver, Steps, HandlerSteps, SweepSteps,
     SharedSteps, Between
<1>3. HistoryOK'
  BY DEF TypeInv, HistoryOK, StartDeliver, history, notes, marks, TakesUp
<1> QED
  BY <1>1, <1>2, <1>3 DEF TypeInv

\* StoreOutputs keeps the type invariant.
LEMMA TypeStoreOutputs ==
  ASSUME TypeInv, NEW h \in Handlers, StoreOutputs(h)
  PROVE  TypeInv'
<1>1. rid[h] \in Results /\ ChunkOf(h) \in Chunks
  BY RowHeld DEF TypeInv, Procs, Between, StoreOutputs, Move
<1>2. RowsOK'
  BY <1>1, PooledType DEF TypeInv, RowsOK, ProcsInv, ProcsOK, Procs, StoreOutputs
<1>3. ProcsInv'
  BY MoveOK DEF TypeInv, Procs, StoreOutputs, Steps, HandlerSteps, SweepSteps,
     SharedSteps, Between
<1>4. HistoryOK'
  BY DEF TypeInv, HistoryOK, StoreOutputs, history, notes, marks
<1> QED
  BY <1>2, <1>3, <1>4 DEF TypeInv

\* PassResult keeps the type invariant.
LEMMA TypePassResult ==
  ASSUME TypeInv, NEW p \in Procs, PassResult(p)
  PROVE  TypeInv'
<1>1. rid[p] \in Results /\ ChunkOf(p) \in Chunks
  BY RowHeld DEF TypeInv, Procs, Between, PassResult, Move
<1>2. RowsOK'
  BY <1>1, SetResultOK DEF TypeInv, PassResult, ResultStates
<1>3. ProcsInv'
  BY MoveOK DEF TypeInv, Procs, PassResult, Steps, HandlerSteps, SweepSteps,
     SharedSteps, Between
<1>4. HistoryOK'
  BY <1>1 DEF TypeInv, HistoryOK, PassResult, history, notes, marks
<1> QED
  BY <1>2, <1>3, <1>4 DEF TypeInv

\* AwaitOutputs keeps the type invariant.
LEMMA TypeAwaitOutputs ==
  ASSUME TypeInv, NEW p \in Procs, AwaitOutputs(p)
  PROVE  TypeInv'
<1>1. rid[p] \in Results /\ ChunkOf(p) \in Chunks
  BY RowHeld DEF TypeInv, Procs, Between, AwaitOutputs, Finish
<1>2. RowsOK'
  BY <1>1, SetChunkOK DEF TypeInv, AwaitOutputs, ChunkStates
<1>3. ProcsInv'
  BY FinishOK DEF TypeInv, Procs, AwaitOutputs, Steps, HandlerSteps, SweepSteps,
     SharedSteps, Between
<1>4. HistoryOK'
  BY <1>1 DEF TypeInv, HistoryOK, AwaitOutputs, history, notes, marks
<1> QED
  BY <1>2, <1>3, <1>4 DEF TypeInv

\* AcceptChunk keeps the type invariant.
LEMMA TypeAcceptChunk ==
  ASSUME TypeInv, NEW p \in Procs, AcceptChunk(p)
  PROVE  TypeInv'
<1>1. rid[p] \in Results /\ ChunkOf(p) \in Chunks
  BY RowHeld DEF TypeInv, Procs, Between, AcceptChunk, Move
<1>2. RowsOK'
  BY <1>1, SetChunkOK DEF TypeInv, AcceptChunk, ChunkStates
<1>3. ProcsInv'
  BY MoveOK DEF TypeInv, Procs, AcceptChunk, Steps, HandlerSteps, SweepSteps,
     SharedSteps, Between
<1>4. HistoryOK'
  BY DEF TypeInv, HistoryOK, AcceptChunk, history, notes, marks
<1> QED
  BY <1>2, <1>3, <1>4 DEF TypeInv

\* CreditEarnings keeps the type invariant.
LEMMA TypeCreditEarnings ==
  ASSUME TypeInv, NEW p \in Procs, CreditEarnings(p)
  PROVE  TypeInv'
<1>1. rid[p] \in Results /\ ChunkOf(p) \in Chunks
  BY RowHeld DEF TypeInv, Procs, Between, CreditEarnings, Move
<1>2. RowsOK'
  <2>1. credits' = [credits EXCEPT ![rid[p]] = credits[rid[p]] + 1]
    BY DEF CreditEarnings
  <2>2. credits \in [Results -> Nat] /\ credits[rid[p]] \in Nat
    BY <1>1 DEF TypeInv, RowsOK
  <2>3. credits' \in [Results -> Nat]
    BY <1>1, <2>1, <2>2
  <2> QED
    BY <2>3 DEF TypeInv, RowsOK, CreditEarnings
<1>3. ProcsInv'
  BY MoveOK DEF TypeInv, Procs, CreditEarnings, Steps, HandlerSteps, SweepSteps,
     SharedSteps, Between
<1>4. HistoryOK'
  BY DEF TypeInv, HistoryOK, CreditEarnings, history, notes, marks
<1> QED
  BY <1>2, <1>3, <1>4 DEF TypeInv

\* CountRemaining keeps the type invariant.
LEMMA TypeCountRemaining ==
  ASSUME TypeInv, NEW p \in Procs, CountRemaining(p)
  PROVE  TypeInv'
<1>1. RowsOK'
  BY DEF TypeInv, RowsOK, CountRemaining, rows
<1>2. ProcsInv'
  BY MoveOK, FinishOK DEF TypeInv, Procs, CountRemaining, Steps, HandlerSteps,
     SweepSteps, SharedSteps, Between
<1>3. HistoryOK'
  BY DEF TypeInv, HistoryOK, CountRemaining, history, notes, marks
<1> QED
  BY <1>1, <1>2, <1>3 DEF TypeInv

\* CloseJob keeps the type invariant.
LEMMA TypeCloseJob ==
  ASSUME TypeInv, NEW p \in Procs, CloseJob(p)
  PROVE  TypeInv'
<1>1. RowsOK'
  BY PooledType DEF TypeInv, RowsOK, ProcsInv, ProcsOK, Procs, CloseJob
<1>2. ProcsInv'
  BY FinishOK DEF TypeInv, Procs, CloseJob, Steps, HandlerSteps, SweepSteps,
     SharedSteps, Between
<1>3. HistoryOK'
  BY DEF TypeInv, HistoryOK, CloseJob, history, notes, marks
<1> QED
  BY <1>1, <1>2, <1>3 DEF TypeInv

\* FailResult keeps the type invariant.
LEMMA TypeFailResult ==
  ASSUME TypeInv, NEW p \in Procs, FailResult(p)
  PROVE  TypeInv'
<1>1. rid[p] \in Results /\ ChunkOf(p) \in Chunks
  BY RowHeld DEF TypeInv, Procs, Between, FailResult, Move
<1>2. RowsOK'
  BY <1>1, SetResultOK DEF TypeInv, FailResult, ResultStates
<1>3. ProcsInv'
  BY MoveOK DEF TypeInv, Procs, FailResult, Steps, HandlerSteps, SweepSteps,
     SharedSteps, Between
<1>4. HistoryOK'
  BY DEF TypeInv, HistoryOK, FailResult, history, notes, marks
<1> QED
  BY <1>2, <1>3, <1>4 DEF TypeInv

\* RecordRejection keeps the type invariant.
LEMMA TypeRecordRejection ==
  ASSUME TypeInv, NEW p \in Procs, RecordRejection(p)
  PROVE  TypeInv'
<1>1. rid[p] \in Results /\ ChunkOf(p) \in Chunks
  BY RowHeld DEF TypeInv, Procs, Between, RecordRejection, Move
<1>2. RowsOK'
  BY <1>1, RejectOK DEF TypeInv, RecordRejection, Reasons, ReasonOf
<1>3. ProcsInv'
  BY MoveOK DEF TypeInv, Procs, RecordRejection, Steps, HandlerSteps, SweepSteps,
     SharedSteps, Between
<1>4. HistoryOK'
  BY DEF TypeInv, HistoryOK, RecordRejection, history, notes, marks
<1> QED
  BY <1>2, <1>3, <1>4 DEF TypeInv

\* RepoolAndSlash keeps the type invariant.
LEMMA TypeRepoolAndSlash ==
  ASSUME TypeInv, NEW p \in Procs, RepoolAndSlash(p)
  PROVE  TypeInv'
<1>1. rid[p] \in Results /\ ChunkOf(p) \in Chunks
  BY RowHeld DEF TypeInv, Procs, Between, RepoolAndSlash, Finish
<1>2. RowsOK'
  BY <1>1, PoolOK DEF TypeInv, RepoolAndSlash
<1>3. ProcsInv'
  BY FinishOK DEF TypeInv, Procs, RepoolAndSlash, Steps, HandlerSteps, SweepSteps,
     SharedSteps, Between
<1>4. HistoryOK'
  BY <1>1 DEF TypeInv, HistoryOK, RepoolAndSlash, history, notes, marks
<1> QED
  BY <1>2, <1>3, <1>4 DEF TypeInv

\* SelectUnanswered keeps the type invariant.
LEMMA TypeSelectUnanswered ==
  ASSUME TypeInv, SelectUnanswered
  PROVE  TypeInv'
<1>1. RowsOK'
  BY DEF TypeInv, RowsOK, SelectUnanswered, Select, rows
<1>2. ProcsInv'
  BY SelectOK DEF TypeInv, Procs, SelectUnanswered, Steps, HandlerSteps,
     SweepSteps, SharedSteps, Between, HistoryOK, Windows
<1>3. HistoryOK'
  BY DEF TypeInv, HistoryOK, SelectUnanswered, history, notes, marks, Select, TakesUp
<1> QED
  BY <1>1, <1>2, <1>3 DEF TypeInv

\* ExpireChallenge keeps the type invariant.
LEMMA TypeExpireChallenge ==
  ASSUME TypeInv, NEW r \in Results, ExpireChallenge(r)
  PROVE  TypeInv'
<1>1. RowsOK'
  BY SetPassedOK DEF TypeInv, ExpireChallenge, Verdicts
<1>2. ProcsInv'
  BY TurnOK DEF TypeInv, Procs, ExpireChallenge, Steps, HandlerSteps, SweepSteps,
     SharedSteps, Between
<1>3. HistoryOK'
  BY DEF TypeInv, HistoryOK, ExpireChallenge, history, notes, marks
<1> QED
  BY <1>1, <1>2, <1>3 DEF TypeInv

\* SelectStalled keeps the type invariant.
LEMMA TypeSelectStalled ==
  ASSUME TypeInv, SelectStalled
  PROVE  TypeInv'
<1>1. RowsOK'
  BY DEF TypeInv, RowsOK, SelectStalled, Select, rows
<1>2. ProcsInv'
  BY SelectOK DEF TypeInv, Procs, SelectStalled, Steps, HandlerSteps, SweepSteps,
     SharedSteps, Between, HistoryOK, Windows
<1>3. HistoryOK'
  BY DEF TypeInv, HistoryOK, SelectStalled, history, notes, marks, Select, TakesUp
<1> QED
  BY <1>1, <1>2, <1>3 DEF TypeInv

\* HealStalled keeps the type invariant.
LEMMA TypeHealStalled ==
  ASSUME TypeInv, NEW r \in Results, HealStalled(r)
  PROVE  TypeInv'
<1>1. RowsOK'
  BY SetPassedOK DEF TypeInv, HealStalled, Verdicts
<1>2. ProcsInv'
  BY TurnOK DEF TypeInv, Procs, HealStalled, Steps, HandlerSteps, SweepSteps,
     SharedSteps, Between
<1>3. HistoryOK'
  BY DEF TypeInv, HistoryOK, HealStalled, history, notes, marks
<1> QED
  BY <1>1, <1>2, <1>3 DEF TypeInv

\* StalledResult keeps the type invariant.
LEMMA TypeStalledResult ==
  ASSUME TypeInv, StalledResult
  PROVE  TypeInv'
<1>1. rid[Sweeper] \in Results /\ ChunkOf(Sweeper) \in Chunks
  BY RowHeld DEF TypeInv, Procs, Between, StalledResult, Move
<1>2. RowsOK'
  BY <1>1, SetResultOK DEF TypeInv, StalledResult, ResultStates
<1>3. ProcsInv'
  BY MoveOK DEF TypeInv, Procs, StalledResult, Steps, HandlerSteps, SweepSteps,
     SharedSteps, Between
<1>4. HistoryOK'
  BY DEF TypeInv, HistoryOK, StalledResult, history, notes, marks
<1> QED
  BY <1>2, <1>3, <1>4 DEF TypeInv

\* StalledChunk keeps the type invariant.
LEMMA TypeStalledChunk ==
  ASSUME TypeInv, StalledChunk
  PROVE  TypeInv'
<1>1. rid[Sweeper] \in Results /\ ChunkOf(Sweeper) \in Chunks
  BY RowHeld DEF TypeInv, Procs, Between, StalledChunk, EndTurn
<1>2. RowsOK'
  BY <1>1, PoolOK DEF TypeInv, StalledChunk
<1>3. ProcsInv'
  BY EndTurnOK DEF TypeInv, Procs, StalledChunk, Steps, HandlerSteps, SweepSteps,
     SharedSteps, Between
<1>4. HistoryOK'
  BY DEF TypeInv, HistoryOK, StalledChunk, history, notes, marks
<1> QED
  BY <1>2, <1>3, <1>4 DEF TypeInv

\* SelectUndelivered keeps the type invariant.
LEMMA TypeSelectUndelivered ==
  ASSUME TypeInv, SelectUndelivered
  PROVE  TypeInv'
<1>1. RowsOK'
  BY DEF TypeInv, RowsOK, SelectUndelivered, Select, rows
<1>2. ProcsInv'
  BY SelectOK DEF TypeInv, Procs, SelectUndelivered, Steps, HandlerSteps,
     SweepSteps, SharedSteps, Between, HistoryOK, Windows
<1>3. HistoryOK'
  BY DEF TypeInv, HistoryOK, SelectUndelivered, history, notes, marks, Select, TakesUp
<1> QED
  BY <1>1, <1>2, <1>3 DEF TypeInv

\* ExpireDelivery keeps the type invariant.
LEMMA TypeExpireDelivery ==
  ASSUME TypeInv, NEW r \in Results, ExpireDelivery(r)
  PROVE  TypeInv'
<1>1. RowsOK'
  BY SetResultOK DEF TypeInv, ExpireDelivery, ResultStates
<1>2. ProcsInv'
  BY TurnOK DEF TypeInv, Procs, ExpireDelivery, Steps, HandlerSteps, SweepSteps,
     SharedSteps, Between
<1>3. HistoryOK'
  BY DEF TypeInv, HistoryOK, ExpireDelivery, history, notes, marks
<1> QED
  BY <1>1, <1>2, <1>3 DEF TypeInv

\* UndeliveredRow keeps the type invariant.
LEMMA TypeUndeliveredRow ==
  ASSUME TypeInv, UndeliveredRow
  PROVE  TypeInv'
<1>1. rid[Sweeper] \in Results /\ ChunkOf(Sweeper) \in Chunks
  BY RowHeld DEF TypeInv, Procs, Between, UndeliveredRow, Move
<1>2. RowsOK'
  BY <1>1, RejectOK DEF TypeInv, UndeliveredRow, Reasons
<1>3. ProcsInv'
  BY MoveOK DEF TypeInv, Procs, UndeliveredRow, Steps, HandlerSteps, SweepSteps,
     SharedSteps, Between
<1>4. HistoryOK'
  BY DEF TypeInv, HistoryOK, UndeliveredRow, history, notes, marks
<1> QED
  BY <1>2, <1>3, <1>4 DEF TypeInv

\* UndeliveredChunk keeps the type invariant.
LEMMA TypeUndeliveredChunk ==
  ASSUME TypeInv, UndeliveredChunk
  PROVE  TypeInv'
<1>1. rid[Sweeper] \in Results /\ ChunkOf(Sweeper) \in Chunks
  BY RowHeld DEF TypeInv, Procs, Between, UndeliveredChunk, EndTurn
<1>2. RowsOK'
  BY <1>1, PoolOK DEF TypeInv, UndeliveredChunk
<1>3. ProcsInv'
  BY EndTurnOK DEF TypeInv, Procs, UndeliveredChunk, Steps, HandlerSteps,
     SweepSteps, SharedSteps, Between
<1>4. HistoryOK'
  BY DEF TypeInv, HistoryOK, UndeliveredChunk, history, notes, marks
<1> QED
  BY <1>2, <1>3, <1>4 DEF TypeInv

\* Quarantine keeps the type invariant.
LEMMA TypeQuarantine ==
  ASSUME TypeInv, Quarantine
  PROVE  TypeInv'
<1>1. RowsOK'
  BY PooledType DEF TypeInv, RowsOK, ProcsInv, ProcsOK, Procs, Quarantine,
     Expired, ChunkRows, ChunkStates
<1>2. ProcsInv'
  BY MoveOK DEF TypeInv, Procs, Quarantine, Steps, HandlerSteps, SweepSteps,
     SharedSteps, Between
<1>3. HistoryOK'
  BY DEF TypeInv, HistoryOK, Quarantine, history, notes, marks, TakesUp
<1> QED
  BY <1>1, <1>2, <1>3 DEF TypeInv

\* Reclaim keeps the type invariant.
LEMMA TypeReclaim ==
  ASSUME TypeInv, Reclaim
  PROVE  TypeInv'
<1>1. RowsOK'
  BY PooledType DEF TypeInv, RowsOK, ProcsInv, ProcsOK, Procs, Reclaim, Expired
<1>2. ProcsInv'
  BY MoveOK DEF TypeInv, Procs, Reclaim, Steps, HandlerSteps, SweepSteps,
     SharedSteps, Between
<1>3. HistoryOK'
  BY DEF TypeInv, HistoryOK, Reclaim, history, notes, marks, TakesUp
<1> QED
  BY <1>1, <1>2, <1>3 DEF TypeInv

\* LeaseExpires keeps the type invariant.
LEMMA TypeLeaseExpires ==
  ASSUME TypeInv, NEW c \in Chunks, LeaseExpires(c)
  PROVE  TypeInv'
<1>1. RowsOK'
  BY PooledType DEF TypeInv, RowsOK, ProcsInv, ProcsOK, Procs, LeaseExpires,
     ChunkRows
<1>2. ProcsInv'
  BY DEF TypeInv, ProcsInv, ProcsOK, HasRow, Procs, LeaseExpires, procs, Steps,
     HandlerSteps, SweepSteps, SharedSteps, Between
<1>3. HistoryOK'
  BY DEF TypeInv, HistoryOK, LeaseExpires, history, notes, marks
<1> QED
  BY <1>1, <1>2, <1>3 DEF TypeInv

\* WindowElapses keeps the type invariant.
LEMMA TypeWindowElapses ==
  ASSUME TypeInv, NEW r \in Results, NEW k \in Windows, WindowElapses(r, k)
  PROVE  TypeInv'
<1>1. RowsOK'
  BY DEF TypeInv, RowsOK, WindowElapses, rows
<1>2. ProcsInv'
  BY DEF TypeInv, ProcsInv, ProcsOK, HasRow, Procs, WindowElapses, procs, Steps,
     HandlerSteps, SweepSteps, SharedSteps, Between
<1>3. HistoryOK'
  BY DEF TypeInv, HistoryOK, WindowElapses, history, notes, marks
<1> QED
  BY <1>1, <1>2, <1>3 DEF TypeInv

\* ProcessFails keeps the type invariant.
LEMMA TypeProcessFails ==
  ASSUME TypeInv, NEW p \in Procs, ProcessFails(p)
  PROVE  TypeInv'
<1>1. RowsOK'
  BY FreeRowType DEF TypeInv, RowsOK, ProcsInv, ProcsOK, ProcessFails
<1>2. ProcsInv'
  <2>1. failures' \in 0..MaxFailures
    BY DEF TypeInv, ProcsInv, ProcsOK, ProcessFails
  <2>2. "idle" \in Steps /\ "idle" \in Between
    BY DEF Steps, HandlerSteps, Between
  <2>3. /\ pc' \in [Procs -> Steps]
        /\ rid' \in [Procs -> Results \cup {NoResult}]
        /\ who' \in [Procs -> Workers \cup {NoWorker}]
        /\ todo' \subseteq Results
    BY <2>2 DEF TypeInv, ProcsInv, ProcsOK, ProcessFails
  <2>4. HasRow'
    BY <2>2 DEF TypeInv, ProcsInv, ProcsOK, HasRow, ProcessFails
  <2> QED
    BY <2>1, <2>3, <2>4 DEF ProcsInv, ProcsOK
<1>3. HistoryOK'
  BY DEF TypeInv, HistoryOK, ProcessFails, history, notes, marks
<1> QED
  BY <1>1, <1>2, <1>3 DEF TypeInv

\* A fresh job satisfies the type invariant.
LEMMA TypeInvInit == Init => TypeInv
<1> SUFFICES ASSUME Init PROVE TypeInv
  OBVIOUS
<1>1. RowsOK
  BY FreeRowType DEF Init, RowsOK, ChunkRows, ChunkStates, ChallengeRows,
     Verdicts, Reasons
<1>2. ProcsInv
  BY DEF Init, ProcsInv, ProcsOK, HasRow, Steps, HandlerSteps, Between
<1>3. HistoryOK
  BY DEF Init, HistoryOK
<1> QED
  BY <1>1, <1>2, <1>3 DEF TypeInv

\* Every statement of every process keeps the type invariant.
LEMMA TypeInvStep == TypeInv /\ [Next]_vars => TypeInv'
<1> SUFFICES ASSUME TypeInv, [Next]_vars PROVE TypeInv'
  OBVIOUS
<1>1. ASSUME NEW h \in Handlers, Request(h) PROVE TypeInv'
  BY <1>1, TypeStartLease, TypeStartSubmit, TypeStartRespond, TypeStartDeliver
     DEF Request
<1>2. ASSUME NEW p \in Procs, RejectStep(p) PROVE TypeInv'
  BY <1>2, TypeFailResult, TypeRecordRejection, TypeRepoolAndSlash DEF RejectStep
<1>3. ASSUME NEW p \in Procs, AcceptStep(p) PROVE TypeInv'
  BY <1>3, TypePassResult, TypeAwaitOutputs, TypeAcceptChunk, TypeCreditEarnings,
     TypeCountRemaining, TypeCloseJob DEF AcceptStep
<1>4. ASSUME NEW h \in Handlers, HandlerStep(h) PROVE TypeInv'
  BY <1>2, <1>3, <1>4, TypeLeaseTx, TypeInsertResult, TypeMarkSubmitted,
     TypeDecideChallenge, TypeIssueChallenge, TypeMarkChallenged,
     TypeMarkVerifying, TypeStampResponse, TypeVerdictTrue, TypeVerdictFalse,
     TypeStoreOutputs DEF HandlerStep, Procs
<1>5. CASE SweepStep
  BY <1>2, <1>5, TypeSelectUnanswered, TypeExpireChallenge, TypeSelectStalled,
     TypeHealStalled, TypeStalledResult, TypeStalledChunk, TypeSelectUndelivered,
     TypeExpireDelivery, TypeUndeliveredRow, TypeUndeliveredChunk,
     TypeQuarantine, TypeReclaim DEF SweepStep, Procs
<1>6. CASE TimePasses
  BY <1>6, TypeLeaseExpires, TypeWindowElapses DEF TimePasses
<1>7. ASSUME NEW p \in Procs, ProcessFails(p) PROVE TypeInv'
  BY <1>7, TypeProcessFails
<1>8. CASE UNCHANGED vars
  BY <1>8 DEF vars, rows, procs, history, notes, marks, TypeInv, RowsOK, ProcsInv, ProcsOK,
     HasRow, HistoryOK
<1> QED
  BY <1>1, <1>4, <1>5, <1>6, <1>7, <1>8 DEF Next

\* Rows and processes always satisfy the type invariant.
LEMMA TypeInvariance == Spec => []TypeInv
  BY TypeInvInit, TypeInvStep, PTL DEF Spec

\* Every row and every process keeps to the states the migrations allow.
THEOREM TypeCorrect == Spec => []TypeOK
<1>1. TypeInv => TypeOK
  BY DEF TypeInv, ProcsInv, TypeOK
<1> QED
  BY <1>1, TypeInvariance, PTL
-----------------------------------------------------------------------------
(***************************************************************************)
(* Payment.                                                                *)
(***************************************************************************)

\* What must be on file before a result is paid for.
Earned(r) ==
    /\ Mode = "output_hash" => r \in delivered
    /\ Mode = "witness_extremum" => r \in everPassed

Paying == {"accept", "credit"}

PaymentInv ==
    /\ \A r \in Results : credits[r] > 0 => Earned(r)
    /\ \A p \in Procs : pc[p] \in Paying => Earned(rid[p])
    /\ \A p \in Procs : pc[p] = "store" => Mode = "output_hash"

\* Nothing has been credited at the start.
LEMMA PaymentInit == Init => PaymentInv
  BY DEF Init, PaymentInv, Paying

\* No step un-stores outputs or un-passes a result, so a step that credits
\* nothing and takes no process to a payment keeps the invariant.
LEMMA PaymentQuiet ==
  ASSUME PaymentInv, credits' = credits,
         delivered \subseteq delivered', everPassed \subseteq everPassed',
         \A p \in Procs : pc'[p] \in Paying => pc[p] \in Paying /\ rid'[p] = rid[p],
         \A p \in Procs : pc'[p] = "store" => pc[p] = "store" \/ Mode = "output_hash"
  PROVE  PaymentInv'
  BY DEF PaymentInv, Earned

\* Whatever step is taken, a credit comes after what it is owed for.
LEMMA PaymentStep == TypeInv /\ PaymentInv /\ [Next]_vars => PaymentInv'
<1> SUFFICES ASSUME TypeInv, PaymentInv, [Next]_vars PROVE PaymentInv'
  OBVIOUS
<1>t. pc \in [Procs -> Steps] /\ rid \in [Procs -> Results \cup {NoResult}]
  BY DEF TypeInv, ProcsInv, ProcsOK
<1>1. ASSUME NEW h \in Handlers, Request(h) PROVE PaymentInv'
  BY <1>t, <1>1, PaymentQuiet DEF Request, StartLease, StartSubmit, StartRespond,
     StartDeliver, Begin, Paying, Procs, rows, history, notes, marks
<1>2. ASSUME NEW p \in Procs, RejectStep(p) PROVE PaymentInv'
  BY <1>t, <1>2, PaymentQuiet DEF RejectStep, FailResult, RecordRejection,
     RepoolAndSlash,
     Move, Finish, Paying, history, notes, marks
<1>3. ASSUME NEW p \in Procs, AcceptStep(p) PROVE PaymentInv'
  <2>1. CASE PassResult(p)
    <3>1. rid[p] \in everPassed' /\ rid' = rid /\ UNCHANGED <<credits, delivered>>
      BY <2>1 DEF PassResult, Move
    <3>2. /\ pc'[p] \in Paying => Mode = "witness_extremum"
          /\ pc'[p] # "store"
      BY <1>t, <2>1 DEF PassResult, Move, Paying
    <3>3. \A q \in Procs \ {p} : pc'[q] = pc[q]
      BY <1>t, <2>1 DEF PassResult, Move
    <3>4. everPassed \subseteq everPassed'
      BY <2>1 DEF PassResult
    <3> QED
      BY <3>1, <3>2, <3>3, <3>4 DEF PaymentInv, Earned
  <2>2. CASE CreditEarnings(p)
    <3>1. /\ pc[p] = "credit" /\ pc' = [pc EXCEPT ![p] = "count"]
          /\ credits' = [credits EXCEPT ![rid[p]] = @ + 1]
          /\ UNCHANGED <<rid, delivered, everPassed>>
      BY <2>2 DEF CreditEarnings, Move, history, notes, marks
    <3>2. Earned(rid[p])
      BY <3>1 DEF PaymentInv, Paying
    <3>3. ASSUME NEW r \in Results, credits'[r] > 0
          PROVE  Earned(r)
      BY <3>1, <3>2, <3>3 DEF PaymentInv, TypeInv, RowsOK
    <3>4. ASSUME NEW q \in Procs, pc'[q] \in Paying
          PROVE  Earned(rid[q])
      BY <1>t, <3>1, <3>4 DEF PaymentInv, Paying
    <3> QED
      BY <3>1, <3>3, <3>4 DEF PaymentInv, Earned
  <2>3. CASE AwaitOutputs(p) \/ CountRemaining(p) \/ CloseJob(p)
    BY <1>t, <2>3, PaymentQuiet DEF AwaitOutputs, CountRemaining, CloseJob, Move,
       Finish, Paying, rows, history, notes, marks
  <2>4. CASE AcceptChunk(p)
    BY <1>t, <2>4, PaymentQuiet DEF AcceptChunk, Move, Paying, history, notes, marks
  <2> QED
    BY <1>3, <2>1, <2>2, <2>3, <2>4 DEF AcceptStep
<1>4. ASSUME NEW h \in Handlers, HandlerStep(h) PROVE PaymentInv'
  <2>1. CASE StoreOutputs(h)
    <3>1. rid[h] \in delivered' /\ rid' = rid /\ UNCHANGED <<credits, everPassed>>
      BY <2>1 DEF StoreOutputs, Move, history, notes, marks
    <3>2. Mode = "output_hash"
      BY <2>1 DEF StoreOutputs, Move, PaymentInv, Procs
    <3>3. \A q \in Procs \ {h} : pc'[q] = pc[q]
      BY <1>t, <2>1 DEF StoreOutputs, Move
    <3>4. delivered \subseteq delivered'
      BY <2>1 DEF StoreOutputs
    <3> QED
      BY <3>1, <3>2, <3>3, <3>4 DEF PaymentInv, Earned
  <2>2. CASE LeaseTx(h) \/ InsertResult(h) \/ MarkSubmitted(h) \/ DecideChallenge(h)
    BY <1>t, <2>2, PaymentQuiet DEF LeaseTx, InsertResult, MarkSubmitted,
       DecideChallenge, Move, Paying, Procs, rows, history, notes, marks
  <2>3. CASE IssueChallenge(h) \/ MarkChallenged(h) \/ MarkVerifying(h)
    BY <1>t, <2>3, PaymentQuiet DEF IssueChallenge, MarkChallenged, MarkVerifying,
       Move, Finish, Paying, Procs, rows, history, notes, marks
  <2>4. CASE StampResponse(h) \/ VerdictTrue(h) \/ VerdictFalse(h)
    BY <1>t, <2>4, PaymentQuiet DEF StampResponse, VerdictTrue, VerdictFalse,
       Move, Paying, Procs, rows, history, notes, marks
  <2> QED
    BY <1>2, <1>3, <1>4, <2>1, <2>2, <2>3, <2>4 DEF HandlerStep, Procs
<1>5. CASE SweepStep
  BY <1>t, <1>5, <1>2, PaymentQuiet DEF SweepStep, SelectUnanswered,
     ExpireChallenge, SelectStalled,
     HealStalled, StalledResult, StalledChunk, SelectUndelivered, ExpireDelivery, UndeliveredRow,
     UndeliveredChunk, Quarantine, Reclaim, Select, Turn, EndTurn, Move, Paying, Procs, rows, history, notes, marks
<1>6. CASE TimePasses
  BY <1>6, PaymentQuiet DEF TimePasses, LeaseExpires, WindowElapses, rows, procs,
     history, notes, marks
<1>7. ASSUME NEW p \in Procs, ProcessFails(p) PROVE PaymentInv'
  BY <1>t, <1>7, PaymentQuiet DEF ProcessFails, Paying, history, notes, marks
<1>8. CASE UNCHANGED vars
  BY <1>8, PaymentQuiet DEF vars, rows, procs, history, notes, marks
<1> QED
  BY <1>1, <1>4, <1>5, <1>6, <1>7, <1>8 DEF Next

\* Credits are always earned.
LEMMA PaymentInvariance == Spec => []PaymentInv
  BY TypeInvariance, PaymentInit, PaymentStep, PTL DEF Spec

\* In an output bounty nothing is credited before the outputs are stored,
\* however many deliveries, responses and sweeps overlap or die half-way.
THEOREM DeliveryGatesPayment == Spec => []CreditAfterDelivery
<1>1. PaymentInv => CreditAfterDelivery
  BY DEF PaymentInv, Earned, CreditAfterDelivery
<1> QED
  BY <1>1, PaymentInvariance, PTL

\* In an extremum bounty nothing is credited that did not pass verification.
THEOREM VerificationGatesPayment ==
  ASSUME Mode = "witness_extremum"
  PROVE  Spec => []PaidWasVerified
<1>1. PaymentInv => PaidWasVerified
  BY DEF PaymentInv, Earned, PaidWasVerified
<1> QED
  BY <1>1, PaymentInvariance, PTL
-----------------------------------------------------------------------------
(***************************************************************************)
(* Rejection and slashing.                                                 *)
(***************************************************************************)

TranscriptInv ==
    /\ SlashHasTranscript
    /\ \A p \in Procs : pc[p] = "repool" => rejection[rid[p]] # "none"

\* Nobody has been slashed at the start.
LEMMA TranscriptInit == Init => TranscriptInv
  BY DEF Init, TranscriptInv, SlashHasTranscript

\* A reason once written stays, so a step that slashes nobody and takes no
\* process to the slash keeps the invariant.
LEMMA TranscriptQuiet ==
  ASSUME TypeInv, TranscriptInv, slashSent' = slashSent,
         \A r \in Results : rejection[r] # "none" => rejection'[r] # "none",
         \A p \in Procs : pc'[p] = "repool" => pc[p] = "repool" /\ rid'[p] = rid[p]
  PROVE  TranscriptInv'
<1>1. \A p \in Procs : pc[p] = "repool" => rid[p] \in Results
  BY DEF TypeInv, ProcsInv, HasRow, Between
<1>2. slashSent \subseteq Results
  BY DEF TypeInv, HistoryOK
<1> QED
  BY <1>1, <1>2 DEF TranscriptInv, SlashHasTranscript

\* Every step keeps a rejection on file for each slash, sent or about to be.
LEMMA TranscriptStep == TypeInv /\ TranscriptInv /\ [Next]_vars => TranscriptInv'
<1> SUFFICES ASSUME TypeInv, TranscriptInv, [Next]_vars PROVE TranscriptInv'
  OBVIOUS
<1>t. pc \in [Procs -> Steps] /\ rid \in [Procs -> Results \cup {NoResult}]
      /\ rejection \in [Results -> Reasons]
  BY DEF TypeInv, ProcsInv, ProcsOK, RowsOK
<1>1. ASSUME NEW h \in Handlers, Request(h) PROVE TranscriptInv'
  BY <1>t, <1>1, TranscriptQuiet DEF Request, StartLease, StartSubmit, StartRespond,
     StartDeliver, Begin, Procs, rows, history, notes, marks
<1>2. ASSUME NEW p \in Procs, RejectStep(p) PROVE TranscriptInv'
  <2>1. CASE FailResult(p)
    BY <1>t, <2>1, TranscriptQuiet DEF FailResult, Move, history, notes, marks
  <2>2. CASE RecordRejection(p)
    <3>1. rid[p] \in Results
      BY <2>2, RowHeld DEF TypeInv, RecordRejection, Move, Between
    <3>2. ReasonOf(p) # "none"
      BY DEF ReasonOf
    <3>3. \A r \in Results : /\ rejection[r] # "none" => rejection'[r] # "none"
                             /\ r = rid[p] => rejection'[r] # "none"
      BY <1>t, <2>2, <3>1, <3>2 DEF RecordRejection, Reject
    <3>4. /\ pc' = [pc EXCEPT ![p] = "repool"] /\ rid' = rid
          /\ slashSent' = slashSent
      BY <2>2 DEF RecordRejection, Move, history, notes, marks
    <3>5. ASSUME NEW q \in Procs, pc'[q] = "repool"
          PROVE  rejection'[rid'[q]] # "none"
      <4>1. q # p => pc[q] = "repool" /\ rid[q] \in Results
        BY <1>t, <3>4, <3>5, RowHeld DEF TypeInv, Between
      <4> QED
        BY <3>1, <3>3, <3>4, <4>1 DEF TranscriptInv
    <3>6. SlashHasTranscript'
      BY <3>3, <3>4 DEF TranscriptInv, SlashHasTranscript, TypeInv, HistoryOK
    <3> QED
      BY <3>5, <3>6 DEF TranscriptInv
  <2>3. CASE RepoolAndSlash(p)
    <3>1. /\ pc[p] = "repool" /\ pc'[p] # "repool"
          /\ \A q \in Procs \ {p} : pc'[q] = pc[q] /\ rid'[q] = rid[q]
      BY <1>t, <2>3 DEF RepoolAndSlash, Finish
    <3>2. rejection' = rejection /\ slashSent' = slashSent \cup {rid[p]}
      BY <2>3 DEF RepoolAndSlash
    <3> QED
      BY <3>1, <3>2 DEF TranscriptInv, SlashHasTranscript
  <2> QED
    BY <1>2, <2>1, <2>2, <2>3 DEF RejectStep
<1>3. ASSUME NEW p \in Procs, AcceptStep(p) PROVE TranscriptInv'
  BY <1>t, <1>3, TranscriptQuiet DEF AcceptStep, PassResult, AwaitOutputs,
     AcceptChunk,
     CreditEarnings, CountRemaining, CloseJob, Move, Finish, rows, history, notes, marks
<1>4. ASSUME NEW h \in Handlers, HandlerStep(h) PROVE TranscriptInv'
  <2>1. CASE LeaseTx(h) \/ InsertResult(h) \/ MarkSubmitted(h) \/ DecideChallenge(h)
    BY <1>t, <2>1, TranscriptQuiet DEF LeaseTx, InsertResult, MarkSubmitted,
       DecideChallenge, Move, Procs, rows, history, notes, marks
  <2>2. CASE IssueChallenge(h) \/ MarkChallenged(h) \/ MarkVerifying(h)
    BY <1>t, <2>2, TranscriptQuiet DEF IssueChallenge, MarkChallenged,
       MarkVerifying,
       Move, Finish, Procs, rows, history, notes, marks
  <2>3. CASE StampResponse(h) \/ VerdictTrue(h) \/ VerdictFalse(h) \/ StoreOutputs(h)
    BY <1>t, <2>3, TranscriptQuiet DEF StampResponse, VerdictTrue, VerdictFalse,
       StoreOutputs, Move, Procs, rows, history, notes, marks
  <2> QED
    BY <1>2, <1>3, <1>4, <2>1, <2>2, <2>3 DEF HandlerStep, Procs
<1>5. CASE SweepStep
  <2>1. CASE UndeliveredRow
    <3>1. \A r \in Results : rejection[r] # "none" => rejection'[r] # "none"
      BY <1>t, <2>1 DEF UndeliveredRow, Reject
    <3> QED
      BY <1>t, <2>1, <3>1, TranscriptQuiet DEF UndeliveredRow, Move, Procs, history, notes, marks
  <2>2. CASE SelectUnanswered \/ SelectStalled \/ SelectUndelivered
    BY <1>t, <2>2, TranscriptQuiet DEF SelectUnanswered, SelectStalled,
       SelectUndelivered, Select, Procs, rows, history, notes, marks
  <2>3. ASSUME NEW r \in Results, ExpireChallenge(r) \/ HealStalled(r) \/ ExpireDelivery(r)
        PROVE  TranscriptInv'
    BY <1>t, <2>3, TranscriptQuiet DEF ExpireChallenge, HealStalled, ExpireDelivery,
       Turn, Procs, history, notes, marks
  <2>4. CASE StalledResult \/ StalledChunk \/ UndeliveredChunk \/ Quarantine \/ Reclaim
    BY <1>t, <2>4, TranscriptQuiet DEF StalledResult, StalledChunk,
       UndeliveredChunk,
       Quarantine, Reclaim, Move, EndTurn, Procs, history, notes, marks
  <2> QED
    BY <1>5, <1>2, <2>1, <2>2, <2>3, <2>4 DEF SweepStep, Procs
<1>6. CASE TimePasses
  BY <1>6, TranscriptQuiet DEF TimePasses, LeaseExpires, WindowElapses, rows,
     procs, history, notes, marks
<1>7. ASSUME NEW p \in Procs, ProcessFails(p) PROVE TranscriptInv'
  BY <1>t, <1>7, TranscriptQuiet DEF ProcessFails, history, notes, marks
<1>8. CASE UNCHANGED vars
  BY <1>8, TranscriptQuiet DEF vars, rows, procs, history, notes, marks
<1> QED
  BY <1>1, <1>4, <1>5, <1>6, <1>7, <1>8 DEF Next

\* The rejection always comes before the slash.
LEMMA TranscriptInvariance == Spec => []TranscriptInv
  BY TypeInvariance, TranscriptInit, TranscriptStep, PTL DEF Spec

\* No bond is burnt without a rejection on file, whatever fails or overlaps.
THEOREM SlashesAreOnFile == Spec => []SlashHasTranscript
<1>1. TranscriptInv => SlashHasTranscript
  BY DEF TranscriptInv
<1> QED
  BY <1>1, TranscriptInvariance, PTL
-----------------------------------------------------------------------------
(***************************************************************************)
(* Sound work keeps its bond until the coordinator fails.                  *)
(*                                                                         *)
(* A bond is burnt at the end of rejectResult.  A handler gets there with  *)
(* unsound work only.  The sweeper gets there with the rows its first loop *)
(* selected, so the invariant follows a row from the closing of its window *)
(* (SilentInv) to the list of the loop (LoopInv) to the slash (BlameInv).  *)
(* That the worker had been told of the challenge rests on the request     *)
(* that wrote the challenge going on to its answer (AskedInv).             *)
(***************************************************************************)

Rejecting == {"fail", "reject", "repool"}
Marked    == {"reject", "repool"}
Expiring  == {"expire", "fail", "reject", "repool"}
Issuing   == {"markChallenged", "markVerifying"}

Blamed(r) == result[r].good => r \in told /\ r \in late

BlameInv ==
    /\ \A r \in slashSent : result[r].state # "none" /\ Blamed(r)
    /\ \A p \in Procs : pc[p] \in Rejecting => Blamed(rid[p])
    /\ \A p \in Procs : pc[p] \in Marked => result[rid[p]].state # "none"

LoopInv == pc[Sweeper] \in Expiring => todo \subseteq told \cap late

SilentInv == \A r \in elapsed["challenge"] :
                r \in told /\ (~challenge[r].answered => r \in late)

AskedInv == \A r \in Results : challenge[r].passed = "null" =>
               r \in told \/ \E h \in Handlers : rid[h] = r /\ pc[h] \in Issuing

HonestInv == BlameInv /\ LoopInv /\ SilentInv /\ AskedInv

\* Nobody is blamed for anything at the start.
LEMMA HonestInit == Init => HonestInv
  BY DEF Init, HonestInv, BlameInv, LoopInv, SilentInv, AskedInv, Windows,
     Rejecting, Marked, Expiring

\* What a step has to show for itself.  The first fact is that a row keeps its
\* worth once a process holds it or its insert is done.
LEMMA HonestByParts ==
  ASSUME TypeInv, HonestInv,
         \A r \in Results :
           \/ /\ result'[r].good = result[r].good
              /\ result[r].state # "none" => result'[r].state # "none"
           \/ result[r].state = "none" /\ \A p \in Procs : rid[p] # r,
         told \subseteq told', late \subseteq late',
         \A r \in slashSent' :
           r \in slashSent \/ (result'[r].state # "none" /\ Blamed(r)' ),
         \A p \in Procs : pc'[p] \in Rejecting =>
           (pc[p] \in Rejecting /\ rid'[p] = rid[p]) \/ Blamed(rid[p])',
         \A p \in Procs : pc'[p] \in Marked =>
           \/ pc[p] \in Marked /\ rid'[p] = rid[p]
           \/ result'[rid'[p]].state # "none",
         pc'[Sweeper] \in Expiring =>
           \/ pc[Sweeper] \in Expiring /\ todo' \subseteq todo
           \/ todo' \subseteq told \cap late,
         \A r \in elapsed'["challenge"] :
           \/ r \in elapsed["challenge"]
           \/ r \in told /\ (~challenge'[r].answered => r \in late'),
         \A r \in Results : challenge[r].answered => challenge'[r].answered,
         \A r \in Results : challenge'[r].passed = "null" =>
           \/ challenge[r].passed = "null"
           \/ \E h \in Handlers : rid'[h] = r /\ pc'[h] \in Issuing,
         \A h \in Handlers : pc[h] \in Issuing =>
           (pc'[h] \in Issuing /\ rid'[h] = rid[h]) \/ rid[h] \in told'
  PROVE  HonestInv'
<1>1. slashSent \subseteq Results
  BY DEF TypeInv, HistoryOK
<1>2. \A p \in Procs : pc[p] \in Rejecting \cup Marked => rid[p] \in Results
  BY DEF TypeInv, ProcsInv, HasRow, Between, Rejecting, Marked
<1>3. BlameInv'
  <2>1. ASSUME NEW r \in slashSent'
        PROVE  result'[r].state # "none" /\ Blamed(r)'
    BY <1>1, <2>1 DEF HonestInv, BlameInv, Blamed
  <2>2. ASSUME NEW p \in Procs, pc'[p] \in Rejecting
        PROVE  Blamed(rid[p])'
    BY <1>2, <2>2 DEF HonestInv, BlameInv, Blamed
  <2>3. ASSUME NEW p \in Procs, pc'[p] \in Marked
        PROVE  result'[rid'[p]].state # "none"
    BY <1>2, <2>3 DEF HonestInv, BlameInv
  <2> QED
    BY <2>1, <2>2, <2>3 DEF BlameInv
<1>4. LoopInv'
  BY DEF HonestInv, LoopInv
<1>5. SilentInv'
  <2> SUFFICES ASSUME NEW r \in elapsed'["challenge"]
               PROVE  r \in told' /\ (~challenge'[r].answered => r \in late')
    BY DEF SilentInv
  <2>1. CASE r \in elapsed["challenge"]
    <3>1. r \in Results
      BY <2>1 DEF TypeInv, HistoryOK, Windows
    <3> QED
      BY <2>1, <3>1 DEF HonestInv, SilentInv
  <2>2. CASE r \notin elapsed["challenge"]
    BY <2>2
  <2> QED
    BY <2>1, <2>2
<1>6. AskedInv'
  BY DEF HonestInv, AskedInv
<1> QED
  BY <1>3, <1>4, <1>5, <1>6 DEF HonestInv

\* Only ProcessFails counts a failure, and none is ever forgotten.
LEMMA FailuresCount ==
  ASSUME TypeInv, [Next]_vars, failures' = 0
  PROVE  failures = 0 /\ \A p \in Procs : ~ProcessFails(p)
<1>t. failures \in Nat
  BY ConstantsAssumption DEF TypeInv, ProcsInv, ProcsOK
<1>1. \A p \in Procs : ~ProcessFails(p)
  BY <1>t DEF ProcessFails
<1>2. ASSUME NEW h \in Handlers, Request(h) PROVE failures' = failures
  BY <1>2 DEF Request, StartLease, StartSubmit, StartRespond, StartDeliver, Begin
<1>3. ASSUME NEW p \in Procs, AcceptStep(p) \/ RejectStep(p) PROVE failures' = failures
  BY <1>3 DEF AcceptStep, PassResult, AwaitOutputs, AcceptChunk, CreditEarnings,
     CountRemaining, CloseJob, RejectStep, FailResult, RecordRejection,
     RepoolAndSlash, Move, Finish
<1>4. ASSUME NEW h \in Handlers, HandlerStep(h) PROVE failures' = failures
  BY <1>3, <1>4 DEF HandlerStep, LeaseTx, InsertResult, MarkSubmitted,
     DecideChallenge, IssueChallenge, MarkChallenged, MarkVerifying, StampResponse,
     VerdictTrue, VerdictFalse, StoreOutputs, Move, Finish, Procs
<1>5. CASE SweepStep
  <2>1. CASE SelectUnanswered \/ SelectStalled \/ SelectUndelivered
    BY <1>1, <2>1 DEF SelectUnanswered, SelectStalled, SelectUndelivered, Select
  <2>2. ASSUME NEW r \in Results, ExpireChallenge(r) \/ HealStalled(r) \/ ExpireDelivery(r)
        PROVE  failures' = failures
    BY <2>2 DEF ExpireChallenge, HealStalled, ExpireDelivery, Turn
  <2>3. CASE StalledResult \/ StalledChunk \/ UndeliveredRow \/ UndeliveredChunk
    BY <1>1, <2>3 DEF StalledResult, StalledChunk, UndeliveredRow, UndeliveredChunk, Move,
       EndTurn
  <2>4. CASE Quarantine \/ Reclaim
    BY <1>1, <2>4 DEF Quarantine, Reclaim, Move
  <2> QED
    BY <1>1, <1>3, <1>5, <2>1, <2>2, <2>3, <2>4 DEF SweepStep, Procs
<1>6. CASE TimePasses
  <2>1. ASSUME NEW c \in Chunks, LeaseExpires(c) PROVE failures' = failures
    BY <2>1 DEF LeaseExpires
  <2>2. ASSUME NEW r \in Results, NEW k \in Windows, WindowElapses(r, k)
        PROVE  failures' = failures
    BY <2>2 DEF WindowElapses
  <2> QED
    BY <1>1, <1>6, <2>1, <2>2 DEF TimePasses
<1>7. CASE UNCHANGED vars
  BY <1>1, <1>7 DEF vars
<1> QED
  BY <1>1, <1>2, <1>4, <1>5, <1>6, <1>7 DEF Next

\* Until a failure, every step keeps the blame where it belongs.
LEMMA HonestStep ==
  ASSUME TypeInv, HonestInv, [Next]_vars, \A p \in Procs : ~ProcessFails(p)
  PROVE  HonestInv'
<1> USE DEF Rejecting, Marked, Expiring, Issuing, history, notes, marks
<1>t. /\ pc \in [Procs -> Steps] /\ rid \in [Procs -> Results \cup {NoResult}]
      /\ result \in [Results -> ResultRows] /\ challenge \in [Results -> ChallengeRows]
      /\ elapsed \in [Windows -> SUBSET Results]
      /\ Sweeper \in Procs /\ Sweeper \notin Handlers /\ Handlers \subseteq Procs
      /\ \A r \in Results : result[r] \in ResultRows /\ challenge[r] \in ChallengeRows
      /\ "challenge" \in Windows
  BY DEF TypeInv, ProcsInv, ProcsOK, RowsOK, HistoryOK, Procs, Windows
<1>1. ASSUME NEW h \in Handlers, Request(h) PROVE HonestInv'
  <2>1. ASSUME NEW w \in Workers, StartLease(h, w) PROVE HonestInv'
    BY <1>t, <2>1, HonestByParts DEF StartLease, rows
  <2>2. ASSUME NEW c \in Chunks, NEW good \in BOOLEAN, StartSubmit(h, c, good)
        PROVE  HonestInv'
    BY <1>t, <2>2, HonestByParts DEF StartSubmit, IsNextResult, Begin
  <2>3. ASSUME NEW r \in Results, StartRespond(h, r) \/ StartDeliver(h, r) PROVE HonestInv'
    BY <1>t, <2>3, HonestByParts DEF StartRespond, StartDeliver, Begin, rows
  <2> QED
    BY <1>1, <2>1, <2>2, <2>3 DEF Request
<1>2. ASSUME NEW p \in Procs, RejectStep(p) PROVE HonestInv'
  <2>1. CASE FailResult(p)
    <3>1. rid[p] \in Results
      BY <2>1, RowHeld DEF TypeInv, FailResult, Move, Between
    <3> QED
      BY <1>t, <2>1, <3>1, HonestByParts DEF FailResult, Move, SetResult
  <2>2. CASE RecordRejection(p)
    BY <1>t, <2>2, HonestByParts DEF RecordRejection, Move
  <2>3. CASE RepoolAndSlash(p)
    <3>1. /\ pc[p] = "repool" /\ rid[p] \in Results
          /\ result[rid[p]].state # "none" /\ Blamed(rid[p])
      BY <2>3, RowHeld DEF TypeInv, RepoolAndSlash, Finish, Between, HonestInv,
         BlameInv, Rejecting, Marked
    <3>2. /\ pc'[p] \notin Rejecting \cup Marked \cup Issuing
          /\ p # Sweeper => pc'[p] \notin Expiring
          /\ \A q \in Procs \ {p} : pc'[q] = pc[q] /\ rid'[q] = rid[q]
      BY <1>t, <2>3 DEF RepoolAndSlash, Finish, Rejecting, Marked, Issuing, Expiring
    <3>3. pc'[Sweeper] \in Expiring => pc[Sweeper] \in Expiring
      BY <1>t, <3>1, <3>2 DEF Expiring
    <3>4. UNCHANGED <<result, challenge, elapsed, todo, told, late>>
          /\ slashSent' = slashSent \cup {rid[p]}
      BY <2>3 DEF RepoolAndSlash, Finish
    <3>5. pc[p] \notin Issuing
      BY <3>1 DEF Issuing
    <3> QED
      BY <1>t, <3>1, <3>2, <3>3, <3>4, <3>5, HonestByParts DEF Blamed
  <2> QED
    BY <1>2, <2>1, <2>2, <2>3 DEF RejectStep
<1>3. ASSUME NEW p \in Handlers, AcceptStep(p) PROVE HonestInv'
  <2>1. CASE PassResult(p)
    BY <1>t, <2>1, HonestByParts DEF PassResult, Move, SetResult
  <2>2. CASE AwaitOutputs(p)
    BY <1>t, <2>2, HonestByParts DEF AwaitOutputs, Finish
  <2>3. CASE AcceptChunk(p) \/ CreditEarnings(p) 
    BY <1>t, <2>3, HonestByParts DEF AcceptChunk, CreditEarnings, Move
  <2>4. CASE CountRemaining(p) \/ CloseJob(p)
    BY <1>t, <2>4, HonestByParts DEF CountRemaining, CloseJob, Move, Finish, rows
  <2> QED
    BY <1>3, <2>1, <2>2, <2>3, <2>4 DEF AcceptStep
<1>4. ASSUME NEW h \in Handlers, HandlerStep(h) PROVE HonestInv'
  <2>1. CASE LeaseTx(h) \/ DecideChallenge(h) \/ StoreOutputs(h)
    BY <1>t, <2>1, HonestByParts DEF LeaseTx, DecideChallenge, StoreOutputs, Move,
       rows
  <2>2. CASE InsertResult(h)
    BY <1>t, <2>2, HonestByParts DEF InsertResult, Move, SetResult
  <2>3. CASE MarkSubmitted(h)
    BY <1>t, <2>3, HonestByParts DEF MarkSubmitted, ChecksMayFail, Move, Blamed
  <2>4. CASE IssueChallenge(h)
    BY <1>t, <2>4, HonestByParts DEF IssueChallenge, Move, SetPassed
  <2>5. CASE MarkChallenged(h)
    BY <1>t, <2>5, HonestByParts DEF MarkChallenged, Move, SetResult
  <2>6. CASE MarkVerifying(h)
    BY <1>t, <2>6, HonestByParts DEF MarkVerifying, Finish
  <2>7. CASE StampResponse(h)
    BY <1>t, <2>7, HonestByParts DEF StampResponse, Move
  <2>8. CASE VerdictTrue(h)
    BY <1>t, <2>8, HonestByParts DEF VerdictTrue, Move, SetPassed
  <2>9. CASE VerdictFalse(h)
    BY <1>t, <2>9, HonestByParts DEF VerdictFalse, Move, SetPassed, Blamed
  <2> QED
    BY <1>2, <1>3, <1>4, <1>t, <2>1, <2>2, <2>3, <2>4, <2>5, <2>6, <2>7, <2>8,
       <2>9 DEF HandlerStep
<1>5. CASE SweepStep
  <2>1. CASE SelectUnanswered
    BY <1>t, <2>1, HonestByParts DEF SelectUnanswered, Select, rows, HonestInv,
       SilentInv
  <2>2. CASE SelectStalled \/ SelectUndelivered
    BY <1>t, <2>2, HonestByParts DEF SelectStalled, SelectUndelivered, Select, rows
  <2>3. ASSUME NEW r \in Results, ExpireChallenge(r) PROVE HonestInv'
    BY <1>t, <2>3, HonestByParts DEF ExpireChallenge, Turn, SetPassed, Blamed,
       HonestInv, LoopInv
  <2>4. ASSUME NEW r \in Results, HealStalled(r) PROVE HonestInv'
    BY <1>t, <2>4, HonestByParts DEF HealStalled, Turn, SetPassed
  <2>5. ASSUME NEW r \in Results, ExpireDelivery(r) PROVE HonestInv'
    BY <1>t, <2>5, HonestByParts DEF ExpireDelivery, Turn, SetResult
  <2>6. CASE StalledResult
    BY <1>t, <2>6, HonestByParts DEF StalledResult, Move, SetResult
  <2>7. CASE StalledChunk \/ UndeliveredChunk
    BY <1>t, <2>7, HonestByParts DEF StalledChunk, UndeliveredChunk, EndTurn
  <2>8. CASE UndeliveredRow \/ Quarantine \/ Reclaim
    BY <1>t, <2>8, HonestByParts DEF UndeliveredRow, Quarantine, Reclaim, Move
  <2> QED
    BY <1>5, <1>2, <1>t, <2>1, <2>2, <2>3, <2>4, <2>5, <2>6, <2>7, <2>8 DEF
       SweepStep
<1>6. ASSUME NEW c \in Chunks, LeaseExpires(c) PROVE HonestInv'
  BY <1>t, <1>6, HonestByParts DEF LeaseExpires, procs, history, notes, marks
<1>7. ASSUME NEW r \in Results, NEW k \in Windows, WindowElapses(r, k) PROVE HonestInv'
  BY <1>t, <1>7, HonestByParts DEF WindowElapses, Waits, rows, procs, Issuing,
     HonestInv, AskedInv
<1>8. ASSUME NEW p \in Procs, ProcessFails(p) PROVE HonestInv'
  BY <1>8
<1>9. CASE UNCHANGED vars
  BY <1>9, HonestByParts DEF vars, rows, procs, history, notes, marks
<1> QED
  BY <1>1, <1>4, <1>5, <1>6, <1>7, <1>8, <1>9 DEF Next, TimePasses

\* Until a failure, the four parts of HonestInv hold.
LEMMA HonestInvariance == Spec => [](failures = 0 => HonestInv)
<1>1. Init => (failures = 0 => HonestInv)
  BY HonestInit
<1>2. TypeInv /\ (failures = 0 => HonestInv) /\ [Next]_vars
        => (failures = 0 => HonestInv)'
  <2> SUFFICES ASSUME TypeInv, failures = 0 => HonestInv, [Next]_vars, failures' = 0
               PROVE  HonestInv'
    OBVIOUS
  <2> QED
    BY FailuresCount, HonestStep
<1> QED
  BY <1>1, <1>2, TypeInvariance, PTL DEF Spec

\* Until the coordinator throws or restarts, a worker whose work is sound
\* loses its bond only for a challenge it was told of and let expire, for any
\* number of requests, duplicates and sweeps at the same time.
THEOREM SoundWorkIsSafe == Spec => []HonestNeverSlashed
<1>1. (failures = 0 => HonestInv) => HonestNeverSlashed
  BY DEF HonestInv, BlameInv, Blamed, HonestNeverSlashed
<1> QED
  BY <1>1, HonestInvariance, PTL
-----------------------------------------------------------------------------
(***************************************************************************)
(* A result, once inserted, stays with its chunk and its worker, and every *)
(* process past the insert works on an inserted one.                       *)
(***************************************************************************)

Filed(r) == result[r].state # "none"

\* The statements a process runs without an inserted row.
Unfiled == Between \cup {"insert"}

FiledInv ==
    /\ \A p \in Procs : pc[p] \notin Unfiled => Filed(rid[p])
    /\ \A r \in Results : credits[r] > 0 \/ challenge[r].passed # "none" => Filed(r)
    /\ \A r \in todo \cup told \cup everPassed : Filed(r)

\* What the update of one column of a row leaves alone.
KeepsRow(r) ==
    /\ result[r].state # "none" => result'[r].state # "none"
    /\ result'[r].chunk = result[r].chunk
    /\ result'[r].worker = result[r].worker
    /\ result'[r].good = result[r].good

\* No statement touches an inserted row but in its state, or a row that a
\* process holds unless the process is gone before the insert.
LEMMA RowsLast ==
  ASSUME TypeInv, [Next]_vars
  PROVE  \A r \in Results : result[r].state # "none" => KeepsRow(r)
<1> SUFFICES ASSUME NEW r \in Results, result[r].state # "none" PROVE KeepsRow(r)
  OBVIOUS
<1>t. /\ result \in [Results -> ResultRows] /\ Handlers \subseteq Procs /\ Sweeper \in Procs
      /\ \A q \in Results : result[q] \in ResultRows
  BY DEF TypeInv, RowsOK, Procs
<1>s. ASSUME NEW q, NEW s \in ResultStates \ {"none"}, SetResult(q, s)
      PROVE  KeepsRow(r)
  BY <1>t, <1>s DEF SetResult, KeepsRow, ResultRows
<1>u. ASSUME UNCHANGED result PROVE KeepsRow(r)
  BY <1>u DEF KeepsRow
<1> USE DEF ResultStates
<1>1. ASSUME NEW h \in Handlers, Request(h) PROVE KeepsRow(r)
  <2>1. CASE \E w \in Workers : StartLease(h, w)
    BY <1>u, <2>1 DEF StartLease, rows
  <2>2. CASE \E c \in Chunks, good \in BOOLEAN : StartSubmit(h, c, good)
    BY <1>t, <2>2 DEF StartSubmit, IsNextResult, KeepsRow
  <2>3. CASE \E q \in Results : StartRespond(h, q) \/ StartDeliver(h, q)
    BY <1>u, <2>3 DEF StartRespond, StartDeliver, rows
  <2> QED
    BY <1>1, <2>1, <2>2, <2>3 DEF Request
<1>2. ASSUME NEW p \in Procs, AcceptStep(p) \/ RejectStep(p) PROVE KeepsRow(r)
  BY <1>2, <1>s, <1>u DEF AcceptStep, PassResult, AwaitOutputs, AcceptChunk,
     CreditEarnings, CountRemaining, CloseJob, RejectStep, FailResult,
     RecordRejection, RepoolAndSlash, rows
<1>3. ASSUME NEW h \in Handlers, HandlerStep(h) PROVE KeepsRow(r)
  BY <1>3, <1>t, <1>2, <1>s, <1>u DEF HandlerStep, LeaseTx, InsertResult, MarkSubmitted,
     DecideChallenge, IssueChallenge, MarkChallenged, MarkVerifying, StampResponse,
     VerdictTrue, VerdictFalse, StoreOutputs, rows
<1>4. CASE SweepStep
  BY <1>4, <1>t, <1>2, <1>s, <1>u DEF SweepStep, SelectUnanswered, ExpireChallenge,
     SelectStalled, HealStalled, StalledResult, StalledChunk, SelectUndelivered,
     ExpireDelivery, UndeliveredRow, UndeliveredChunk, Quarantine, Reclaim, Select, rows
<1>5. CASE TimePasses
  BY <1>5, <1>u DEF TimePasses, LeaseExpires, WindowElapses, rows
<1>6. ASSUME NEW p \in Procs, ProcessFails(p) PROVE KeepsRow(r)
  BY <1>6 DEF ProcessFails, KeepsRow
<1>7. CASE UNCHANGED vars
  BY <1>7, <1>u DEF vars, rows
<1> QED
  BY <1>1, <1>3, <1>4, <1>5, <1>6, <1>7 DEF Next

\* No result is inserted at the start, and no process is at one.
LEMMA FiledInit == Init => FiledInv
  BY DEF Init, FiledInv, Unfiled, Between

\* What a step has to show: whatever comes to rest on a row, it is inserted.
LEMMA FiledByParts ==
  ASSUME TypeInv, FiledInv,
         \A r \in Results : Filed(r) => Filed(r)',
         \A p \in Procs : pc'[p] \notin Unfiled =>
           \/ pc[p] \notin Unfiled /\ rid'[p] = rid[p]
           \/ rid'[p] \in Results /\ Filed(rid'[p]),
         \A r \in Results : credits'[r] > 0 => credits[r] > 0 \/ Filed(r)',
         \A r \in Results : challenge'[r].passed # "none" =>
           challenge[r].passed # "none" \/ Filed(r)',
         \A r \in todo' \cup told' \cup everPassed' :
           r \in todo \cup told \cup everPassed \/ (r \in Results /\ Filed(r)')
  PROVE  FiledInv'
<1>1. \A p \in Procs : pc[p] \notin Unfiled => rid[p] \in Results
  BY DEF TypeInv, ProcsInv, HasRow, Unfiled
<1>2. todo \cup told \cup everPassed \subseteq Results
  BY DEF TypeInv, ProcsInv, ProcsOK, HistoryOK
<1>3. ASSUME NEW p \in Procs, pc'[p] \notin Unfiled PROVE Filed(rid[p])'
  BY <1>1, <1>3 DEF FiledInv, Filed
<1>4. ASSUME NEW r \in Results, credits'[r] > 0 \/ challenge'[r].passed # "none"
      PROVE  Filed(r)'
  BY <1>4 DEF FiledInv
<1>5. ASSUME NEW r \in todo' \cup told' \cup everPassed' PROVE Filed(r)'
  BY <1>2, <1>5 DEF FiledInv
<1> QED
  BY <1>3, <1>4, <1>5 DEF FiledInv

\* Every statement keeps what rests on a row on an inserted one.
LEMMA FiledStep == TypeInv /\ FiledInv /\ [Next]_vars => FiledInv'
<1> SUFFICES ASSUME TypeInv, FiledInv, [Next]_vars PROVE FiledInv'
  OBVIOUS
<1> USE DEF Unfiled, Between, history, notes, marks
<1>t. /\ pc \in [Procs -> Steps] /\ rid \in [Procs -> Results \cup {NoResult}]
      /\ result \in [Results -> ResultRows] /\ challenge \in [Results -> ChallengeRows]
      /\ credits \in [Results -> Nat]
      /\ Sweeper \in Procs /\ Handlers \subseteq Procs
      /\ \A r \in Results : result[r] \in ResultRows /\ challenge[r] \in ChallengeRows
      /\ todo \subseteq Results
  BY DEF TypeInv, ProcsInv, ProcsOK, RowsOK, Procs
<1>l. \A r \in Results : Filed(r) => Filed(r)'
  BY RowsLast DEF Filed, KeepsRow
<1>h. \A p \in Procs : pc[p] \notin Unfiled => rid[p] \in Results /\ Filed(rid[p])
  BY DEF TypeInv, ProcsInv, HasRow, FiledInv
<1>f. ASSUME NEW p \in Procs, pc[p] \notin Unfiled
      PROVE  rid[p] \in Results /\ result'[rid[p]].state # "none"
  BY <1>f, <1>h, <1>l DEF Filed
<1>r. ASSUME NEW p \in Procs, pc[p] = "insert", SetResult(rid[p], "pending")
      PROVE  rid[p] \in Results /\ result'[rid[p]].state # "none"
  BY <1>r, <1>t DEF TypeInv, ProcsInv, HasRow, SetResult, Filed
<1>1. ASSUME NEW h \in Handlers, Request(h) PROVE FiledInv'
  <2>1. ASSUME NEW w \in Workers, StartLease(h, w) PROVE FiledInv'
    BY <1>t, <1>l, <2>1, FiledByParts DEF StartLease, rows
  <2>2. ASSUME NEW c \in Chunks, NEW good \in BOOLEAN, StartSubmit(h, c, good)
        PROVE  FiledInv'
    BY <1>t, <1>l, <2>2, FiledByParts DEF StartSubmit, Begin
  <2>3. ASSUME NEW r \in Results, StartRespond(h, r) \/ StartDeliver(h, r) PROVE FiledInv'
    <3>1. Filed(r)
      BY <2>3 DEF StartRespond, StartDeliver, FiledInv
    <3> QED
      BY <1>t, <1>l, <2>3, <3>1, FiledByParts DEF StartRespond, StartDeliver, Begin, rows
  <2> QED
    BY <1>1, <2>1, <2>2, <2>3 DEF Request
<1>2. ASSUME NEW p \in Procs, RejectStep(p) PROVE FiledInv'
  <2>1. CASE FailResult(p) \/ RecordRejection(p)
    BY <1>t, <1>l, <2>1, FiledByParts DEF FailResult, RecordRejection, Move
  <2>2. CASE RepoolAndSlash(p)
    BY <1>t, <1>l, <2>2, FiledByParts DEF RepoolAndSlash, Finish
  <2> QED
    BY <1>2, <2>1, <2>2 DEF RejectStep
<1>3. ASSUME NEW p \in Procs, AcceptStep(p) PROVE FiledInv'
  <2>1. CASE PassResult(p)
    <3>1. rid[p] \in Results /\ result'[rid[p]].state # "none"
      BY <1>f, <2>1 DEF PassResult, Move
    <3> QED
      BY <1>t, <1>l, <2>1, <3>1, FiledByParts DEF Filed, PassResult, Move
  <2>2. CASE AwaitOutputs(p)
    <3>1. rid[p] \in Results /\ result'[rid[p]].state # "none"
      BY <1>f, <2>2 DEF AwaitOutputs, Finish
    <3> QED
      BY <1>t, <1>l, <2>2, <3>1, FiledByParts DEF Filed, AwaitOutputs, Finish
  <2>3. CASE AcceptChunk(p)
    BY <1>t, <1>l, <2>3, FiledByParts DEF AcceptChunk, Move
  <2>4. CASE CreditEarnings(p)
    <3>1. rid[p] \in Results /\ result'[rid[p]].state # "none"
      BY <1>f, <2>4 DEF CreditEarnings, Move
    <3> QED
      BY <1>t, <1>l, <2>4, <3>1, FiledByParts DEF Filed, CreditEarnings, Move
  <2>5. CASE CountRemaining(p) \/ CloseJob(p)
    BY <1>t, <1>l, <2>5, FiledByParts DEF CountRemaining, CloseJob, Move, Finish, rows
  <2> QED
    BY <1>3, <2>1, <2>2, <2>3, <2>4, <2>5 DEF AcceptStep
<1>4. ASSUME NEW h \in Handlers, HandlerStep(h) PROVE FiledInv'
  <2>1. CASE LeaseTx(h) \/ DecideChallenge(h) \/ StoreOutputs(h)
    BY <1>t, <1>l, <2>1, FiledByParts DEF LeaseTx, DecideChallenge, StoreOutputs, Move,
       rows
  <2>2. CASE InsertResult(h)
    <3>1. rid[h] \in Results /\ result'[rid[h]].state # "none"
      BY <1>t, <1>r, <2>2 DEF InsertResult, Move
    <3>2. pc'[h] = "markSubmitted" /\ rid'[h] = rid[h]
      BY <1>t, <2>2 DEF InsertResult, Move
    <3>3. ASSUME NEW p \in Procs, pc'[p] \notin Unfiled PROVE Filed(rid[p])'
      BY <1>t, <1>f, <2>2, <3>1, <3>3 DEF InsertResult, Move, Filed
    <3> QED
      BY <1>t, <1>l, <2>2, <3>3 DEF InsertResult, Move, FiledInv, Filed, TypeInv, HistoryOK
  <2>3. CASE MarkSubmitted(h) \/ MarkChallenged(h)
    BY <1>t, <1>l, <2>3, FiledByParts DEF MarkSubmitted, MarkChallenged, Move
  <2>4. CASE IssueChallenge(h) \/ VerdictTrue(h) \/ VerdictFalse(h)
    <3>1. rid[h] \in Results /\ result'[rid[h]].state # "none"
      BY <1>t, <1>f, <2>4 DEF IssueChallenge, VerdictTrue, VerdictFalse, Move
    <3> QED
      BY <1>t, <1>l, <2>4, <3>1, FiledByParts DEF Filed, IssueChallenge, VerdictTrue,
         VerdictFalse, Move, SetPassed
  <2>5. CASE StampResponse(h)
    BY <1>t, <1>l, <2>5, FiledByParts DEF StampResponse, Move
  <2>6. CASE MarkVerifying(h)
    <3>1. rid[h] \in Results /\ result'[rid[h]].state # "none"
      BY <1>t, <1>f, <2>6 DEF MarkVerifying, Finish
    <3> QED
      BY <1>t, <1>l, <2>6, <3>1, FiledByParts DEF Filed, MarkVerifying, Finish
  <2> QED
    BY <1>t, <1>2, <1>3, <1>4, <2>1, <2>2, <2>3, <2>4, <2>5, <2>6 DEF HandlerStep
<1>5. CASE SweepStep
  <2>1. CASE SelectUnanswered \/ SelectStalled \/ SelectUndelivered
    <3>1. \A r \in todo' : Filed(r)
      BY <2>1 DEF SelectUnanswered, SelectStalled, SelectUndelivered, Select, FiledInv,
         Filed, TypeInv, HistoryOK, Windows
    <3>2. todo' \subseteq Results
      BY <2>1 DEF SelectUnanswered, SelectStalled, SelectUndelivered, Select,
         TypeInv, HistoryOK, Windows
    <3> QED
      BY <1>t, <1>l, <2>1, <3>1, <3>2, FiledByParts DEF SelectUnanswered, SelectStalled,
         SelectUndelivered, Select, rows
  <2>2. ASSUME NEW r \in Results, ExpireChallenge(r) \/ HealStalled(r) \/ ExpireDelivery(r)
        PROVE  FiledInv'
    <3>1. Filed(r) /\ Filed(r)'
      BY <1>l, <2>2 DEF ExpireChallenge, HealStalled, ExpireDelivery, Turn, FiledInv
    <3> QED
      BY <1>t, <1>l, <2>2, <3>1, FiledByParts DEF ExpireChallenge, HealStalled,
         ExpireDelivery, Turn, SetPassed
  <2>3. CASE StalledResult \/ UndeliveredRow
    BY <1>t, <1>l, <2>3, FiledByParts DEF StalledResult, UndeliveredRow, Move
  <2>4. CASE StalledChunk \/ UndeliveredChunk
    BY <1>t, <1>l, <2>4, FiledByParts DEF StalledChunk, UndeliveredChunk, EndTurn
  <2>5. CASE Quarantine \/ Reclaim
    BY <1>t, <1>l, <2>5, FiledByParts DEF Quarantine, Reclaim, Move
  <2> QED
    BY <1>t, <1>5, <1>2, <2>1, <2>2, <2>3, <2>4, <2>5 DEF SweepStep
<1>6. CASE TimePasses
  BY <1>l, <1>6, FiledByParts DEF TimePasses, LeaseExpires, WindowElapses, rows, procs
<1>7. ASSUME NEW p \in Procs, ProcessFails(p) PROVE FiledInv'
  BY <1>t, <1>l, <1>7, FiledByParts DEF ProcessFails
<1>8. CASE UNCHANGED vars
  BY <1>l, <1>8, FiledByParts DEF vars, rows, procs
<1> QED
  BY <1>1, <1>4, <1>5, <1>6, <1>7, <1>8 DEF Next

\* Whatever rests on a row, the row is there.
LEMMA FiledInvariance == Spec => []FiledInv
  BY TypeInvariance, FiledInit, FiledStep, PTL DEF Spec
-----------------------------------------------------------------------------
(***************************************************************************)
(* Until a failure, what is accepted is paid.                              *)
(***************************************************************************)

\* What a step has to show: it accepts a chunk only on the way to the credit,
\* and leaves that way only by the credit.
LEMMA PaidByParts ==
  ASSUME TypeInv, FiledInv, AcceptedIsPaid, [Next]_vars, failures = 0,
         \A c \in Chunks : chunk'[c].state = "accepted" =>
           \/ chunk[c].state = "accepted"
           \/ \E p \in Procs : pc[p] = "accept" /\ pc'[p] = "credit" /\ ChunkOf(p) = c,
         \A p \in Procs : pc[p] \in Paying /\ pc'[p] = "credit" => rid'[p] = rid[p],
         \A p \in Procs : pc[p] = "credit" => pc'[p] = "credit" \/ credits'[rid[p]] > 0,
         \A r \in Results : credits[r] > 0 => credits'[r] > 0
  PROVE  AcceptedIsPaid'
<1>1. \A r \in Results : Filed(r) => result'[r].chunk = result[r].chunk
  BY RowsLast DEF Filed, KeepsRow
<1>2. ASSUME NEW p \in Procs, pc[p] \in Paying
      PROVE  rid[p] \in Results /\ result'[rid[p]].chunk = ChunkOf(p)
  <2>1. rid[p] \in Results /\ Filed(rid[p])
    BY <1>2 DEF TypeInv, ProcsInv, HasRow, FiledInv, Unfiled, Between, Paying
  <2> QED
    BY <1>1, <2>1 DEF ChunkOf
<1>3. ASSUME NEW c \in Chunks, chunk'[c].state = "accepted"
      PROVE  \/ \E r \in Results : result'[r].chunk = c /\ credits'[r] > 0
             \/ \E p \in Procs : pc'[p] = "credit" /\ ChunkOf(p)' = c
  <2>1. CASE \E p \in Procs : pc[p] = "accept" /\ pc'[p] = "credit" /\ ChunkOf(p) = c
    BY <1>2, <2>1 DEF Paying, ChunkOf
  <2>2. ASSUME NEW r \in Results, result[r].chunk = c, credits[r] > 0
        PROVE  result'[r].chunk = c /\ credits'[r] > 0
    BY <1>1, <2>2 DEF FiledInv
  <2>3. ASSUME NEW p \in Procs, pc[p] = "credit", ChunkOf(p) = c
        PROVE  \/ rid[p] \in Results /\ result'[rid[p]].chunk = c /\ credits'[rid[p]] > 0
               \/ pc'[p] = "credit" /\ ChunkOf(p)' = c
    BY <1>2, <2>3 DEF Paying, ChunkOf
  <2> QED
    BY <1>3, <2>1, <2>2, <2>3 DEF AcceptedIsPaid
<1> QED
  BY <1>3 DEF AcceptedIsPaid

\* Until a failure, every step keeps what is accepted paid or about to be.
LEMMA PaidStep ==
  ASSUME TypeInv, FiledInv, AcceptedIsPaid, [Next]_vars, failures = 0,
         \A p \in Procs : ~ProcessFails(p)
  PROVE  AcceptedIsPaid'
<1> USE DEF Paying
<1>t. /\ pc \in [Procs -> Steps] /\ rid \in [Procs -> Results \cup {NoResult}]
      /\ chunk \in [Chunks -> ChunkRows] /\ credits \in [Results -> Nat]
      /\ Sweeper \in Procs /\ Handlers \subseteq Procs
      /\ \A r \in Results : credits[r] \in Nat
      /\ \A c \in Chunks : chunk[c] \in ChunkRows
  BY DEF TypeInv, ProcsInv, ProcsOK, RowsOK, Procs
<1>s. ASSUME NEW c \in Chunks, NEW s, s # "accepted", SetChunk(c, s)
      PROVE  \A d \in Chunks : chunk'[d].state = "accepted" => chunk[d].state = "accepted"
  BY <1>t, <1>s DEF SetChunk, ChunkRows
<1>p. ASSUME NEW c \in Chunks, NEW n, chunk' = [chunk EXCEPT ![c] = Pooled(c, n)]
      PROVE  \A d \in Chunks : chunk'[d].state = "accepted" => chunk[d].state = "accepted"
  BY <1>t, <1>p DEF Pooled
<1>h. \A p \in Procs : pc[p] \notin Between => ChunkOf(p) \in Chunks
  BY RowHeld DEF TypeInv
<1> USE DEF Between
<1>1. ASSUME NEW h \in Handlers, Request(h) PROVE AcceptedIsPaid'
  BY <1>t, <1>1, PaidByParts DEF Request, StartLease, StartSubmit, StartRespond,
     StartDeliver, Begin, rows
<1>2. ASSUME NEW p \in Procs, RejectStep(p) PROVE AcceptedIsPaid'
  <2>1. CASE FailResult(p) \/ RecordRejection(p)
    BY <1>t, <2>1, PaidByParts DEF FailResult, RecordRejection, Move
  <2>2. CASE RepoolAndSlash(p)
    <3>1. \A d \in Chunks : chunk'[d].state = "accepted" => chunk[d].state = "accepted"
      BY <1>p, <1>h, <2>2 DEF RepoolAndSlash, Finish
    <3> QED
      BY <1>t, <2>2, <3>1, PaidByParts DEF RepoolAndSlash, Finish
  <2> QED
    BY <1>2, <2>1, <2>2 DEF RejectStep
<1>3. ASSUME NEW p \in Procs, AcceptStep(p) PROVE AcceptedIsPaid'
  <2>1. CASE PassResult(p)
    BY <1>t, <2>1, PaidByParts DEF PassResult, Move
  <2>2. CASE AwaitOutputs(p)
    <3>1. \A d \in Chunks : chunk'[d].state = "accepted" => chunk[d].state = "accepted"
      BY <1>s, <1>h, <2>2 DEF AwaitOutputs, Finish
    <3> QED
      BY <1>t, <2>2, <3>1, PaidByParts DEF AwaitOutputs, Finish
  <2>3. CASE AcceptChunk(p)
    <3>1. \A d \in Chunks : chunk'[d].state = "accepted" =>
            chunk[d].state = "accepted" \/ d = ChunkOf(p)
      BY <1>t, <2>3 DEF AcceptChunk, SetChunk
    <3>2. pc[p] = "accept" /\ pc'[p] = "credit"
      BY <1>t, <2>3 DEF AcceptChunk, Move
    <3> QED
      BY <1>t, <2>3, <3>1, <3>2, PaidByParts DEF AcceptChunk, Move
  <2>4. CASE CreditEarnings(p)
    <3>1. rid[p] \in Results
      BY <2>4, RowHeld DEF TypeInv, CreditEarnings, Move
    <3>2. \A r \in Results : credits'[r] >= credits[r]
      BY <1>t, <2>4 DEF CreditEarnings
    <3>3. credits'[rid[p]] > 0
      <4>1. credits'[rid[p]] = credits[rid[p]] + 1 /\ credits[rid[p]] \in Nat
        BY <1>t, <2>4, <3>1 DEF CreditEarnings
      <4> QED
        BY <4>1
    <3>4. \A r \in Results : credits[r] > 0 => credits'[r] > 0
      <4> TAKE r \in Results
      <4>1. credits[r] \in Nat /\ credits'[r] \in Nat /\ credits'[r] >= credits[r]
        BY <1>t, <2>4, <3>2 DEF CreditEarnings
      <4> QED
        BY <4>1
    <3> QED
      BY <1>t, <2>4, <3>3, <3>4, PaidByParts DEF CreditEarnings, Move
  <2>5. CASE CountRemaining(p) \/ CloseJob(p)
    BY <1>t, <2>5, PaidByParts DEF CountRemaining, CloseJob, Move, Finish, rows
  <2> QED
    BY <1>3, <2>1, <2>2, <2>3, <2>4, <2>5 DEF AcceptStep
<1>4. ASSUME NEW h \in Handlers, HandlerStep(h) PROVE AcceptedIsPaid'
  <2>1. CASE LeaseTx(h)
    <3>1. \A d \in Chunks : chunk'[d].state = "accepted" => chunk[d].state = "accepted"
      <4>1. CASE UNCHANGED chunk
        BY <4>1
      <4>2. ASSUME NEW c \in Chunks,
                   chunk' = [chunk EXCEPT ![c] =
                              [state |-> "leased", holder |-> who[h], live |-> TRUE,
                               attempts |-> @.attempts]]
            PROVE  \A d \in Chunks : chunk'[d].state = "accepted" =>
                                      chunk[d].state = "accepted"
        BY <1>t, <4>2
      <4> QED
        BY <2>1, <4>1, <4>2 DEF LeaseTx, Pending
    <3>2. \A q \in Procs : pc[q] \in Paying => pc'[q] = pc[q] /\ rid' = rid
      BY <1>t, <2>1 DEF LeaseTx
    <3>3. \A q \in Procs : pc'[q] = "credit" => pc[q] = "credit"
      BY <1>t, <2>1 DEF LeaseTx
    <3> QED
      BY <1>t, <2>1, <3>1, <3>2, <3>3, PaidByParts DEF LeaseTx
  <2>2. CASE InsertResult(h) \/ DecideChallenge(h) \/ IssueChallenge(h) \/ MarkChallenged(h)
    BY <1>t, <2>2, PaidByParts DEF InsertResult, DecideChallenge, IssueChallenge,
       MarkChallenged, Move, rows
  <2>3. CASE MarkSubmitted(h)
    <3>1. \A d \in Chunks : chunk'[d].state = "accepted" => chunk[d].state = "accepted"
      BY <1>t, <1>s, <1>h, <2>3 DEF MarkSubmitted, Move
    <3> QED
      BY <1>t, <2>3, <3>1, PaidByParts DEF MarkSubmitted, Move
  <2>4. CASE MarkVerifying(h)
    <3>1. \A d \in Chunks : chunk'[d].state = "accepted" => chunk[d].state = "accepted"
      BY <1>t, <1>s, <1>h, <2>4 DEF MarkVerifying, Finish
    <3> QED
      BY <1>t, <2>4, <3>1, PaidByParts DEF MarkVerifying, Finish
  <2>5. CASE StampResponse(h) \/ VerdictTrue(h) \/ VerdictFalse(h) \/ StoreOutputs(h)
    BY <1>t, <2>5, PaidByParts DEF StampResponse, VerdictTrue, VerdictFalse,
       StoreOutputs, Move
  <2> QED
    BY <1>t, <1>2, <1>3, <1>4, <2>1, <2>2, <2>3, <2>4, <2>5 DEF HandlerStep
<1>5. CASE SweepStep
  <2>1. CASE SelectUnanswered \/ SelectStalled \/ SelectUndelivered
    BY <1>t, <2>1, PaidByParts DEF SelectUnanswered, SelectStalled, SelectUndelivered,
       Select, rows
  <2>2. ASSUME NEW r \in Results, ExpireChallenge(r) \/ HealStalled(r) \/ ExpireDelivery(r)
        PROVE  AcceptedIsPaid'
    BY <1>t, <2>2, PaidByParts DEF ExpireChallenge, HealStalled, ExpireDelivery, Turn
  <2>3. CASE StalledResult \/ UndeliveredRow
    BY <1>t, <2>3, PaidByParts DEF StalledResult, UndeliveredRow, Move
  <2>4. CASE StalledChunk \/ UndeliveredChunk
    <3>1. \A d \in Chunks : chunk'[d].state = "accepted" => chunk[d].state = "accepted"
      BY <1>t, <1>p, <1>h, <2>4 DEF StalledChunk, UndeliveredChunk, EndTurn
    <3> QED
      BY <1>t, <2>4, <3>1, PaidByParts DEF StalledChunk, UndeliveredChunk, EndTurn
  <2>5. CASE Quarantine \/ Reclaim
    <3>1. \A d \in Chunks : chunk'[d].state = "accepted" => chunk[d].state = "accepted"
      <4> TAKE d \in Chunks
      <4>1. CASE Quarantine
        <5>1. \/ chunk'[d] = [chunk[d] EXCEPT !.state = "quarantined", !.holder = NoWorker]
              \/ chunk'[d] = chunk[d]
          BY <4>1 DEF Quarantine
        <5> QED
          BY <1>t, <5>1 DEF ChunkRows
      <4>2. CASE Reclaim
        BY <4>2 DEF Reclaim, Pooled
      <4> QED
        BY <2>5, <4>1, <4>2
    <3> QED
      BY <1>t, <2>5, <3>1, PaidByParts DEF Quarantine, Reclaim, Move
  <2> QED
    BY <1>t, <1>5, <1>2, <2>1, <2>2, <2>3, <2>4, <2>5 DEF SweepStep
<1>6. CASE TimePasses
  <2>1. ASSUME NEW c \in Chunks, LeaseExpires(c) PROVE AcceptedIsPaid'
    <3>1. \A d \in Chunks : chunk'[d].state = "accepted" => chunk[d].state = "accepted"
      BY <1>t, <2>1 DEF LeaseExpires, ChunkRows
    <3> QED
      BY <1>t, <2>1, <3>1, PaidByParts DEF LeaseExpires, procs
  <2>2. ASSUME NEW r \in Results, NEW k \in Windows, WindowElapses(r, k)
        PROVE  AcceptedIsPaid'
    BY <1>t, <2>2, PaidByParts DEF WindowElapses, rows, procs
  <2> QED
    BY <1>6, <2>1, <2>2 DEF TimePasses
<1>7. CASE UNCHANGED vars
  BY <1>7, PaidByParts DEF vars, rows, procs
<1> QED
  BY <1>1, <1>4, <1>5, <1>6, <1>7 DEF Next

\* Until the coordinator throws or restarts, no accepted chunk goes without its
\* credit, whatever requests, duplicates and sweeps overlap: the process that
\* accepted it is the one that pays.
THEOREM AcceptedWorkIsPaid == Spec => []AcceptedIsPaid
<1>1. Init => AcceptedIsPaid
  BY DEF Init, AcceptedIsPaid
<1>2. TypeInv /\ FiledInv /\ AcceptedIsPaid /\ [Next]_vars => AcceptedIsPaid'
  <2> SUFFICES ASSUME TypeInv, FiledInv, AcceptedIsPaid, [Next]_vars, failures' = 0
               PROVE  AcceptedIsPaid'
    BY DEF AcceptedIsPaid
  <2> QED
    BY FailuresCount, PaidStep
<1> QED
  BY <1>1, <1>2, TypeInvariance, FiledInvariance, PTL DEF Spec
-----------------------------------------------------------------------------
(***************************************************************************)
(* Nobody is paid unaudited before TrustAfter of its results have passed.  *)
(*                                                                         *)
(* The count is read when the challenge is decided and relied on until the *)
(* credit.  AuditInv carries it from the one to the other: what has passed *)
(* keeps counting, and results keep their workers.                         *)
(***************************************************************************)

\* The other results of the worker that have passed.
Peers(r) == {q \in everPassed \ {r} : result[q].worker = result[r].worker}

Audited(r) == challenge[r].passed = "none" => Cardinality(Peers(r)) >= TrustAfter

\* The statements past the decision not to ask, or past the challenge.
Backing == {"markChallenged", "markVerifying", "pass", "awaitOutputs", "accept",
            "credit", "store"}

AuditInv ==
    /\ IsFiniteSet(everPassed)
    /\ \A r \in Results : result[r].state = "passed" => r \in everPassed
    /\ \A r \in Results : credits[r] > 0 \/ r \in told => Audited(r)
    /\ \A p \in Procs : pc[p] \in Backing => Audited(rid[p])

\* Nothing has passed at the start.
LEMMA AuditInit == Init => AuditInv
<1> SUFFICES ASSUME Init PROVE AuditInv
  OBVIOUS
<1>1. IsFiniteSet(everPassed)
  BY FS_EmptySet DEF Init
<1> QED
  BY <1>1 DEF Init, AuditInv, Backing, FreeRow

\* An inserted result that is audited stays so: its worker's passed results
\* only become more, and a challenge is never taken back.
LEMMA AuditedLasts ==
  ASSUME TypeInv, FiledInv, [Next]_vars,
         IsFiniteSet(everPassed'), everPassed \subseteq everPassed',
         NEW r \in Results, Filed(r), Audited(r),
         challenge[r].passed # "none" => challenge'[r].passed # "none"
  PROVE  Audited(r)'
<1> SUFFICES ASSUME challenge[r].passed = "none"
             PROVE  Cardinality(Peers(r))' >= TrustAfter
  BY DEF Audited
<1>1. Cardinality(Peers(r)) >= TrustAfter
  BY DEF Audited
<1>2. \A q \in everPassed \cup {r} : result'[q].worker = result[q].worker
  BY RowsLast DEF FiledInv, Filed, KeepsRow, TypeInv, HistoryOK
<1>3. Peers(r) \subseteq Peers(r)'
  BY <1>2 DEF Peers
<1>4. IsFiniteSet(Peers(r)')
  <2>1. Peers(r)' \subseteq everPassed'
    BY DEF Peers
  <2> QED
    BY <2>1, FS_Subset
<1>5. /\ IsFiniteSet(Peers(r)) /\ Cardinality(Peers(r)) <= Cardinality(Peers(r)')
  BY <1>3, <1>4, FS_Subset
<1>6. Cardinality(Peers(r)) \in Nat /\ Cardinality(Peers(r)') \in Nat /\ TrustAfter \in Nat
  BY <1>4, <1>5, FS_CardinalityType
<1> QED
  BY <1>1, <1>5, <1>6

\* What a step has to show: whom it trusts, and where that trust comes from.
LEMMA AuditByParts ==
  ASSUME TypeInv, FiledInv, AuditInv, [Next]_vars,
         IsFiniteSet(everPassed'), everPassed \subseteq everPassed',
         \A r \in Results : challenge[r].passed # "none" => challenge'[r].passed # "none",
         \A r \in Results : result'[r].state = "passed" =>
           result[r].state = "passed" \/ r \in everPassed',
         \A r \in Results : credits'[r] > 0 =>
           credits[r] > 0 \/ \E p \in Procs : pc[p] \in Backing /\ rid[p] = r,
         \A r \in told' :
           r \in told \/ \E p \in Procs : pc[p] \in Backing /\ rid[p] = r,
         \A p \in Procs : pc'[p] \in Backing =>
           \/ pc[p] \in Backing /\ rid'[p] = rid[p]
           \/ rid'[p] \in told
           \/ challenge'[rid'[p]].passed # "none"
           \/ rid'[p] = rid[p] /\ pc[p] \notin Unfiled /\ Audited(rid[p])
  PROVE  AuditInv'
<1>1. \A r \in Results : Filed(r) /\ Audited(r) => Audited(r)'
  BY AuditedLasts
<1>2. \A p \in Procs : pc[p] \notin Unfiled => rid[p] \in Results /\ Filed(rid[p])
  BY DEF TypeInv, ProcsInv, HasRow, FiledInv, Unfiled
<1>3. ASSUME NEW p \in Procs, pc[p] \in Backing
      PROVE  rid[p] \in Results /\ Filed(rid[p]) /\ Audited(rid[p])
  BY <1>2, <1>3 DEF Backing, AuditInv, Unfiled, Between
<1>4. ASSUME NEW r \in Results, credits'[r] > 0 \/ r \in told' PROVE Audited(r)'
  <2>1. Filed(r) /\ Audited(r)
    BY <1>3, <1>4 DEF AuditInv, FiledInv
  <2> QED
    BY <1>1, <2>1
<1>5. ASSUME NEW p \in Procs, pc'[p] \in Backing PROVE Audited(rid[p])'
  <2>1. CASE challenge'[rid'[p]].passed # "none"
    BY <2>1 DEF Audited
  <2>2. CASE rid'[p] \in told
    <3>1. rid'[p] \in Results /\ Filed(rid'[p]) /\ Audited(rid'[p])
      BY <2>2 DEF TypeInv, HistoryOK, FiledInv, AuditInv
    <3>2. \A r \in Results : Filed(r) /\ Audited(r) /\ r = rid'[p] => Audited(rid[p])'
      BY <1>1 DEF Audited, Peers
    <3> QED
      BY <3>1, <3>2
  <2>3. CASE rid'[p] = rid[p] /\ pc[p] \notin Unfiled /\ Audited(rid[p])
    <3>1. rid[p] \in Results /\ Filed(rid[p])
      BY <1>2, <2>3
    <3>2. \A r \in Results : Filed(r) /\ Audited(r) /\ r = rid'[p] => Audited(rid[p])'
      BY <1>1 DEF Audited, Peers
    <3> QED
      BY <2>3, <3>1, <3>2
  <2>4. CASE pc[p] \in Backing /\ rid'[p] = rid[p]
    BY <1>3, <2>3, <2>4 DEF Backing, Unfiled, Between
  <2> QED
    BY <1>5, <2>1, <2>2, <2>3, <2>4
<1> QED
  BY <1>4, <1>5 DEF AuditInv

\* Every statement keeps the count behind those who are trusted.
LEMMA AuditStep == TypeInv /\ FiledInv /\ AuditInv /\ [Next]_vars => AuditInv'
<1> SUFFICES ASSUME TypeInv, FiledInv, AuditInv, [Next]_vars PROVE AuditInv'
  OBVIOUS
<1> USE DEF Backing, history, notes, marks
<1>t. /\ pc \in [Procs -> Steps] /\ rid \in [Procs -> Results \cup {NoResult}]
      /\ result \in [Results -> ResultRows] /\ challenge \in [Results -> ChallengeRows]
      /\ credits \in [Results -> Nat]
      /\ Sweeper \in Procs /\ Handlers \subseteq Procs
      /\ \A r \in Results : result[r] \in ResultRows /\ challenge[r] \in ChallengeRows
  BY DEF TypeInv, ProcsInv, ProcsOK, RowsOK, Procs
<1>e. IsFiniteSet(everPassed) /\ (UNCHANGED everPassed => IsFiniteSet(everPassed'))
  BY DEF AuditInv
<1>s. ASSUME NEW q, NEW s, s # "passed", SetResult(q, s)
      PROVE  \A r \in Results : result'[r].state = "passed" => result[r].state = "passed"
  BY <1>t, <1>s DEF SetResult, ResultRows
<1>v. ASSUME NEW q, NEW v, v # "none", SetPassed(q, v)
      PROVE  \A r \in Results : challenge[r].passed # "none" => challenge'[r].passed # "none"
  BY <1>t, <1>v DEF SetPassed, ChallengeRows
<1>w. ASSUME NEW q \in Results, NEW v, v # "none", SetPassed(q, v)
      PROVE  challenge'[q].passed # "none"
  BY <1>t, <1>w DEF SetPassed, ChallengeRows
<1>h. \A p \in Procs : pc[p] \notin Between => rid[p] \in Results
  BY RowHeld DEF TypeInv
<1>1. ASSUME NEW h \in Handlers, Request(h) PROVE AuditInv'
  <2>1. ASSUME NEW w \in Workers, StartLease(h, w) PROVE AuditInv'
    BY <1>t, <1>e, <2>1, AuditByParts DEF StartLease, rows
  <2>2. ASSUME NEW c \in Chunks, NEW good \in BOOLEAN, StartSubmit(h, c, good)
        PROVE  AuditInv'
    <3>1. \A r \in Results : result'[r].state = "passed" => result[r].state = "passed"
      BY <1>t, <2>2 DEF StartSubmit
    <3> QED
      BY <1>t, <1>e, <2>2, <3>1, AuditByParts DEF StartSubmit, Begin
  <2>3. ASSUME NEW r \in Results, StartRespond(h, r) \/ StartDeliver(h, r) PROVE AuditInv'
    BY <1>t, <1>e, <2>3, AuditByParts DEF StartRespond, StartDeliver, Begin, rows
  <2> QED
    BY <1>1, <2>1, <2>2, <2>3 DEF Request
<1>2. ASSUME NEW p \in Procs, RejectStep(p) PROVE AuditInv'
  <2>1. CASE FailResult(p)
    BY <1>t, <1>e, <1>s, <2>1, AuditByParts DEF FailResult, Move
  <2>2. CASE RecordRejection(p)
    BY <1>t, <1>e, <2>2, AuditByParts DEF RecordRejection, Move
  <2>3. CASE RepoolAndSlash(p)
    BY <1>t, <1>e, <2>3, AuditByParts DEF RepoolAndSlash, Finish
  <2> QED
    BY <1>2, <2>1, <2>2, <2>3 DEF RejectStep
<1>3. ASSUME NEW p \in Procs, AcceptStep(p) PROVE AuditInv'
  <2>1. CASE PassResult(p)
    <3>1. IsFiniteSet(everPassed') /\ everPassed \subseteq everPassed'
      BY <1>e, <2>1, FS_AddElement DEF PassResult
    <3>2. \A r \in Results : result'[r].state = "passed" =>
            result[r].state = "passed" \/ r \in everPassed'
      BY <1>t, <2>1 DEF PassResult, SetResult
    <3> QED
      BY <1>t, <2>1, <3>1, <3>2, AuditByParts DEF PassResult, Move
  <2>2. CASE AwaitOutputs(p)
    BY <1>t, <1>e, <2>2, AuditByParts DEF AwaitOutputs, Finish
  <2>3. CASE AcceptChunk(p)
    BY <1>t, <1>e, <2>3, AuditByParts DEF AcceptChunk, Move
  <2>4. CASE CreditEarnings(p)
    <3>1. \A r \in Results : credits'[r] > 0 => credits[r] > 0 \/ rid[p] = r
      BY <1>t, <2>4 DEF CreditEarnings
    <3> QED
      BY <1>t, <1>e, <2>4, <3>1, AuditByParts DEF CreditEarnings, Move
  <2>5. CASE CountRemaining(p) \/ CloseJob(p)
    BY <1>t, <1>e, <2>5, AuditByParts DEF CountRemaining, CloseJob, Move, Finish, rows
  <2> QED
    BY <1>3, <2>1, <2>2, <2>3, <2>4, <2>5 DEF AcceptStep
<1>4. ASSUME NEW h \in Handlers, HandlerStep(h) PROVE AuditInv'
  <2>1. CASE LeaseTx(h)
    BY <1>t, <1>e, <2>1, AuditByParts DEF LeaseTx
  <2>2. CASE InsertResult(h) \/ MarkChallenged(h)
    <3>1. \A r \in Results : result'[r].state = "passed" => result[r].state = "passed"
      BY <1>s, <2>2 DEF InsertResult, MarkChallenged
    <3> QED
      BY <1>t, <1>e, <2>2, <3>1, AuditByParts DEF InsertResult, MarkChallenged, Move
  <2>3. CASE MarkSubmitted(h)
    BY <1>t, <1>e, <2>3, AuditByParts DEF MarkSubmitted, Move
  <2>4. CASE DecideChallenge(h)
    <3>1. pc[h] = "decide" /\ rid' = rid /\ rid[h] \in Results
      BY <1>t, <1>h, <2>4 DEF DecideChallenge, Move, Between
    <3>2. ASSUME Cardinality(PassedBefore(rid[h])) >= TrustAfter
          PROVE  Audited(rid[h])
      <4>1. PassedBefore(rid[h]) \subseteq Peers(rid[h])
        BY DEF PassedBefore, Peers, AuditInv
      <4>2. IsFiniteSet(Peers(rid[h]))
        <5>1. Peers(rid[h]) \subseteq everPassed
          BY DEF Peers
        <5> QED
          BY <1>e, <5>1, FS_Subset
      <4>3. /\ IsFiniteSet(PassedBefore(rid[h]))
            /\ Cardinality(PassedBefore(rid[h])) <= Cardinality(Peers(rid[h]))
        BY <4>1, <4>2, FS_Subset
      <4>4. Cardinality(PassedBefore(rid[h])) \in Nat /\ Cardinality(Peers(rid[h])) \in Nat
        BY <4>2, <4>3, FS_CardinalityType
      <4> QED
        BY <3>2, <4>3, <4>4 DEF Audited
    <3>3. pc'[h] \in Backing => Audited(rid[h])
      BY <1>t, <2>4, <3>2 DEF DecideChallenge, Move
    <3>4. pc[h] \notin Unfiled
      BY <3>1 DEF Unfiled, Between
    <3> QED
      BY <1>t, <1>e, <2>4, <3>1, <3>3, <3>4, AuditByParts DEF DecideChallenge, Move, rows
  <2>5. CASE IssueChallenge(h) \/ VerdictTrue(h) \/ VerdictFalse(h)
    <3>1. rid[h] \in Results
      BY <1>t, <1>h, <2>5 DEF IssueChallenge, VerdictTrue, VerdictFalse, Move, Between
    <3>2. /\ \A r \in Results : challenge[r].passed # "none" => challenge'[r].passed # "none"
          /\ challenge'[rid[h]].passed # "none"
      BY <1>v, <1>w, <2>5, <3>1 DEF IssueChallenge, VerdictTrue, VerdictFalse
    <3> QED
      BY <1>t, <1>e, <2>5, <3>2, AuditByParts DEF IssueChallenge, VerdictTrue,
         VerdictFalse, Move
  <2>6. CASE MarkVerifying(h)
    BY <1>t, <1>e, <2>6, AuditByParts DEF MarkVerifying, Finish
  <2>7. CASE StampResponse(h)
    <3>1. \A r \in Results : challenge'[r].passed = challenge[r].passed
      BY <1>t, <2>7 DEF StampResponse, ChallengeRows
    <3> QED
      BY <1>t, <1>e, <2>7, <3>1, AuditByParts DEF StampResponse, Move
  <2>8. CASE StoreOutputs(h)
    BY <1>t, <1>e, <2>8, AuditByParts DEF StoreOutputs, Move
  <2> QED
    BY <1>t, <1>2, <1>3, <1>4, <2>1, <2>2, <2>3, <2>4, <2>5, <2>6, <2>7, <2>8
       DEF HandlerStep
<1>5. CASE SweepStep
  <2>1. CASE SelectUnanswered \/ SelectStalled \/ SelectUndelivered
    BY <1>t, <1>e, <2>1, AuditByParts DEF SelectUnanswered, SelectStalled,
       SelectUndelivered, Select, rows
  <2>2. ASSUME NEW r \in Results, ExpireChallenge(r) \/ HealStalled(r) PROVE AuditInv'
    BY <1>t, <1>e, <1>v, <2>2, AuditByParts DEF ExpireChallenge, HealStalled, Turn
  <2>3. ASSUME NEW r \in Results, ExpireDelivery(r) PROVE AuditInv'
    BY <1>t, <1>e, <1>s, <2>3, AuditByParts DEF ExpireDelivery, Turn
  <2>4. CASE StalledResult
    BY <1>t, <1>e, <1>s, <2>4, AuditByParts DEF StalledResult, Move
  <2>5. CASE StalledChunk \/ UndeliveredChunk
    BY <1>t, <1>e, <2>5, AuditByParts DEF StalledChunk, UndeliveredChunk, EndTurn
  <2>6. CASE UndeliveredRow \/ Quarantine \/ Reclaim
    BY <1>t, <1>e, <2>6, AuditByParts DEF UndeliveredRow, Quarantine, Reclaim, Move
  <2> QED
    BY <1>t, <1>5, <1>2, <2>1, <2>2, <2>3, <2>4, <2>5, <2>6 DEF SweepStep
<1>6. CASE TimePasses
  BY <1>e, <1>6, AuditByParts DEF TimePasses, LeaseExpires, WindowElapses, rows, procs
<1>7. ASSUME NEW p \in Procs, ProcessFails(p) PROVE AuditInv'
  <2>1. \A r \in Results : result'[r].state = "passed" => result[r].state = "passed"
    BY <1>7 DEF ProcessFails, FreeRow
  <2> QED
    BY <1>t, <1>e, <1>7, <2>1, AuditByParts DEF ProcessFails
<1>8. CASE UNCHANGED vars
  BY <1>e, <1>8, AuditByParts DEF vars, rows, procs
<1> QED
  BY <1>1, <1>4, <1>5, <1>6, <1>7, <1>8 DEF Next

\* No worker is paid for a result nobody challenged before TrustAfter other
\* results of the same worker had passed, however long the count was read
\* before the credit and whatever was judged in between.
THEOREM TrustIsEarned == Spec => []MandatoryAudit
<1>1. AuditInv => MandatoryAudit
  BY DEF AuditInv, Audited, Peers, MandatoryAudit
<1> QED
  BY <1>1, TypeInvariance, FiledInvariance, AuditInit, AuditStep, PTL DEF Spec
-----------------------------------------------------------------------------
(***************************************************************************)
(* Control: which statements the sweeper and the handlers are at.          *)
(***************************************************************************)

\* The sweeper's third loop.
Delivery == {"undelivered", "undeliveredRow", "undeliveredChunk"}

\* A process between two rows holds none, only the sweeper runs its loops, only
\* a loop has a list, and a lease request has a worker.
ControlInv ==
    /\ \A p \in Procs : pc[p] \in Between => rid[p] = NoResult
    /\ pc[Sweeper] \in SweepSteps \cup Rejecting \cup {"idle"}
    /\ \A h \in Handlers : pc[h] \in HandlerSteps \cup SharedSteps
    /\ todo # {} => pc[Sweeper] \notin {"idle", "reclaim"}
    /\ \A h \in Handlers : pc[h] = "leaseTx" => who[h] \in Workers

\* Every process is idle at the start.
LEMMA ControlInit == Init => ControlInv
  BY DEF Init, ControlInv, SweepSteps, HandlerSteps, Procs

\* A handler's step that leaves the sweeper alone.
LEMMA ControlHandler ==
  ASSUME TypeInv, ControlInv, NEW h \in Handlers,
         \A p \in Procs \ {h} : pc'[p] = pc[p] /\ rid'[p] = rid[p] /\ who'[p] = who[p],
         todo' = todo,
         pc'[h] \in HandlerSteps \cup SharedSteps,
         pc'[h] \in Between => rid'[h] = NoResult,
         pc'[h] = "leaseTx" => who'[h] \in Workers
  PROVE  ControlInv'
<1>1. Sweeper \in Procs \ {h} /\ Handlers \subseteq Procs
  BY DEF Procs
<1>2. \A p \in Procs : pc'[p] \in Between => rid'[p] = NoResult
  BY DEF ControlInv
<1>3. /\ pc'[Sweeper] \in SweepSteps \cup Rejecting \cup {"idle"}
      /\ todo' # {} => pc'[Sweeper] \notin {"idle", "reclaim"}
  BY <1>1 DEF ControlInv
<1>4. \A g \in Handlers : /\ pc'[g] \in HandlerSteps \cup SharedSteps
                          /\ pc'[g] = "leaseTx" => who'[g] \in Workers
  BY <1>1 DEF ControlInv
<1> QED
  BY <1>2, <1>3, <1>4 DEF ControlInv

\* A step of the sweeper.
LEMMA ControlSweeper ==
  ASSUME TypeInv, ControlInv,
         \A p \in Handlers : pc'[p] = pc[p] /\ rid'[p] = rid[p] /\ who'[p] = who[p],
         pc'[Sweeper] \in SweepSteps \cup Rejecting \cup {"idle"},
         pc'[Sweeper] \in Between => rid'[Sweeper] = NoResult,
         todo' # {} => pc'[Sweeper] \notin {"idle", "reclaim"}
  PROVE  ControlInv'
<1>2. \A p \in Procs : pc'[p] \in Between => rid'[p] = NoResult
  BY DEF ControlInv, Procs
<1> QED
  BY <1>2 DEF ControlInv

\* Every process keeps to its own statements.
LEMMA ControlStep == TypeInv /\ ControlInv /\ [Next]_vars => ControlInv'
<1> SUFFICES ASSUME TypeInv, ControlInv, [Next]_vars PROVE ControlInv'
  OBVIOUS
<1> USE DEF HandlerSteps, SharedSteps, SweepSteps, Rejecting, Between
<1>t. /\ pc \in [Procs -> Steps] /\ rid \in [Procs -> Results \cup {NoResult}]
      /\ who \in [Procs -> Workers \cup {NoWorker}]
      /\ Sweeper \in Procs /\ Handlers \subseteq Procs /\ Sweeper \notin Handlers
  BY DEF TypeInv, ProcsInv, ProcsOK, Procs
<1>1. ASSUME NEW h \in Handlers, Request(h) PROVE ControlInv'
  <2>1. ASSUME NEW w \in Workers, StartLease(h, w) PROVE ControlInv'
    <3>1. rid[h] = NoResult
      BY <1>t, <2>1 DEF StartLease, ControlInv
    <3> QED
      BY <1>t, <2>1, <3>1, ControlHandler DEF StartLease, rows
  <2>2. ASSUME NEW r \in Results, NEW to \in {"insert", "stamp", "store"}, Begin(h, r, to)
        PROVE  ControlInv'
    BY <1>t, <2>2, ControlHandler DEF Begin
  <2> QED
    BY <1>1, <2>1, <2>2 DEF Request, StartSubmit, StartRespond, StartDeliver
<1>2. ASSUME NEW h \in Handlers, RejectStep(h) PROVE ControlInv'
  BY <1>t, <1>2, ControlHandler DEF RejectStep, FailResult, RecordRejection,
     RepoolAndSlash, Move, Finish
<1>3. ASSUME NEW h \in Handlers, AcceptStep(h) PROVE ControlInv'
  BY <1>t, <1>3, ControlHandler DEF AcceptStep, PassResult, AwaitOutputs, AcceptChunk,
     CreditEarnings, CountRemaining, CloseJob, Move, Finish
<1>4. ASSUME NEW h \in Handlers, HandlerStep(h) PROVE ControlInv'
  <2>1. CASE LeaseTx(h)
    <3>1. rid[h] = NoResult
      BY <1>t, <2>1 DEF LeaseTx, ControlInv
    <3> QED
      BY <1>t, <2>1, <3>1, ControlHandler DEF LeaseTx
  <2>2. CASE ~LeaseTx(h)
    BY <1>t, <1>4, <1>2, <1>3, <2>2, ControlHandler DEF HandlerStep, InsertResult,
       MarkSubmitted, DecideChallenge, IssueChallenge, MarkChallenged, MarkVerifying,
       StampResponse, VerdictTrue, VerdictFalse, StoreOutputs, Move, Finish
  <2> QED
    BY <2>1, <2>2
<1>5. CASE SweepStep
  <2>1. CASE SelectUnanswered \/ SelectStalled \/ SelectUndelivered
    <3>1. rid[Sweeper] = NoResult
      BY <1>t, <2>1 DEF SelectUnanswered, SelectStalled, SelectUndelivered, Select,
         ControlInv
    <3> QED
      BY <1>t, <2>1, <3>1, ControlSweeper DEF SelectUnanswered, SelectStalled,
         SelectUndelivered, Select
  <2>2. ASSUME NEW r \in Results, ExpireChallenge(r) \/ HealStalled(r) \/ ExpireDelivery(r)
        PROVE  ControlInv'
    BY <1>t, <2>2, ControlSweeper DEF ExpireChallenge, HealStalled, ExpireDelivery, Turn
  <2>3. CASE StalledResult \/ UndeliveredRow
    BY <1>t, <2>3, ControlSweeper DEF StalledResult, UndeliveredRow, Move
  <2>4. CASE StalledChunk \/ UndeliveredChunk
    BY <1>t, <2>4, ControlSweeper DEF StalledChunk, UndeliveredChunk, EndTurn
  <2>5. CASE Quarantine \/ Reclaim
    <3>1. rid[Sweeper] = NoResult /\ todo = {}
      BY <1>t, <2>5 DEF Quarantine, Reclaim, Move, ControlInv
    <3> QED
      BY <1>t, <2>5, <3>1, ControlSweeper DEF Quarantine, Reclaim, Move
  <2>6. CASE RejectStep(Sweeper)
    BY <1>t, <2>6, ControlSweeper DEF RejectStep, FailResult, RecordRejection,
       RepoolAndSlash, Move, Finish
  <2> QED
    BY <1>5, <2>1, <2>2, <2>3, <2>4, <2>5, <2>6 DEF SweepStep
<1>6. CASE TimePasses
  BY <1>6 DEF TimePasses, LeaseExpires, WindowElapses, procs, ControlInv
<1>7. ASSUME NEW p \in Procs, ProcessFails(p) PROVE ControlInv'
  <2>1. CASE p = Sweeper
    BY <1>t, <1>7, <2>1, ControlSweeper DEF ProcessFails
  <2>2. CASE p \in Handlers
    BY <1>t, <1>7, <2>2, ControlHandler DEF ProcessFails
  <2> QED
    BY <2>1, <2>2 DEF Procs
<1>8. CASE UNCHANGED vars
  BY <1>8 DEF vars, procs, ControlInv
<1> QED
  BY <1>1, <1>4, <1>5, <1>6, <1>7, <1>8 DEF Next

\* Every process always keeps to its own statements.
LEMMA ControlInvariance == Spec => []ControlInv
  BY TypeInvariance, ControlInit, ControlStep, PTL DEF Spec
-----------------------------------------------------------------------------
(***************************************************************************)
(* Activities apart.                                                       *)
(*                                                                         *)
(* Until two of them overlap, one activity at most touches a chunk at a    *)
(* time, and that is all that keeps the unconditional updates of           *)
(* verification.ts in order.  ApartInv says who is where, Tidy(c) what     *)
(* chunk c and its rows then look like: a step changes one chunk with its  *)
(* rows and its process, so it is enough to look at that chunk.            *)
(***************************************************************************)

Verified == {"submitted", "verifying"}
HeldBack == {"submitted", "verifying", "awaiting_outputs"}
Over     == {"accepted", "quarantined"}

\* The statements on the way from a challenge to its verdict, and on the way
\* from a result that passed to the end of its request.
Asking  == {"markChallenged", "markVerifying", "stamp", "judge"}
Passing == {"awaitOutputs", "accept", "store", "credit", "count", "close"}
Leased  == {"insert", "markSubmitted"}

\* The states a chunk may be in while a process is at a statement about it.
Place(s) ==
    CASE s \in Leased -> {"leased"}
      [] s \in {"decide", "issue", "markChallenged", "markVerifying"} -> {"submitted"}
      [] s \in {"store", "undeliveredRow", "undeliveredChunk"} -> {"awaiting_outputs"}
      [] s = "accept" -> HeldBack
      [] s \in {"credit", "count", "close"} -> {"accepted"}
      [] OTHER -> Verified

At(p, c) == rid[p] # NoResult /\ ChunkOf(p) = c
Of(r, c) == Filed(r) /\ result[r].chunk = c

ApartInv ==
    /\ \A p, q \in Procs : \A c \in Chunks : At(p, c) /\ At(q, c) => p = q
    /\ \A p \in Procs, r \in todo : ~At(p, result[r].chunk)
    /\ \A r, s \in todo : result[r].chunk = result[s].chunk => r = s

Placed(c) == \A p \in Procs : At(p, c) => chunk[c].state \in Place(pc[p])

Asked(c) == \A r \in Results : Of(r, c) /\ challenge[r].passed = "null" =>
    /\ chunk[c].state \in Verified
    /\ \A q \in Results : Of(q, c) => /\ challenge[q].passed = "null" => q = r
                                      /\ result[q].state # "passed"
    /\ \A p \in Procs : At(p, c) => rid[p] = r /\ pc[p] \in Asking

PassedOnce(c) == \A r \in Results : Of(r, c) /\ result[r].state = "passed" =>
    /\ chunk[c].state \in HeldBack \cup {"accepted"}
    /\ \A q \in Results : Of(q, c) /\ result[q].state = "passed" => q = r
    /\ \A p \in Procs : At(p, c) => pc[p] \in Passing

CreditedOnce(c) == \A r \in Results : Of(r, c) /\ credits[r] > 0 =>
    /\ credits[r] = 1
    /\ chunk[c].state = "accepted"
    /\ \A q \in Results : Of(q, c) /\ credits[q] > 0 => q = r
    /\ \A p \in Procs : At(p, c) => pc[p] # "credit"

Listed(c) == \A r \in todo : result[r].chunk = c =>
    IF pc[Sweeper] \in Delivery
      THEN result[r].state = "passed" /\ chunk[c].state = "awaiting_outputs"
      ELSE challenge[r].passed = "null"

Tidy(c) == Placed(c) /\ Asked(c) /\ PassedOnce(c) /\ CreditedOnce(c) /\ Listed(c)

TidyInv == \A c \in Chunks : Tidy(c)

\* A job is closed, or about to be, only when no chunk is left.
OverInv ==
    (job = "closed" \/ \E p \in Procs : pc[p] = "close") =>
        \A c \in Chunks : chunk[c].state \in Over

BaseInv == TypeInv /\ FiledInv /\ ControlInv
OrderlyInv == BaseInv /\ ApartInv /\ TidyInv /\ OverInv

\* A row that a process goes on holding stays with its chunk, even before its
\* insert.
LEMMA HeldRowsLast ==
  ASSUME OrderlyInv, [Next]_vars
  PROVE  \A p \in Procs : rid[p] # NoResult /\ rid'[p] = rid[p] =>
            rid[p] \in Results /\ result'[rid[p]].chunk = ChunkOf(p)
<1> SUFFICES ASSUME NEW p \in Procs, rid[p] # NoResult, rid'[p] = rid[p]
             PROVE  rid[p] \in Results /\ result'[rid[p]].chunk = result[rid[p]].chunk
  BY DEF ChunkOf
<1>t. /\ TypeInv /\ rid \in [Procs -> Results \cup {NoResult}]
      /\ result \in [Results -> ResultRows] /\ Handlers \subseteq Procs /\ Sweeper \in Procs
      /\ pc \in [Procs -> Steps]
  BY DEF OrderlyInv, BaseInv, TypeInv, ProcsInv, ProcsOK, RowsOK, Procs
<1>0. rid[p] \in Results
  BY <1>t
<1>1. CASE Filed(rid[p])
  BY <1>0, <1>1, <1>t, RowsLast DEF Filed, KeepsRow
<1>2. CASE ~Filed(rid[p])
  <2>0. pc[p] = "insert"
    <3>1. pc[p] \notin Between
      BY DEF OrderlyInv, BaseInv, ControlInv
    <3> QED
      BY <1>2, <3>1 DEF OrderlyInv, BaseInv, FiledInv, Unfiled
  <2>s. ASSUME NEW q, NEW s, SetResult(q, s)
        PROVE  result'[rid[p]].chunk = result[rid[p]].chunk
    BY <1>t, <1>0, <2>s DEF SetResult, ResultRows
  <2>1. ASSUME NEW h \in Handlers, Request(h)
        PROVE  result'[rid[p]].chunk = result[rid[p]].chunk
    BY <1>0, <1>t, <2>1 DEF Request, StartLease, StartSubmit, IsNextResult,
       StartRespond, StartDeliver, rows
  <2>2. ASSUME NEW q \in Procs, AcceptStep(q) \/ RejectStep(q)
        PROVE  result'[rid[p]].chunk = result[rid[p]].chunk
    BY <2>2, <2>s DEF AcceptStep, PassResult, AwaitOutputs, AcceptChunk,
       CreditEarnings, CountRemaining, CloseJob, RejectStep, FailResult,
       RecordRejection, RepoolAndSlash, rows
  <2>3. ASSUME NEW h \in Handlers, HandlerStep(h)
        PROVE  result'[rid[p]].chunk = result[rid[p]].chunk
    BY <2>3, <1>t, <2>2, <2>s DEF HandlerStep, LeaseTx, InsertResult, MarkSubmitted,
       DecideChallenge, IssueChallenge, MarkChallenged, MarkVerifying, StampResponse,
       VerdictTrue, VerdictFalse, StoreOutputs, rows
  <2>4. CASE SweepStep
    BY <2>4, <1>t, <2>2, <2>s DEF SweepStep, SelectUnanswered, ExpireChallenge,
       SelectStalled, HealStalled, StalledResult, StalledChunk, SelectUndelivered,
       ExpireDelivery, UndeliveredRow, UndeliveredChunk, Quarantine, Reclaim, Select, rows
  <2>5. CASE TimePasses
    BY <1>0, <2>5 DEF TimePasses, LeaseExpires, WindowElapses, rows
  <2>6. ASSUME NEW q \in Procs, ProcessFails(q)
        PROVE  result'[rid[p]].chunk = result[rid[p]].chunk
    <3>1. q # p
      BY <1>t, <1>0, <2>6 DEF ProcessFails
    <3>2. rid[q] # rid[p]
      <4>1. ChunkOf(p) \in Chunks
        BY <1>0, <1>t DEF ChunkOf, ResultRows
      <4> QED
        BY <1>0, <1>t, <3>1, <4>1 DEF OrderlyInv, ApartInv, At, ChunkOf
    <3> QED
      BY <1>0, <2>6, <3>2 DEF ProcessFails
  <2>7. CASE UNCHANGED vars
    BY <1>0, <2>7 DEF vars, rows
  <2> QED
    BY <1>0, <2>1, <2>3, <2>4, <2>5, <2>6, <2>7 DEF Next
<1> QED
  BY <1>0, <1>1, <1>2

\* A listed row is an inserted one, so it keeps its chunk.
LEMMA ListedRowsLast ==
  ASSUME OrderlyInv, [Next]_vars
  PROVE  \A r \in todo : r \in Results /\ Filed(r) /\ result'[r].chunk = result[r].chunk
<1>1. \A r \in todo : r \in Results /\ Filed(r)
  BY DEF OrderlyInv, BaseInv, TypeInv, ProcsInv, ProcsOK, FiledInv
<1> QED
  BY <1>1, RowsLast DEF OrderlyInv, BaseInv, Filed, KeepsRow

\* Letting go of rows keeps activities apart.
LEMMA ApartQuiet ==
  ASSUME OrderlyInv, [Next]_vars,
         \A p \in Procs : rid'[p] = rid[p] \/ rid'[p] = NoResult,
         todo' \subseteq todo
  PROVE  ApartInv'
<1>1. \A p \in Procs : \A c : At(p, c)' => At(p, c)
  BY HeldRowsLast DEF At, ChunkOf
<1>2. \A r \in todo' : r \in todo /\ result'[r].chunk = result[r].chunk
  BY ListedRowsLast
<1>3. ASSUME NEW p \in Procs, NEW q \in Procs, NEW c \in Chunks, At(p, c)', At(q, c)'
      PROVE  p = q
  BY <1>1, <1>3 DEF OrderlyInv, ApartInv
<1>4. ASSUME NEW p \in Procs, NEW r \in todo' PROVE ~At(p, result[r].chunk)'
  <2>1. At(p, result[r].chunk)' => At(p, result[r].chunk)
    BY <1>1, <1>2, <1>4 DEF At, ChunkOf
  <2> QED
    BY <1>2, <1>4, <2>1 DEF OrderlyInv, ApartInv
<1>5. ASSUME NEW r \in todo', NEW s \in todo', result'[r].chunk = result'[s].chunk
      PROVE  r = s
  BY <1>2, <1>5 DEF OrderlyInv, ApartInv
<1> QED
  BY <1>3, <1>4, <1>5 DEF ApartInv

\* A request starts only on a chunk nobody is busy with.
LEMMA ApartBegin ==
  ASSUME OrderlyInv, [Next]_vars,
         NEW h \in Handlers, NEW r \in Results, NEW to, Begin(h, r, to),
         ~Busy(result'[r].chunk)
  PROVE  ApartInv'
<1>t. /\ rid \in [Procs -> Results \cup {NoResult}] /\ Handlers \subseteq Procs
  BY DEF OrderlyInv, BaseInv, TypeInv, ProcsInv, ProcsOK, Procs
<1>0. rid[h] = NoResult /\ rid' = [rid EXCEPT ![h] = r] /\ todo' = todo
  BY <1>t DEF OrderlyInv, BaseInv, ControlInv, Begin, Between
<1>1. \A p \in Procs \ {h} : \A c : At(p, c)' => At(p, c)
  BY <1>0, <1>t, HeldRowsLast DEF At, ChunkOf
<1>2. \A c : At(h, c)' => c = result'[r].chunk
  BY <1>0, <1>t DEF At, ChunkOf
<1>3. \A r1 \in todo' : r1 \in todo /\ result'[r1].chunk = result[r1].chunk
  BY <1>0, ListedRowsLast
<1>4. /\ \A p \in Procs : ~At(p, result'[r].chunk)
      /\ \A s \in todo : result[s].chunk # result'[r].chunk
  BY DEF Busy, At
<1>5. ASSUME NEW p \in Procs, NEW q \in Procs, NEW c \in Chunks, At(p, c)', At(q, c)'
      PROVE  p = q
  BY <1>1, <1>2, <1>4, <1>5 DEF OrderlyInv, ApartInv
<1>6. ASSUME NEW p \in Procs, NEW s \in todo' PROVE ~At(p, result[s].chunk)'
  <2>1. CASE p = h
    BY <1>2, <1>3, <1>4, <1>6, <2>1 DEF At, ChunkOf
  <2>2. CASE p # h
    <3>1. At(p, result[s].chunk)' => At(p, result[s].chunk)
      BY <1>1, <1>3, <1>6, <2>2 DEF At, ChunkOf
    <3> QED
      BY <1>3, <1>6, <3>1 DEF OrderlyInv, ApartInv
  <2> QED
    BY <2>1, <2>2
<1>7. ASSUME NEW s \in todo', NEW s2 \in todo', result'[s].chunk = result'[s2].chunk
      PROVE  s = s2
  BY <1>3, <1>7 DEF OrderlyInv, ApartInv
<1> QED
  BY <1>5, <1>6, <1>7 DEF ApartInv

\* The row of a turn comes from the list, where every chunk is once.
LEMMA ApartTurn ==
  ASSUME OrderlyInv, [Next]_vars, NEW from \in Between, NEW r \in Results, NEW to,
         Turn(from, r, to)
  PROVE  ApartInv'
<1>t. /\ rid \in [Procs -> Results \cup {NoResult}] /\ Sweeper \in Procs
  BY DEF OrderlyInv, BaseInv, TypeInv, ProcsInv, ProcsOK, Procs
<1>0. /\ rid' = [rid EXCEPT ![Sweeper] = r] /\ todo' = todo \ {r} /\ r \in todo
  BY <1>t DEF Turn
<1>1. \A p \in Procs \ {Sweeper} : \A c : At(p, c)' => At(p, c)
  BY <1>0, <1>t, HeldRowsLast DEF At, ChunkOf
<1>2. \A c : At(Sweeper, c)' => c = result[r].chunk
  BY <1>0, <1>t, ListedRowsLast DEF At, ChunkOf
<1>3. \A r1 \in todo' : r1 \in todo /\ r1 # r /\ result'[r1].chunk = result[r1].chunk
  BY <1>0, ListedRowsLast
<1>5. ASSUME NEW p \in Procs, NEW q \in Procs, NEW c \in Chunks, At(p, c)', At(q, c)'
      PROVE  p = q
  BY <1>0, <1>1, <1>2, <1>5 DEF OrderlyInv, ApartInv
<1>6. ASSUME NEW p \in Procs, NEW s \in todo' PROVE ~At(p, result[s].chunk)'
  <2>1. CASE p = Sweeper
    BY <1>0, <1>2, <1>3, <1>6, <2>1 DEF At, ChunkOf, OrderlyInv, ApartInv
  <2>2. CASE p # Sweeper
    <3>1. At(p, result[s].chunk)' => At(p, result[s].chunk)
      BY <1>1, <1>3, <1>6, <2>2 DEF At, ChunkOf
    <3> QED
      BY <1>3, <1>6, <3>1 DEF OrderlyInv, ApartInv
  <2> QED
    BY <2>1, <2>2
<1>7. ASSUME NEW s \in todo', NEW s2 \in todo', result'[s].chunk = result'[s2].chunk
      PROVE  s = s2
  BY <1>3, <1>7 DEF OrderlyInv, ApartInv
<1> QED
  BY <1>5, <1>6, <1>7 DEF ApartInv

\* Without an overlap a list has no chunk that others are busy with, and has a
\* chunk once if the rows it is made of do.
LEMMA ApartSelect ==
  ASSUME OrderlyInv, [Next]_vars, ~overlapped', NEW S \in SUBSET Results, NEW loop,
         Select(S, loop),
         \A r, s \in S : result[r].chunk = result[s].chunk => r = s
  PROVE  ApartInv'
<1>1. /\ UNCHANGED <<rid, result>> /\ todo' \subseteq S
      /\ \A r \in todo' : ~Busy(result[r].chunk)
  BY DEF Select, TakesUp, rows
<1>2. \A p \in Procs : \A c : At(p, c)' <=> At(p, c)
  BY <1>1 DEF At, ChunkOf
<1>3. \A p \in Procs, r \in todo' : ~At(p, result[r].chunk)
  BY <1>1 DEF Busy, At
<1> QED
  BY <1>1, <1>2, <1>3 DEF OrderlyInv, ApartInv, At, ChunkOf

\* A chunk stays tidy when a step happens elsewhere.
LEMMA TidyElsewhere ==
  ASSUME OrderlyInv, [Next]_vars, NEW d \in Chunks, chunk'[d].state = chunk[d].state,
         \A r \in Results : Of(r, d)' =>
           /\ Of(r, d)
           /\ result'[r].state = result[r].state
           /\ challenge'[r].passed = challenge[r].passed
           /\ credits'[r] = credits[r],
         \A p \in Procs : At(p, d)' => At(p, d) /\ rid'[p] = rid[p] /\ pc'[p] = pc[p],
         \A r \in todo' : result'[r].chunk = d =>
           /\ r \in todo
           /\ pc'[Sweeper] \in Delivery <=> pc[Sweeper] \in Delivery
  PROVE  Tidy(d)'
<1>0. Tidy(d)
  BY DEF OrderlyInv, TidyInv
<1>1. Placed(d)'
  BY <1>0 DEF Tidy, Placed
<1>2. Asked(d)'
  BY <1>0 DEF Tidy, Asked
<1>3. PassedOnce(d)'
  BY <1>0 DEF Tidy, PassedOnce
<1>4. CreditedOnce(d)'
  BY <1>0 DEF Tidy, CreditedOnce
<1>5. Listed(d)'
  <2> SUFFICES ASSUME NEW r \in todo', result'[r].chunk = d
               PROVE  IF pc'[Sweeper] \in Delivery
                        THEN result'[r].state = "passed" /\ chunk'[d].state = "awaiting_outputs"
                        ELSE challenge'[r].passed = "null"
    BY DEF Listed
  <2>1. r \in todo /\ r \in Results /\ Filed(r) /\ result[r].chunk = d
    BY ListedRowsLast
  <2>2. Of(r, d)'
    BY <2>1, RowsLast DEF OrderlyInv, BaseInv, Of, Filed, KeepsRow
  <2> QED
    BY <1>0, <2>1, <2>2 DEF Tidy, Listed
<1> QED
  BY <1>1, <1>2, <1>3, <1>4, <1>5 DEF Tidy

\* What a step of a process about its row has to show: the row and its chunk
\* end up where the next statement expects them.  No other row of the chunk is
\* waiting for a verdict, and another one has passed only where the process is
\* past that itself.
LEMMA RowStepTidy ==
  ASSUME OrderlyInv, [Next]_vars, NEW p \in Procs, NEW r, r = rid[p], r # NoResult,
         NEW c, c = ChunkOf(p),
         \A d \in Chunks \ {c} : chunk'[d] = chunk[d],
         \A q \in Results \ {r} : result'[q] = result[q] /\ challenge'[q] = challenge[q],
         credits' = credits, todo' = todo,
         \A q \in Procs \ {p} : pc'[q] = pc[q] /\ rid'[q] = rid[q],
         p = Sweeper => todo = {} \/ (pc'[p] \in Delivery <=> pc[p] \in Delivery),
         result'[r].chunk = result[r].chunk,
         rid'[p] = r \/ rid'[p] = NoResult,
         rid'[p] = r => chunk'[c].state \in Place(pc'[p]),
         challenge'[r].passed = "null" =>
           /\ chunk'[c].state \in Verified /\ result'[r].state # "passed"
           /\ pc[p] \notin Passing
           /\ rid'[p] = r => pc'[p] \in Asking,
         result'[r].state = "passed" =>
           /\ chunk'[c].state \in HeldBack \cup {"accepted"}
           /\ result[r].state = "passed" \/ pc[p] \notin Passing
           /\ rid'[p] = r => pc'[p] \in Passing,
         pc[p] \in Passing => /\ chunk'[c].state \in HeldBack \cup {"accepted"}
                              /\ rid'[p] = r => pc'[p] \in Passing,
         chunk[c].state = "accepted" =>
           chunk'[c].state = "accepted" /\ (rid'[p] = r => pc'[p] # "credit")
  PROVE  TidyInv'
<1>t. /\ rid \in [Procs -> Results \cup {NoResult}] /\ result \in [Results -> ResultRows]
      /\ r \in Results /\ c = result[r].chunk /\ c \in Chunks
  <2>1. /\ rid \in [Procs -> Results \cup {NoResult}] /\ result \in [Results -> ResultRows]
    BY DEF OrderlyInv, BaseInv, TypeInv, ProcsInv, ProcsOK, RowsOK
  <2> QED
    BY <2>1 DEF ChunkOf, ResultRows
<1>a. At(p, c)
  BY DEF At
<1>b. \A q \in Procs \ {p} : \A d : At(q, d)' => At(q, d)
  BY HeldRowsLast DEF At, ChunkOf
<1>c. \A q \in Procs : At(q, c)' => q = p /\ rid'[p] = r
  <2>1. ASSUME NEW q \in Procs \ {p} PROVE ~At(q, c)'
    BY <1>a, <1>b, <1>t DEF OrderlyInv, ApartInv
  <2>2. At(p, c)' => rid'[p] = r
    BY DEF At
  <2> QED
    BY <2>1, <2>2
<1>d. \A s \in todo' : result'[s].chunk # c
  BY <1>a, ListedRowsLast DEF OrderlyInv, ApartInv
<1>e. \A q \in Results \ {r} : \A d : Of(q, d)' <=> Of(q, d)
  BY DEF Of, Filed
<1>o. Tidy(c)
  BY <1>t DEF OrderlyInv, TidyInv
<1>1. Placed(c)'
  BY <1>c DEF Placed
<1>n. \A q \in Results \ {r} : ~(Of(q, c)' /\ challenge'[q].passed = "null")
  BY <1>a, <1>e, <1>o DEF Tidy, Asked
<1>p. \A q \in Results \ {r} : Of(q, c)' /\ result'[q].state = "passed" => pc[p] \in Passing
  BY <1>a, <1>e, <1>o DEF Tidy, PassedOnce
<1>2. Asked(c)'
  BY <1>c, <1>n, <1>p DEF Asked
<1>3. PassedOnce(c)'
  <2>1. ASSUME NEW q \in Results, NEW s \in Results, Of(q, c)', Of(s, c)',
               result'[q].state = "passed", result'[s].state = "passed"
        PROVE  q = s
    <3>1. CASE q # r /\ s # r
      BY <1>e, <1>o, <2>1, <3>1 DEF Tidy, PassedOnce
    <3>2. CASE (q = r /\ s # r) \/ (s = r /\ q # r)
      <4>1. pc[p] \in Passing /\ result[r].state = "passed"
        BY <1>p, <2>1, <3>2
      <4>2. Of(r, c)
        BY <1>t, <4>1 DEF Of, Filed
      <4> QED
        BY <1>e, <1>o, <1>t, <2>1, <3>2, <4>1, <4>2 DEF Tidy, PassedOnce
    <3> QED
      BY <3>1, <3>2
  <2>2. ASSUME NEW q \in Results, Of(q, c)', result'[q].state = "passed"
        PROVE  /\ chunk'[c].state \in HeldBack \cup {"accepted"}
               /\ rid'[p] = r => pc'[p] \in Passing
    BY <1>p, <2>2
  <2> QED
    BY <1>c, <2>1, <2>2 DEF PassedOnce
<1>4. CreditedOnce(c)'
  <2>1. \A q \in Results : Of(q, c)' /\ credits'[q] > 0 => Of(q, c)
    BY <1>e, <1>t DEF Of, OrderlyInv, BaseInv, FiledInv
  <2>2. ASSUME NEW q \in Results, Of(q, c)', credits'[q] > 0
        PROVE  chunk[c].state = "accepted" /\ credits[q] = 1
    BY <1>o, <2>1, <2>2 DEF Tidy, CreditedOnce
  <2> QED
    BY <1>c, <1>o, <2>1, <2>2 DEF Tidy, CreditedOnce
<1>5. Listed(c)'
  BY <1>d DEF Listed
<1>6. Tidy(c)'
  BY <1>1, <1>2, <1>3, <1>4, <1>5 DEF Tidy
<1>7. ASSUME NEW d \in Chunks \ {c} PROVE Tidy(d)'
  <2>1. \A q \in Results : Of(q, d)' => q # r
    BY <1>t, <1>7 DEF Of
  <2>2. \A q \in Procs : At(q, d)' => q # p
    BY <1>t, <1>7 DEF At, ChunkOf
  <2>3. \A q \in Procs : At(q, d)' => At(q, d) /\ rid'[q] = rid[q] /\ pc'[q] = pc[q]
    BY <1>b, <2>2
  <2>4. todo' # {} => (pc'[Sweeper] \in Delivery <=> pc[Sweeper] \in Delivery)
    BY DEF Procs
  <2> QED
    BY <1>e, <2>1, <2>3, <2>4, TidyElsewhere
<1> QED
  BY <1>6, <1>7 DEF TidyInv

\* A request that starts on a chunk nobody is busy with finds it where its
\* first statement expects it.
LEMMA TidyBegin ==
  ASSUME OrderlyInv, [Next]_vars,
         NEW h \in Handlers, NEW r \in Results, NEW to, Begin(h, r, to),
         NEW c \in Chunks, c = result'[r].chunk, ~Busy(c),
         UNCHANGED <<chunk, challenge, credits>>,
         \A q \in Results : result'[q].state = result[q].state,
         \A q \in Results \ {r} : result'[q] = result[q],
         chunk[c].state \in Place(to), to # "credit",
         \A q \in Results : Of(q, c) /\ challenge[q].passed = "null" =>
           q = r /\ to \in Asking,
         \A q \in Results : Of(q, c) /\ result[q].state = "passed" => to \in Passing
  PROVE  TidyInv'
<1>t. /\ rid \in [Procs -> Results \cup {NoResult}] /\ pc \in [Procs -> Steps]
      /\ Handlers \subseteq Procs
      /\ Sweeper \in Procs \ {h} /\ NoResult \notin Results
  BY DEF OrderlyInv, BaseInv, TypeInv, ProcsInv, ProcsOK, Procs
<1>0. /\ rid' = [rid EXCEPT ![h] = r] /\ todo' = todo /\ pc' = [pc EXCEPT ![h] = to]
      /\ rid[h] = NoResult
  BY <1>t DEF OrderlyInv, BaseInv, ControlInv, Begin, Between
<1>1. \A q \in Procs \ {h} : \A d : At(q, d)' => At(q, d)
  BY <1>0, <1>t, HeldRowsLast DEF At, ChunkOf
<1>2. \A d : At(h, d)' => d = c
  BY <1>0, <1>t DEF At, ChunkOf
<1>3. /\ \A q \in Procs : ~At(q, c)
      /\ \A s \in todo : result[s].chunk # c
  BY DEF Busy, At
<1>4. \A s \in todo' : s \in todo /\ result'[s].chunk # c
  BY <1>0, <1>3, ListedRowsLast
<1>5. \A q \in Results : \A d : Of(q, d)' => Of(q, d)
  <2> SUFFICES ASSUME NEW q \in Results, NEW d, Of(q, d)' PROVE Of(q, d)
    OBVIOUS
  <2>1. Filed(q)
    BY DEF Of, Filed
  <2> QED
    BY <2>1, RowsLast DEF OrderlyInv, BaseInv, Of, Filed, KeepsRow
<1>6. \A q \in Procs : At(q, c)' => q = h
  BY <1>1, <1>3
<1>o. Tidy(c)
  BY DEF OrderlyInv, TidyInv
<1>7. Placed(c)' /\ rid'[h] = r /\ pc'[h] = to
  BY <1>0, <1>6, <1>t DEF Placed
<1>8. Asked(c)'
  BY <1>5, <1>6, <1>7, <1>o DEF Tidy, Asked
<1>9. PassedOnce(c)'
  BY <1>5, <1>6, <1>7, <1>o DEF Tidy, PassedOnce
<1>10. CreditedOnce(c)'
  BY <1>5, <1>6, <1>7, <1>o DEF Tidy, CreditedOnce
<1>11. Tidy(c)'
  BY <1>4, <1>7, <1>8, <1>9, <1>10 DEF Tidy, Listed
<1>12. ASSUME NEW d \in Chunks \ {c} PROVE Tidy(d)'
  <2>1. \A q \in Procs : At(q, d)' => At(q, d) /\ rid'[q] = rid[q] /\ pc'[q] = pc[q]
    BY <1>0, <1>1, <1>2, <1>12, <1>t
  <2>2. pc'[Sweeper] = pc[Sweeper]
    BY <1>0, <1>t
  <2> QED
    BY <1>0, <1>5, <2>1, <2>2, TidyElsewhere
<1> QED
  BY <1>11, <1>12 DEF TidyInv

\* A turn of the sweeper takes its row out of the list, and settles the verdict
\* it is about.
LEMMA TidyTurn ==
  ASSUME OrderlyInv, [Next]_vars, NEW from \in Between, NEW r \in Results, NEW to,
         Turn(from, r, to), NEW c, c = result[r].chunk,
         UNCHANGED <<chunk, credits>>,
         \A q \in Results \ {r} : result'[q] = result[q] /\ challenge'[q] = challenge[q],
         from \in Delivery <=> to \in Delivery,
         chunk[c].state \in Place(to) \cap HeldBack,
         \A q \in Results : Of(q, c)' =>
           challenge'[q].passed # "null" /\ result'[q].state # "passed"
  PROVE  TidyInv'
<1>t. /\ rid \in [Procs -> Results \cup {NoResult}] /\ pc \in [Procs -> Steps]
      /\ Sweeper \in Procs /\ NoResult \notin Results /\ c \in Chunks
  <2>1. result[r] \in ResultRows
    BY DEF OrderlyInv, BaseInv, TypeInv, RowsOK
  <2> QED
    BY <2>1 DEF OrderlyInv, BaseInv, TypeInv, ProcsInv, ProcsOK, Procs, ResultRows
<1>0. /\ rid' = [rid EXCEPT ![Sweeper] = r] /\ todo' = todo \ {r} /\ r \in todo
      /\ pc' = [pc EXCEPT ![Sweeper] = to] /\ pc[Sweeper] = from
  BY DEF Turn
<1>1. \A q \in Procs \ {Sweeper} : \A d : At(q, d)' => At(q, d)
  BY <1>0, <1>t, HeldRowsLast DEF At, ChunkOf
<1>2. \A d : At(Sweeper, d)' => d = c
  BY <1>0, <1>t, ListedRowsLast DEF At, ChunkOf
<1>3. \A q \in Procs : ~At(q, c)
  BY <1>0 DEF OrderlyInv, ApartInv
<1>4. \A s \in todo' : s \in todo /\ result'[s].chunk # c
  BY <1>0, ListedRowsLast DEF OrderlyInv, ApartInv
<1>5. \A q \in Results \ {r} : \A d : Of(q, d)' <=> Of(q, d)
  BY DEF Of, Filed
<1>6. \A q \in Procs : At(q, c)' => q = Sweeper
  BY <1>1, <1>3
<1>o. Tidy(c)
  BY <1>t DEF OrderlyInv, TidyInv
<1>7. Placed(c)'
  BY <1>0, <1>6, <1>t DEF Placed
<1>8. Asked(c)' /\ PassedOnce(c)'
  BY DEF Asked, PassedOnce
<1>9. Of(r, c)
  BY <1>0, ListedRowsLast DEF Of
<1>10. CreditedOnce(c)'
  <2>1. \A q \in Results : Of(q, c) => ~(credits[q] > 0)
    BY <1>o DEF Tidy, CreditedOnce, HeldBack
  <2> QED
    BY <1>5, <1>9, <2>1 DEF CreditedOnce
<1>11. Tidy(c)'
  BY <1>4, <1>7, <1>8, <1>10 DEF Tidy, Listed
<1>12. ASSUME NEW d \in Chunks \ {c} PROVE Tidy(d)'
  <2>1. \A q \in Procs : At(q, d)' => At(q, d) /\ rid'[q] = rid[q] /\ pc'[q] = pc[q]
    BY <1>0, <1>1, <1>2, <1>12, <1>t
  <2>2. pc'[Sweeper] \in Delivery <=> pc[Sweeper] \in Delivery
    BY <1>0, <1>t
  <2>3. ~Of(r, d)'
    BY <1>0, <1>12, ListedRowsLast DEF Of
  <2>4. \A q \in Results : Of(q, d)' =>
           /\ Of(q, d)
           /\ result'[q].state = result[q].state
           /\ challenge'[q].passed = challenge[q].passed
           /\ credits'[q] = credits[q]
    BY <1>5, <2>3
  <2> QED
    BY <1>0, <2>1, <2>2, <2>4, TidyElsewhere
<1> QED
  BY <1>11, <1>12 DEF TidyInv

\* The rows a list is made of are in the state its loop is for.
LEMMA TidySelect ==
  ASSUME OrderlyInv, [Next]_vars, NEW S \in SUBSET Results, NEW loop \in SweepSteps, Select(S, loop),
         \A r \in S : IF loop \in Delivery
                        THEN /\ result[r].state = "passed"
                             /\ chunk[result[r].chunk].state = "awaiting_outputs"
                        ELSE challenge[r].passed = "null"
  PROVE  TidyInv'
<1>t. /\ pc \in [Procs -> Steps] /\ Sweeper \in Procs
      /\ pc[Sweeper] = "idle" /\ rid[Sweeper] = NoResult
  BY DEF OrderlyInv, BaseInv, TypeInv, ProcsInv, ProcsOK, Procs, ControlInv, Select, Between
<1>1. /\ UNCHANGED <<rid, result, chunk, challenge, credits>> /\ todo' \subseteq S
      /\ pc' = [pc EXCEPT ![Sweeper] = loop]
  BY DEF Select, rows
<1>2. \A q \in Procs : \A d : At(q, d)' => At(q, d) /\ pc'[q] = pc[q]
  BY <1>1, <1>t DEF At, ChunkOf
<1>3. \A q \in Results : \A d : Of(q, d)' <=> Of(q, d)
  BY <1>1 DEF Of, Filed
<1> SUFFICES ASSUME NEW d \in Chunks PROVE Tidy(d)'
  BY DEF TidyInv
<1>o. Tidy(d)
  BY DEF OrderlyInv, TidyInv
<1>4. Placed(d)'
  BY <1>1, <1>2, <1>o DEF Tidy, Placed
<1>5. Asked(d)'
  BY <1>1, <1>2, <1>3, <1>o DEF Tidy, Asked
<1>6. PassedOnce(d)'
  BY <1>1, <1>2, <1>3, <1>o DEF Tidy, PassedOnce
<1>7. CreditedOnce(d)'
  BY <1>1, <1>2, <1>3, <1>o DEF Tidy, CreditedOnce
<1>8. pc'[Sweeper] = loop
  BY <1>1, <1>t
<1>9. Listed(d)'
  <2> SUFFICES ASSUME NEW r \in todo', result'[r].chunk = d
               PROVE  IF pc'[Sweeper] \in Delivery
                        THEN result'[r].state = "passed" /\ chunk'[d].state = "awaiting_outputs"
                        ELSE challenge'[r].passed = "null"
    BY DEF Listed
  <2>1. r \in S /\ result[r].chunk = d
    BY <1>1
  <2> QED
    BY <1>1, <1>8, <2>1
<1> QED
  BY <1>4, <1>5, <1>6, <1>7, <1>9 DEF Tidy

\* The credit of a chunk is its first, and its process has no other to give.
LEMMA TidyCredit ==
  ASSUME OrderlyInv, [Next]_vars, NEW p \in Procs, CreditEarnings(p),
         NEW r, r = rid[p], NEW c, c = ChunkOf(p)
  PROVE  TidyInv'
<1>t. /\ pc \in [Procs -> Steps] /\ credits \in [Results -> Nat]
      /\ r \in Results /\ r # NoResult /\ c \in Chunks /\ Filed(r)
  <2>1. pc[p] \notin Between /\ pc[p] \notin Unfiled
    BY DEF CreditEarnings, Move, Between, Unfiled
  <2>2. r \in Results /\ c \in Chunks
    BY <2>1, RowHeld DEF OrderlyInv, BaseInv, TypeInv
  <2> QED
    BY <2>1, <2>2 DEF OrderlyInv, BaseInv, TypeInv, ProcsInv, ProcsOK, RowsOK, FiledInv
<1>0. /\ pc[p] = "credit" /\ pc' = [pc EXCEPT ![p] = "count"]
      /\ credits' = [credits EXCEPT ![r] = @ + 1]
      /\ UNCHANGED <<chunk, result, challenge, rid, todo>>
  BY DEF CreditEarnings, Move
<1>a. At(p, c) /\ Of(r, c)
  BY <1>t DEF At, Of, ChunkOf
<1>b. \A q \in Procs : \A d : At(q, d)' <=> At(q, d)
  BY <1>0 DEF At, ChunkOf
<1>c. \A q \in Procs : At(q, c)' => q = p
  BY <1>a, <1>b, <1>t DEF OrderlyInv, ApartInv
<1>d. \A s \in todo' : result'[s].chunk # c
  BY <1>0, <1>a DEF OrderlyInv, ApartInv
<1>e. \A q \in Results : \A d : Of(q, d)' <=> Of(q, d)
  BY <1>0 DEF Of, Filed
<1>o. Tidy(c)
  BY <1>t DEF OrderlyInv, TidyInv
<1>1. chunk[c].state = "accepted"
  BY <1>0, <1>a, <1>o DEF Tidy, Placed, Place, Leased
<1>2. Placed(c)' /\ Asked(c)' /\ PassedOnce(c)'
  <2>1. chunk'[c].state \in Place(pc'[p])
    BY <1>0, <1>1, <1>t DEF Place, Leased
  <2>2. Placed(c)'
    BY <1>c, <2>1 DEF Placed
  <2>3. Asked(c)'
    BY <1>0, <1>1, <1>e, <1>o DEF Tidy, Asked, Verified
  <2>4. pc'[p] \in Passing
    BY <1>0, <1>t DEF Passing
  <2>5. PassedOnce(c)'
    BY <1>0, <1>c, <1>e, <1>o, <2>4 DEF Tidy, PassedOnce
  <2> QED
    BY <2>2, <2>3, <2>5
<1>3. CreditedOnce(c)'
  <2>1. \A q \in Results : Of(q, c) => ~(credits[q] > 0)
    BY <1>0, <1>a, <1>o DEF Tidy, CreditedOnce
  <2>2. credits[r] = 0
    <3>1. credits[r] \in Nat /\ ~(credits[r] > 0)
      BY <1>a, <1>t, <2>1
    <3> QED
      BY <3>1
  <2>3. credits'[r] = 1
    BY <1>0, <1>t, <2>2
  <2>4. \A q \in Results : Of(q, c)' /\ credits'[q] > 0 => q = r
    BY <1>0, <1>e, <1>t, <2>1
  <2>5. pc'[p] # "credit"
    BY <1>0, <1>t
  <2> QED
    BY <1>0, <1>1, <1>c, <2>3, <2>4, <2>5 DEF CreditedOnce
<1>4. Tidy(c)'
  BY <1>2, <1>3, <1>d DEF Tidy, Listed
<1>5. ASSUME NEW d \in Chunks \ {c} PROVE Tidy(d)'
  <2>1. ~At(p, d) /\ ~Of(r, d)
    BY <1>5 DEF At, Of, ChunkOf
  <2>2. \A q \in Procs : At(q, d)' => At(q, d) /\ rid'[q] = rid[q] /\ pc'[q] = pc[q]
    BY <1>0, <1>b, <1>t, <2>1
  <2>3. pc'[Sweeper] \in Delivery <=> pc[Sweeper] \in Delivery
    BY <1>0, <1>t DEF Delivery
  <2>4. \A q \in Results : Of(q, d)' =>
           /\ Of(q, d)
           /\ result'[q].state = result[q].state
           /\ challenge'[q].passed = challenge[q].passed
           /\ credits'[q] = credits[q]
    BY <1>0, <1>e, <1>t, <2>1
  <2> QED
    BY <1>0, <2>2, <2>3, <2>4, TidyElsewhere
<1> QED
  BY <1>4, <1>5 DEF TidyInv

\* The statements about chunks as such touch only those that nothing rests on.
LEMMA TidyPool ==
  ASSUME OrderlyInv, [Next]_vars, UNCHANGED <<result, challenge, credits, rid, todo>>,
         \A p \in Procs : rid[p] # NoResult => pc'[p] = pc[p],
         todo # {} => pc'[Sweeper] = pc[Sweeper],
         \A d \in Chunks : \/ chunk'[d].state = chunk[d].state
                           \/ /\ chunk[d].state \in {"pending", "leased"}
                              /\ \A p \in Procs : ~At(p, d)
  PROVE  TidyInv'
<1> SUFFICES ASSUME NEW d \in Chunks PROVE Tidy(d)'
  BY DEF TidyInv
<1>b. \A q \in Procs : At(q, d)' => At(q, d) /\ rid'[q] = rid[q] /\ pc'[q] = pc[q]
  BY DEF At, ChunkOf
<1>e. \A q \in Results : Of(q, d)' <=> Of(q, d)
  BY DEF Of, Filed
<1>1. CASE chunk'[d].state = chunk[d].state
  BY <1>1, <1>b, <1>e, TidyElsewhere
<1>2. CASE chunk[d].state \in {"pending", "leased"} /\ \A p \in Procs : ~At(p, d)
  <2>o. Tidy(d)
    BY DEF OrderlyInv, TidyInv
  <2>1. \A q \in Results : Of(q, d) => /\ challenge[q].passed # "null"
                                       /\ result[q].state # "passed"
                                       /\ ~(credits[q] > 0)
    BY <1>2, <2>o DEF Tidy, Asked, PassedOnce, CreditedOnce, Verified, HeldBack
  <2>2. \A r \in todo : result[r].chunk # d
    <3> SUFFICES ASSUME NEW r \in todo, result[r].chunk = d PROVE FALSE
      OBVIOUS
    <3>1. r \in Results /\ Of(r, d)
      BY ListedRowsLast DEF Of
    <3> QED
      BY <2>1, <2>o, <3>1 DEF Tidy, Listed
  <2>3. Placed(d)'
    BY <1>2, <1>b DEF Placed
  <2>4. Asked(d)'
    BY <1>e, <2>1 DEF Asked
  <2>5. PassedOnce(d)'
    BY <1>e, <2>1 DEF PassedOnce
  <2>6. CreditedOnce(d)'
    BY <1>e, <2>1 DEF CreditedOnce
  <2>7. Listed(d)'
    BY <2>2 DEF Listed
  <2> QED
    BY <2>3, <2>4, <2>5, <2>6, <2>7 DEF Tidy
<1> QED
  BY <1>1, <1>2

\* What a process knows of the row it is in the middle of.
LEMMA RowFacts ==
  ASSUME OrderlyInv, NEW p \in Procs, pc[p] \notin Between
  PROVE  /\ rid[p] \in Results /\ rid[p] # NoResult /\ ChunkOf(p) \in Chunks
         /\ chunk[ChunkOf(p)].state \in Place(pc[p])
         /\ challenge[rid[p]].passed = "null" =>
              pc[p] \in Asking /\ result[rid[p]].state # "passed"
         /\ result[rid[p]].state = "passed" => pc[p] \in Passing
         /\ At(p, ChunkOf(p))
<1>1. rid[p] \in Results /\ ChunkOf(p) \in Chunks
  BY RowHeld DEF OrderlyInv, BaseInv, TypeInv
<1>2. rid[p] # NoResult
  BY <1>1
<1>3. At(p, ChunkOf(p))
  BY <1>2 DEF At
<1>4. Filed(rid[p]) => Of(rid[p], ChunkOf(p))
  BY DEF Of, ChunkOf
<1>5. Tidy(ChunkOf(p))
  BY <1>1 DEF OrderlyInv, TidyInv
<1>6. challenge[rid[p]].passed = "null" => Filed(rid[p])
  BY <1>1 DEF OrderlyInv, BaseInv, FiledInv
<1>7. result[rid[p]].state = "passed" => Filed(rid[p])
  BY DEF Filed
<1>8. challenge[rid[p]].passed = "null" => pc[p] \in Asking /\ result[rid[p]].state # "passed"
  BY <1>1, <1>3, <1>4, <1>5, <1>6 DEF Tidy, Asked
<1>9. result[rid[p]].state = "passed" => pc[p] \in Passing
  BY <1>1, <1>3, <1>4, <1>5, <1>7 DEF Tidy, PassedOnce
<1> QED
  BY <1>1, <1>2, <1>3, <1>5, <1>8, <1>9 DEF Tidy, Placed

\* What the types say of the tables, the processes and a row.
LEMMA OrderlyTypes ==
  ASSUME OrderlyInv
  PROVE  /\ pc \in [Procs -> Steps] /\ rid \in [Procs -> Results \cup {NoResult}]
         /\ chunk \in [Chunks -> ChunkRows] /\ result \in [Results -> ResultRows]
         /\ challenge \in [Results -> ChallengeRows] /\ todo \subseteq Results
         /\ Handlers \subseteq Procs /\ Sweeper \in Procs /\ Sweeper \notin Handlers
         /\ \A c \in Chunks : chunk[c] \in ChunkRows
         /\ \A r \in Results : result[r] \in ResultRows /\ challenge[r] \in ChallengeRows
  BY DEF OrderlyInv, BaseInv, TypeInv, ProcsInv, ProcsOK, RowsOK, Procs

\* The steps of a process about its row, one statement after the other: the
\* submission.
LEMMA TidySubmission ==
  ASSUME OrderlyInv, [Next]_vars, NEW h \in Handlers,
         InsertResult(h) \/ MarkSubmitted(h) \/ DecideChallenge(h) \/ IssueChallenge(h)
           \/ MarkChallenged(h) \/ MarkVerifying(h)
  PROVE  TidyInv'
<1> USE DEF Place, Leased, Asking, Passing, Verified, HeldBack, history, notes, marks
<1>t. h \in Procs /\ h # Sweeper
  BY OrderlyTypes
<1>1. CASE InsertResult(h)
  <2>1. /\ pc[h] = "insert" /\ pc' = [pc EXCEPT ![h] = "markSubmitted"]
        /\ UNCHANGED <<rid, todo, chunk, challenge, credits>>
        /\ SetResult(rid[h], "pending")
    BY <1>1 DEF InsertResult, Move
  <2> QED
    BY <1>t, <2>1, OrderlyTypes, RowFacts, RowStepTidy DEF SetResult, ResultRows, Between
<1>2. CASE MarkSubmitted(h)
  <2>1. /\ pc[h] = "markSubmitted" /\ pc'[h] \in {"decide", "fail"}
        /\ \A q \in Procs \ {h} : pc'[q] = pc[q]
        /\ UNCHANGED <<rid, todo, result, challenge, credits>>
        /\ SetChunk(ChunkOf(h), "submitted")
    BY <1>2, OrderlyTypes DEF MarkSubmitted, Move
  <2> QED
    BY <1>t, <2>1, OrderlyTypes, RowFacts, RowStepTidy DEF SetChunk, ChunkRows, Between
<1>3. CASE DecideChallenge(h)
  <2>1. /\ pc[h] = "decide" /\ pc'[h] \in {"issue", "pass"}
        /\ \A q \in Procs \ {h} : pc'[q] = pc[q]
        /\ UNCHANGED <<rid, todo, chunk, result, challenge, credits>>
    BY <1>3, OrderlyTypes DEF DecideChallenge, Move, rows
  <2> QED
    BY <1>t, <2>1, OrderlyTypes, RowFacts, RowStepTidy DEF Between
<1>4. CASE IssueChallenge(h)
  <2>1. /\ pc[h] = "issue" /\ pc' = [pc EXCEPT ![h] = "markChallenged"]
        /\ UNCHANGED <<rid, todo, chunk, result, credits>>
        /\ SetPassed(rid[h], "null")
    BY <1>4 DEF IssueChallenge, Move
  <2> QED
    BY <1>t, <2>1, OrderlyTypes, RowFacts, RowStepTidy DEF SetPassed, Between
<1>5. CASE MarkChallenged(h)
  <2>1. /\ pc[h] = "markChallenged" /\ pc' = [pc EXCEPT ![h] = "markVerifying"]
        /\ UNCHANGED <<rid, todo, chunk, challenge, credits>>
        /\ SetResult(rid[h], "challenged")
    BY <1>5 DEF MarkChallenged, Move
  <2> QED
    BY <1>t, <2>1, OrderlyTypes, RowFacts, RowStepTidy DEF SetResult, ResultRows, Between
<1>6. CASE MarkVerifying(h)
  <2>1. /\ pc[h] = "markVerifying" /\ rid' = [rid EXCEPT ![h] = NoResult]
        /\ \A q \in Procs \ {h} : pc'[q] = pc[q]
        /\ UNCHANGED <<todo, result, challenge, credits>>
        /\ SetChunk(ChunkOf(h), "verifying")
    BY <1>6, OrderlyTypes DEF MarkVerifying, Finish
  <2> QED
    BY <1>t, <2>1, OrderlyTypes, RowFacts, RowStepTidy DEF SetChunk, ChunkRows, Between
<1> QED
  BY <1>1, <1>2, <1>3, <1>4, <1>5, <1>6

\* The answer to a challenge, its verdict, and the delivery of outputs.
LEMMA TidyAnswer ==
  ASSUME OrderlyInv, [Next]_vars, NEW h \in Handlers,
         StampResponse(h) \/ VerdictTrue(h) \/ VerdictFalse(h) \/ StoreOutputs(h)
  PROVE  TidyInv'
<1> USE DEF Place, Leased, Asking, Passing, Verified, HeldBack, history, notes, marks
<1>t. h \in Procs /\ h # Sweeper
  BY OrderlyTypes
<1>1. CASE StampResponse(h)
  <2>1. /\ pc[h] = "stamp" /\ pc' = [pc EXCEPT ![h] = "judge"]
        /\ UNCHANGED <<rid, todo, chunk, result, credits>>
        /\ challenge' = [challenge EXCEPT ![rid[h]].answered = TRUE]
    BY <1>1 DEF StampResponse, Move
  <2> QED
    BY <1>t, <2>1, OrderlyTypes, RowFacts, RowStepTidy DEF ChallengeRows, Between
<1>2. CASE VerdictTrue(h)
  <2>1. /\ pc[h] = "judge" /\ pc' = [pc EXCEPT ![h] = "pass"]
        /\ UNCHANGED <<rid, todo, chunk, result, credits>>
        /\ SetPassed(rid[h], "true")
    BY <1>2 DEF VerdictTrue, Move
  <2> QED
    BY <1>t, <2>1, OrderlyTypes, RowFacts, RowStepTidy DEF SetPassed, ChallengeRows, Between
<1>3. CASE VerdictFalse(h)
  <2>1. /\ pc[h] = "judge" /\ pc' = [pc EXCEPT ![h] = "fail"]
        /\ UNCHANGED <<rid, todo, chunk, result, credits>>
        /\ SetPassed(rid[h], "false")
    BY <1>3 DEF VerdictFalse, Move
  <2> QED
    BY <1>t, <2>1, OrderlyTypes, RowFacts, RowStepTidy DEF SetPassed, ChallengeRows, Between
<1>4. CASE StoreOutputs(h)
  <2>1. /\ pc[h] = "store" /\ pc' = [pc EXCEPT ![h] = "accept"]
        /\ UNCHANGED <<rid, todo, chunk, result, challenge, credits>>
    BY <1>4 DEF StoreOutputs, Move
  <2> QED
    BY <1>t, <2>1, OrderlyTypes, RowFacts, RowStepTidy DEF Between
<1> QED
  BY <1>1, <1>2, <1>3, <1>4

\* Acceptance.  Only handlers accept.
LEMMA TidyAccept ==
  ASSUME OrderlyInv, [Next]_vars, NEW h \in Handlers, AcceptStep(h)
  PROVE  TidyInv'
<1> USE DEF Place, Leased, Asking, Passing, Verified, HeldBack, history, notes, marks
<1>t. h \in Procs /\ h # Sweeper
  BY OrderlyTypes
<1>1. CASE PassResult(h)
  <2>1. /\ pc[h] = "pass" /\ pc'[h] \in {"accept", "awaitOutputs"}
        /\ \A q \in Procs \ {h} : pc'[q] = pc[q]
        /\ UNCHANGED <<rid, todo, chunk, challenge, credits>>
        /\ SetResult(rid[h], "passed")
    BY <1>1, <1>t, OrderlyTypes DEF PassResult, Move
  <2> QED
    BY <1>t, <2>1, OrderlyTypes, RowFacts, RowStepTidy DEF SetResult, ResultRows, Between
<1>2. CASE AwaitOutputs(h)
  <2>1. /\ pc[h] = "awaitOutputs" /\ rid' = [rid EXCEPT ![h] = NoResult]
        /\ \A q \in Procs \ {h} : pc'[q] = pc[q]
        /\ UNCHANGED <<todo, result, challenge, credits>>
        /\ SetChunk(ChunkOf(h), "awaiting_outputs")
    BY <1>2, OrderlyTypes DEF AwaitOutputs, Finish
  <2> QED
    BY <1>t, <2>1, OrderlyTypes, RowFacts, RowStepTidy DEF SetChunk, ChunkRows, Between
<1>3. CASE AcceptChunk(h)
  <2>1. /\ pc[h] = "accept" /\ pc' = [pc EXCEPT ![h] = "credit"]
        /\ UNCHANGED <<rid, todo, result, challenge, credits>>
        /\ SetChunk(ChunkOf(h), "accepted")
    BY <1>3 DEF AcceptChunk, Move
  <2> QED
    BY <1>t, <2>1, OrderlyTypes, RowFacts, RowStepTidy DEF SetChunk, ChunkRows, Between
<1>4. CASE CreditEarnings(h)
  BY <1>t, <1>4, TidyCredit
<1>5. CASE CountRemaining(h)
  <2>1. /\ pc[h] = "count" /\ \A q \in Procs \ {h} : pc'[q] = pc[q] /\ rid'[q] = rid[q]
        /\ rid'[h] = NoResult \/ (rid'[h] = rid[h] /\ pc'[h] = "close")
        /\ UNCHANGED <<todo, chunk, result, challenge, credits>>
    BY <1>5, <1>t, OrderlyTypes DEF CountRemaining, Move, Finish, rows
  <2> QED
    BY <1>t, <2>1, OrderlyTypes, RowFacts, RowStepTidy DEF Between
<1>6. CASE CloseJob(h)
  <2>1. /\ pc[h] = "close" /\ rid' = [rid EXCEPT ![h] = NoResult]
        /\ \A q \in Procs \ {h} : pc'[q] = pc[q]
        /\ UNCHANGED <<todo, chunk, result, challenge, credits>>
    BY <1>6, OrderlyTypes DEF CloseJob, Finish
  <2> QED
    BY <1>t, <2>1, OrderlyTypes, RowFacts, RowStepTidy DEF Between
<1> QED
  BY <1>1, <1>2, <1>3, <1>4, <1>5, <1>6 DEF AcceptStep

\* Rejection, by a handler or by the sweeper's first loop.
LEMMA TidyReject ==
  ASSUME OrderlyInv, [Next]_vars, NEW p \in Procs, RejectStep(p)
  PROVE  TidyInv'
<1> USE DEF Place, Leased, Asking, Passing, Verified, HeldBack, history, notes, marks
<1>1. CASE FailResult(p)
  <2>1. /\ pc[p] = "fail" /\ pc' = [pc EXCEPT ![p] = "reject"]
        /\ UNCHANGED <<rid, todo, chunk, challenge, credits>>
        /\ SetResult(rid[p], "failed")
    BY <1>1 DEF FailResult, Move
  <2> QED
    BY <2>1, OrderlyTypes, RowFacts, RowStepTidy DEF SetResult, ResultRows, Between, Delivery
<1>2. CASE RecordRejection(p)
  <2>1. /\ pc[p] = "reject" /\ pc' = [pc EXCEPT ![p] = "repool"]
        /\ UNCHANGED <<rid, todo, chunk, result, challenge, credits>>
    BY <1>2 DEF RecordRejection, Move
  <2> QED
    BY <2>1, OrderlyTypes, RowFacts, RowStepTidy DEF Between, Delivery
<1>3. CASE RepoolAndSlash(p)
  <2>1. /\ pc[p] = "repool" /\ rid' = [rid EXCEPT ![p] = NoResult]
        /\ pc'[p] \in {"expire", "idle"}
        /\ \A q \in Procs \ {p} : pc'[q] = pc[q]
        /\ UNCHANGED <<todo, result, challenge, credits>>
        /\ chunk' = [chunk EXCEPT ![ChunkOf(p)] = Pooled(ChunkOf(p), 1)]
    BY <1>3, OrderlyTypes DEF RepoolAndSlash, Finish
  <2> QED
    BY <2>1, OrderlyTypes, RowFacts, RowStepTidy DEF Pooled, Between, Delivery
<1> QED
  BY <1>1, <1>2, <1>3 DEF RejectStep

\* The rest of a turn of the sweeper's second and third loop.
LEMMA TidyHeal ==
  ASSUME OrderlyInv, [Next]_vars,
         StalledResult \/ StalledChunk \/ UndeliveredRow \/ UndeliveredChunk
  PROVE  TidyInv'
<1> USE DEF Place, Leased, Asking, Passing, Verified, HeldBack, history, notes, marks
<1>1. CASE StalledResult
  <2>1. /\ pc[Sweeper] = "stalledResult" /\ pc' = [pc EXCEPT ![Sweeper] = "stalledChunk"]
        /\ UNCHANGED <<rid, todo, chunk, challenge, credits>>
        /\ SetResult(rid[Sweeper], "failed")
    BY <1>1 DEF StalledResult, Move
  <2> QED
    BY <2>1, OrderlyTypes, RowFacts, RowStepTidy DEF SetResult, ResultRows, Between, Delivery
<1>2. CASE StalledChunk
  <2>1. /\ pc[Sweeper] = "stalledChunk" /\ rid' = [rid EXCEPT ![Sweeper] = NoResult]
        /\ pc'[Sweeper] \in {"stalled", "idle"}
        /\ \A q \in Procs \ {Sweeper} : pc'[q] = pc[q]
        /\ UNCHANGED <<todo, result, challenge, credits>>
        /\ chunk' = [chunk EXCEPT ![ChunkOf(Sweeper)] = Pooled(ChunkOf(Sweeper), 0)]
    BY <1>2, OrderlyTypes DEF StalledChunk, EndTurn
  <2> QED
    BY <2>1, OrderlyTypes, RowFacts, RowStepTidy DEF Pooled, Between, Delivery
<1>3. CASE UndeliveredRow
  <2>1. /\ pc[Sweeper] = "undeliveredRow"
        /\ pc' = [pc EXCEPT ![Sweeper] = "undeliveredChunk"]
        /\ UNCHANGED <<rid, todo, chunk, result, challenge, credits>>
    BY <1>3 DEF UndeliveredRow, Move
  <2> QED
    BY <2>1, OrderlyTypes, RowFacts, RowStepTidy DEF Between, Delivery
<1>4. CASE UndeliveredChunk
  <2>1. /\ pc[Sweeper] = "undeliveredChunk" /\ rid' = [rid EXCEPT ![Sweeper] = NoResult]
        /\ pc'[Sweeper] = "undelivered" \/ todo = {}
        /\ \A q \in Procs \ {Sweeper} : pc'[q] = pc[q]
        /\ UNCHANGED <<todo, result, challenge, credits>>
        /\ chunk' = [chunk EXCEPT ![ChunkOf(Sweeper)] = Pooled(ChunkOf(Sweeper), 1)]
    BY <1>4, OrderlyTypes DEF UndeliveredChunk, EndTurn
  <2> QED
    BY <2>1, OrderlyTypes, RowFacts, RowStepTidy DEF Pooled, Between, Delivery
<1> QED
  BY <1>1, <1>2, <1>3, <1>4

\* Requests find a chunk that is leased, challenged or awaiting outputs, and
\* nobody busy with it.
LEMMA RequestsApart ==
  ASSUME OrderlyInv, [Next]_vars, ~overlapped', NEW h \in Handlers, Request(h)
  PROVE  ApartInv' /\ TidyInv'
<1> USE DEF Place, Leased, Asking, Passing, Verified, HeldBack
<1>1. ASSUME NEW w \in Workers, StartLease(h, w) PROVE ApartInv' /\ TidyInv'
  <2>1. /\ pc[h] = "idle" /\ \A q \in Procs \ {h} : pc'[q] = pc[q]
        /\ UNCHANGED <<rid, todo, chunk, result, challenge, credits>>
    BY <1>1, OrderlyTypes DEF StartLease, rows
  <2>2. rid[h] = NoResult
    BY <2>1, OrderlyTypes DEF OrderlyInv, BaseInv, ControlInv, Between
  <2> QED
    BY <2>1, <2>2, OrderlyTypes, ApartQuiet, TidyPool
<1>2. ASSUME NEW c \in Chunks, NEW good \in BOOLEAN, StartSubmit(h, c, good)
      PROVE  ApartInv' /\ TidyInv'
  <2> PICK r \in Results :
        /\ IsNextResult(r) /\ Begin(h, r, "insert")
        /\ result' = [result EXCEPT ![r] =
                        [state |-> "none", chunk |-> c,
                         worker |-> chunk[c].holder, good |-> good]]
    BY <1>2 DEF StartSubmit
  <2>1. /\ chunk[c].state = "leased" /\ ~Busy(c)
        /\ UNCHANGED <<chunk, challenge, credits>>
    BY <1>2 DEF StartSubmit, TakesUp
  <2>2. /\ result'[r].chunk = c /\ \A q \in Results \ {r} : result'[q] = result[q]
        /\ \A q \in Results : result'[q].state = result[q].state
    BY OrderlyTypes DEF IsNextResult
  <2>3. Tidy(c)
    BY DEF OrderlyInv, TidyInv
  <2>4. \A q \in Results : Of(q, c) => /\ challenge[q].passed # "null"
                                       /\ result[q].state # "passed"
    BY <2>1, <2>3 DEF Tidy, Asked, PassedOnce
  <2>5. ApartInv'
    BY <2>1, <2>2, ApartBegin
  <2>6. TidyInv'
    BY <2>1, <2>2, <2>4, TidyBegin
  <2> QED
    BY <2>5, <2>6
<1>3. ASSUME NEW r \in Results, StartRespond(h, r) PROVE ApartInv' /\ TidyInv'
  <2>1. /\ challenge[r].passed = "null" /\ ~Busy(result[r].chunk)
        /\ Begin(h, r, "stamp")
        /\ UNCHANGED <<chunk, result, challenge, credits>>
    BY <1>3 DEF StartRespond, TakesUp, rows
  <2>2. result[r].chunk \in Chunks /\ Tidy(result[r].chunk)
    BY OrderlyTypes DEF OrderlyInv, TidyInv, ResultRows
  <2>3. Of(r, result[r].chunk)
    BY <2>1 DEF Of, OrderlyInv, BaseInv, FiledInv
  <2>4. /\ chunk[result[r].chunk].state \in Verified
        /\ \A q \in Results : Of(q, result[r].chunk) =>
             /\ challenge[q].passed = "null" => q = r
             /\ result[q].state # "passed"
    BY <2>1, <2>2, <2>3 DEF Tidy, Asked
  <2>5. ApartInv'
    BY <2>1, ApartBegin
  <2>6. TidyInv'
    BY <2>1, <2>2, <2>4, TidyBegin
  <2> QED
    BY <2>5, <2>6
<1>4. ASSUME NEW r \in Results, StartDeliver(h, r) PROVE ApartInv' /\ TidyInv'
  <2>1. /\ chunk[result[r].chunk].state = "awaiting_outputs"
        /\ ~Busy(result[r].chunk) /\ Begin(h, r, "store")
        /\ UNCHANGED <<chunk, result, challenge, credits>>
    BY <1>4 DEF StartDeliver, TakesUp, rows
  <2>2. result[r].chunk \in Chunks /\ Tidy(result[r].chunk)
    BY OrderlyTypes DEF OrderlyInv, TidyInv, ResultRows
  <2>3. \A q \in Results : Of(q, result[r].chunk) => challenge[q].passed # "null"
    BY <2>1, <2>2 DEF Tidy, Asked
  <2>4. ApartInv'
    BY <2>1, ApartBegin
  <2>5. TidyInv'
    BY <2>1, <2>2, <2>3, TidyBegin
  <2> QED
    BY <2>4, <2>5
<1> QED
  BY <1>1, <1>2, <1>3, <1>4 DEF Request

\* The sweeper's lists, and the turns its loops begin.
LEMMA LoopsApart ==
  ASSUME OrderlyInv, [Next]_vars, ~overlapped',
         \/ SelectUnanswered \/ SelectStalled \/ SelectUndelivered
         \/ \E r \in Results : ExpireChallenge(r) \/ HealStalled(r) \/ ExpireDelivery(r)
  PROVE  ApartInv' /\ TidyInv'
<1> USE DEF Place, Leased, Asking, Passing, Verified, HeldBack, Delivery
<1>e. elapsed \in [Windows -> SUBSET Results]
  BY DEF OrderlyInv, BaseInv, TypeInv, HistoryOK
<1>o. \A r \in Results : Filed(r) => Tidy(result[r].chunk) /\ Of(r, result[r].chunk)
  BY OrderlyTypes DEF OrderlyInv, TidyInv, ResultRows, Of
<1>f. \A r \in Results : challenge[r].passed = "null" \/ result[r].state = "passed" => Filed(r)
  BY DEF OrderlyInv, BaseInv, FiledInv, Filed
<1>1. ASSUME NEW S \in SUBSET Results, NEW loop \in {"expire", "stalled"}, Select(S, loop),
             \A r \in S : challenge[r].passed = "null"
      PROVE  ApartInv' /\ TidyInv'
  <2>1. ASSUME NEW r \in S, NEW s \in S, result[r].chunk = result[s].chunk PROVE r = s
    <3>1. r \in Results /\ s \in Results /\ challenge[r].passed = "null" /\ challenge[s].passed = "null"
      BY <1>1
    <3>2. Asked(result[r].chunk) /\ Of(r, result[r].chunk) /\ Of(s, result[r].chunk)
      BY <1>f, <1>o, <2>1, <3>1 DEF Tidy
    <3> QED
      BY <3>1, <3>2 DEF Asked
  <2> QED
    BY <1>1, <2>1, ApartSelect, TidySelect DEF SweepSteps
<1>2. CASE SelectUnanswered
  BY <1>1, <1>2, <1>e DEF SelectUnanswered, Windows
<1>3. CASE SelectStalled
  BY <1>1, <1>3, <1>e DEF SelectStalled, Windows
<1>4. CASE SelectUndelivered
  <2> DEFINE S == {r \in elapsed["delivery"] :
                     /\ result[r].state = "passed"
                     /\ chunk[result[r].chunk].state = "awaiting_outputs"}
  <2>0. S \in SUBSET Results /\ Select(S, "undelivered")
    BY <1>4, <1>e DEF SelectUndelivered, Windows
  <2>1. ASSUME NEW r \in S, NEW s \in S, result[r].chunk = result[s].chunk PROVE r = s
    BY <1>f, <1>o, <2>0, <2>1 DEF Tidy, PassedOnce
  <2> QED
    BY <2>0, <2>1, ApartSelect, TidySelect DEF SweepSteps
<1>5. ASSUME NEW r \in Results, ExpireChallenge(r) \/ HealStalled(r) PROVE ApartInv' /\ TidyInv'
  <2>1. \E from \in {"expire", "stalled"}, to \in {"fail", "stalledResult"} : Turn(from, r, to)
    BY <1>5 DEF ExpireChallenge, HealStalled
  <2>2. SetPassed(r, "false") /\ UNCHANGED <<chunk, result, credits>>
    BY <1>5 DEF ExpireChallenge, HealStalled
  <2>3. r \in todo /\ Filed(r) /\ pc[Sweeper] \in {"expire", "stalled"}
    BY <2>1, ListedRowsLast DEF Turn
  <2>4. challenge[r].passed = "null"
    BY <1>o, <2>3 DEF Tidy, Listed
  <2>5. /\ chunk[result[r].chunk].state \in Verified
        /\ \A q \in Results : Of(q, result[r].chunk) =>
             /\ challenge[q].passed = "null" => q = r
             /\ result[q].state # "passed"
    BY <1>o, <2>3, <2>4 DEF Tidy, Asked
  <2>6. /\ \A q \in Results \ {r} : result'[q] = result[q] /\ challenge'[q] = challenge[q]
        /\ \A q \in Results : Of(q, result[r].chunk)' => Of(q, result[r].chunk)
        /\ challenge'[r].passed = "false"
    BY <2>2, OrderlyTypes DEF SetPassed, Of, Filed, ChallengeRows
  <2>7. \A q \in Results : q # r => challenge'[q] = challenge[q]
    BY <2>6
  <2>8. \A q, c : Of(q, c)' <=> Of(q, c)
    BY <2>2 DEF Of, Filed
  <2>9. \A q \in Results : Of(q, result[r].chunk) =>
          challenge'[q].passed # "null" /\ result'[q].state # "passed"
    BY <2>2, <2>5, <2>6, <2>7
  <2>10. ASSUME NEW c, c = result[r].chunk
         PROVE  \A q \in Results : Of(q, c)' =>
                  challenge'[q].passed # "null" /\ result'[q].state # "passed"
    BY <2>8, <2>9, <2>10
  <2>11. ApartInv'
    BY <2>1, ApartTurn DEF Between
  <2>12. TidyInv'
    BY <2>1, <2>2, <2>5, <2>6, <2>10, TidyTurn DEF Between
  <2> QED
    BY <2>11, <2>12
<1>6. ASSUME NEW r \in Results, ExpireDelivery(r) PROVE ApartInv' /\ TidyInv'
  <2>1. /\ Turn("undelivered", r, "undeliveredRow") /\ SetResult(r, "failed")
        /\ UNCHANGED <<chunk, challenge, credits>>
    BY <1>6 DEF ExpireDelivery
  <2>2. r \in todo /\ Filed(r) /\ pc[Sweeper] = "undelivered"
    BY <2>1, ListedRowsLast DEF Turn
  <2>3. result[r].state = "passed" /\ chunk[result[r].chunk].state = "awaiting_outputs"
    BY <1>o, <2>2 DEF Tidy, Listed
  <2>4. \A q \in Results : Of(q, result[r].chunk) =>
          /\ challenge[q].passed # "null"
          /\ result[q].state = "passed" => q = r
    BY <1>o, <2>2, <2>3 DEF Tidy, Asked, PassedOnce
  <2>5. /\ \A q \in Results \ {r} : result'[q] = result[q] /\ challenge'[q] = challenge[q]
        /\ result'[r].state = "failed" /\ result'[r].chunk = result[r].chunk
    BY <2>1, OrderlyTypes DEF SetResult, ResultRows
  <2>6. ASSUME NEW c, c = result[r].chunk, NEW q \in Results, Of(q, c)'
        PROVE  challenge'[q].passed # "null" /\ result'[q].state # "passed"
    <3>1. CASE q = r
      BY <1>o, <2>1, <2>2, <2>4, <2>5, <3>1
    <3>2. CASE q # r
      <4>1. Of(q, c)
        BY <2>5, <2>6, <3>2 DEF Of, Filed
      <4> QED
        BY <2>1, <2>4, <2>5, <2>6, <3>2, <4>1
    <3> QED
      BY <3>1, <3>2
  <2>7. ApartInv'
    BY <2>1, ApartTurn DEF Between
  <2>8. TidyInv'
    BY <2>1, <2>3, <2>5, <2>6, TidyTurn DEF Between
  <2> QED
    BY <2>7, <2>8
<1> QED
  BY <1>2, <1>3, <1>4, <1>5, <1>6

\* No process works on a chunk that is in the pool.
LEMMA NobodyAtFree ==
  ASSUME OrderlyInv, NEW d \in Chunks, chunk[d].state = "pending", NEW p \in Procs
  PROVE  ~At(p, d)
<1>1. Tidy(d)
  BY DEF OrderlyInv, TidyInv
<1> QED
  BY <1>1 DEF Tidy, Placed, Place, Leased, HeldBack, Verified

\* Leases are granted and reclaimed on chunks nobody is busy with; one that runs
\* out leaves the chunk as it is for the submission that is under way.
LEMMA LeasesApart ==
  ASSUME OrderlyInv, [Next]_vars, ~overlapped',
         \/ \E h \in Handlers : LeaseTx(h)
         \/ \E c \in Chunks : LeaseExpires(c)
         \/ Quarantine \/ Reclaim
  PROVE  ApartInv' /\ TidyInv'
<1>1. ASSUME NEW h \in Handlers, LeaseTx(h) PROVE ApartInv' /\ TidyInv'
  <2>1. /\ pc[h] = "leaseTx" /\ pc' = [pc EXCEPT ![h] = "idle"]
        /\ UNCHANGED <<rid, todo, result, challenge, credits>>
    BY <1>1 DEF LeaseTx
  <2>2. rid[h] = NoResult
    BY <2>1, OrderlyTypes DEF OrderlyInv, BaseInv, ControlInv, Between
  <2>3. \A d \in Chunks : chunk'[d] = chunk[d] \/ chunk[d].state = "pending"
    <3>1. ASSUME NEW c \in Pending,
                 chunk' = [chunk EXCEPT ![c] =
                            [state |-> "leased", holder |-> who[h], live |-> TRUE,
                             attempts |-> @.attempts]]
          PROVE  \A d \in Chunks : chunk'[d] = chunk[d] \/ chunk[d].state = "pending"
      BY <3>1, OrderlyTypes DEF Pending
    <3> QED
      BY <1>1, <3>1 DEF LeaseTx
  <2>4. \A p \in Procs : rid[p] # NoResult => pc'[p] = pc[p]
    BY <2>1, <2>2, OrderlyTypes
  <2>5. pc'[Sweeper] = pc[Sweeper]
    BY <2>1, OrderlyTypes
  <2> QED
    BY <2>1, <2>3, <2>4, <2>5, NobodyAtFree, ApartQuiet, TidyPool
<1>2. ASSUME NEW c \in Chunks, LeaseExpires(c) PROVE ApartInv' /\ TidyInv'
  <2>1. /\ UNCHANGED <<pc, rid, todo, result, challenge, credits>>
        /\ \A d \in Chunks : chunk'[d].state = chunk[d].state
    BY <1>2, OrderlyTypes DEF LeaseExpires, procs, ChunkRows
  <2> QED
    BY <2>1, ApartQuiet, TidyPool
<1>3. CASE Quarantine \/ Reclaim
  <2>1. /\ pc[Sweeper] \in {"idle", "reclaim"} /\ \A q \in Procs \ {Sweeper} : pc'[q] = pc[q]
        /\ UNCHANGED <<rid, todo, result, challenge, credits>>
        /\ \A d \in Chunks : chunk'[d] = chunk[d] \/ (Expired(d) /\ ~Busy(d))
    BY <1>3, OrderlyTypes DEF Quarantine, Reclaim, TakesUp, TooOften, Move
  <2>2. rid[Sweeper] = NoResult /\ todo = {}
    BY <2>1, OrderlyTypes DEF OrderlyInv, BaseInv, ControlInv, Between
  <2>3. \A d \in Chunks : Expired(d) => chunk[d].state = "leased"
    BY DEF Expired
  <2>4. \A d \in Chunks : ~Busy(d) => \A p \in Procs : ~At(p, d)
    BY DEF Busy, At
  <2> QED
    BY <2>1, <2>2, <2>3, <2>4, ApartQuiet, TidyPool
<1> QED
  BY <1>1, <1>2, <1>3

\* A failure, or the passing of time, leaves rows alone and releases processes.
LEMMA FailuresApart ==
  ASSUME OrderlyInv, [Next]_vars,
         \/ \E p \in Procs : ProcessFails(p)
         \/ \E r \in Results, k \in Windows : WindowElapses(r, k)
         \/ UNCHANGED vars
  PROVE  ApartInv' /\ TidyInv'
<1>1. ASSUME NEW p \in Procs, ProcessFails(p) PROVE ApartInv' /\ TidyInv'
  <2>1. /\ rid' = [rid EXCEPT ![p] = NoResult] /\ \A q \in Procs \ {p} : pc'[q] = pc[q]
        /\ UNCHANGED <<chunk, challenge, credits>>
        /\ todo' \subseteq todo /\ (p = Sweeper => todo' = {})
        /\ \A r \in Results : result'[r] = result[r] \/ result'[r].state = "none"
    BY <1>1, OrderlyTypes DEF ProcessFails, FreeRow
  <2>2. ApartInv'
    BY <2>1, OrderlyTypes, ApartQuiet
  <2>3. ASSUME NEW d \in Chunks PROVE Tidy(d)'
    <3>1. \A q \in Procs : At(q, d)' => At(q, d) /\ rid'[q] = rid[q] /\ pc'[q] = pc[q]
      BY <2>1, OrderlyTypes, HeldRowsLast DEF At, ChunkOf
    <3>2. \A r \in Results : Of(r, d)' => /\ Of(r, d) /\ result'[r].state = result[r].state
      BY <2>1 DEF Of, Filed
    <3>3. todo' # {} => pc'[Sweeper] = pc[Sweeper]
      BY <2>1, OrderlyTypes
    <3> QED
      BY <2>1, <3>1, <3>2, <3>3, TidyElsewhere
  <2> QED
    BY <2>2, <2>3 DEF TidyInv
<1>2. CASE \/ \E r \in Results, k \in Windows : WindowElapses(r, k)
           \/ UNCHANGED vars
  <2>1. UNCHANGED <<pc, rid, todo, chunk, result, challenge, credits>>
    BY <1>2 DEF WindowElapses, vars, rows, procs
  <2> QED
    BY <2>1, ApartQuiet, TidyPool
<1> QED
  BY <1>1, <1>2

\* A request or the sweeper going on with its row keeps it or lets go of it.
LEMMA RowStepsApart ==
  ASSUME OrderlyInv, [Next]_vars,
         \/ \E p \in Procs : RejectStep(p)
         \/ \E h \in Handlers : AcceptStep(h) \/ (HandlerStep(h) /\ ~LeaseTx(h))
         \/ StalledResult \/ StalledChunk \/ UndeliveredRow \/ UndeliveredChunk
  PROVE  ApartInv' /\ TidyInv'
<1>1. ASSUME NEW p \in Procs, RejectStep(p) PROVE ApartInv' /\ TidyInv'
  <2>1. /\ \A q \in Procs : rid'[q] = rid[q] \/ rid'[q] = NoResult
        /\ todo' = todo
    BY <1>1, OrderlyTypes DEF RejectStep, FailResult, RecordRejection, RepoolAndSlash,
       Move, Finish
  <2> QED
    BY <1>1, <2>1, ApartQuiet, TidyReject
<1>2. ASSUME NEW h \in Handlers, AcceptStep(h) PROVE ApartInv' /\ TidyInv'
  <2>1. /\ \A q \in Procs : rid'[q] = rid[q] \/ rid'[q] = NoResult
        /\ todo' = todo
    BY <1>2, OrderlyTypes DEF AcceptStep, PassResult, AwaitOutputs, AcceptChunk,
       CreditEarnings, CountRemaining, CloseJob, Move, Finish
  <2> QED
    BY <1>2, <2>1, ApartQuiet, TidyAccept
<1>3. ASSUME NEW h \in Handlers,
             InsertResult(h) \/ MarkSubmitted(h) \/ DecideChallenge(h) \/ IssueChallenge(h)
               \/ MarkChallenged(h) \/ MarkVerifying(h)
      PROVE  ApartInv' /\ TidyInv'
  <2>1. /\ \A q \in Procs : rid'[q] = rid[q] \/ rid'[q] = NoResult
        /\ todo' = todo
    BY <1>3, OrderlyTypes DEF InsertResult, MarkSubmitted, DecideChallenge, IssueChallenge,
       MarkChallenged, MarkVerifying, Move, Finish
  <2> QED
    BY <1>3, <2>1, ApartQuiet, TidySubmission
<1>4. ASSUME NEW h \in Handlers,
             StampResponse(h) \/ VerdictTrue(h) \/ VerdictFalse(h) \/ StoreOutputs(h)
      PROVE  ApartInv' /\ TidyInv'
  <2>1. rid' = rid /\ todo' = todo
    BY <1>4 DEF StampResponse, VerdictTrue, VerdictFalse, StoreOutputs, Move
  <2> QED
    BY <1>4, <2>1, ApartQuiet, TidyAnswer
<1>5. CASE StalledResult \/ StalledChunk \/ UndeliveredRow \/ UndeliveredChunk
  <2>1. /\ \A q \in Procs : rid'[q] = rid[q] \/ rid'[q] = NoResult
        /\ todo' = todo
    BY <1>5, OrderlyTypes DEF StalledResult, StalledChunk, UndeliveredRow,
       UndeliveredChunk, Move, EndTurn
  <2> QED
    BY <1>5, <2>1, ApartQuiet, TidyHeal
<1> QED
  BY <1>1, <1>2, <1>3, <1>4, <1>5, OrderlyTypes DEF HandlerStep
-----------------------------------------------------------------------------
(***************************************************************************)
(* The board: each step under OrderlyInv is a step of ChunkBoard or none.   *)
(***************************************************************************)

\* Credits that stay are payments that stay: a credited result is inserted, and
\* keeps its chunk.
LEMMA PaymentsStay ==
  ASSUME OrderlyInv, [Next]_vars, credits' = credits, NEW c \in Chunks
  PROVE  PaidFor(c)' = PaidFor(c)
<1>1. \A r \in Results : credits[r] > 0 => result'[r].chunk = result[r].chunk
  BY RowsLast DEF OrderlyInv, BaseInv, FiledInv, Filed, KeepsRow
<1>2. \A r \in Results : ~(credits[r] > 0) => 1..credits[r] = {}
  <2>1. credits \in [Results -> Nat]
    BY DEF OrderlyInv, BaseInv, TypeInv, RowsOK
  <2> QED
    BY <2>1
<1>3. ASSUME NEW x \in Payments(c) PROVE x \in Payments(c)'
  <2> PICK r \in Results : result[r].chunk = c /\ x \in {r} \X (1..credits[r])
    BY DEF Payments
  <2>1. result'[r].chunk = c /\ x \in {r} \X (1..credits'[r])
    BY <1>1, <1>2
  <2> QED
    BY <2>1 DEF Payments
<1>4. ASSUME NEW x \in Payments(c)' PROVE x \in Payments(c)
  <2> PICK r \in Results : result'[r].chunk = c /\ x \in {r} \X (1..credits'[r])
    BY <1>4 DEF Payments
  <2>1. result[r].chunk = c /\ x \in {r} \X (1..credits[r])
    BY <1>1, <1>2
  <2> QED
    BY <2>1 DEF Payments
<1>5. Payments(c)' = Payments(c)
  BY <1>3, <1>4
<1> QED
  BY <1>5 DEF PaidFor

\* What the board shows stays when every chunk keeps its status and its holder.
LEMMA BoardStays ==
  ASSUME OrderlyInv, [Next]_vars, credits' = credits, job' = job,
         \A c \in Chunks : StatusOf(c)' = StatusOf(c) /\ chunk'[c].holder = chunk[c].holder
  PROVE  UNCHANGED Board!board
<1>1. \A c \in Chunks : PaidFor(c)' = PaidFor(c)
  BY PaymentsStay
<1> QED
  BY <1>1 DEF Board!board

\* A chunk or several go back to the pool.
LEMMA BoardReturn ==
  ASSUME OrderlyInv, [Next]_vars, credits' = credits, job' = job, NEW S \in SUBSET Chunks,
         \A c \in S : StatusOf(c) = "held" /\ chunk'[c].state = "pending"
                                           /\ chunk'[c].holder = NoWorker,
         \A c \in Chunks \ S : chunk'[c] = chunk[c]
  PROVE  Board!Next
<1>1. \A c \in Chunks : PaidFor(c)' = PaidFor(c)
  BY PaymentsStay
<1>2. \A c \in S : StatusOf(c)' = "open"
  BY DEF StatusOf
<1>3. \A c \in Chunks \ S : StatusOf(c)' = StatusOf(c)
  BY DEF StatusOf
<1>4. Board!Return(S)
  BY <1>1, <1>2, <1>3 DEF Board!Return
<1> QED
  BY <1>4 DEF Board!Next

\* A chunk or several are given up.
LEMMA BoardDrop ==
  ASSUME OrderlyInv, [Next]_vars, credits' = credits, job' = job, NEW S \in SUBSET Chunks,
         \A c \in S : StatusOf(c) = "held" /\ chunk'[c].state = "quarantined"
                                           /\ chunk'[c].holder = NoWorker,
         \A c \in Chunks \ S : chunk'[c] = chunk[c]
  PROVE  Board!Next
<1>1. \A c \in Chunks : PaidFor(c)' = PaidFor(c)
  BY PaymentsStay
<1>2. \A c \in S : StatusOf(c)' = "dropped"
  BY DEF StatusOf
<1>3. \A c \in Chunks \ S : StatusOf(c)' = StatusOf(c)
  BY DEF StatusOf
<1>4. Board!Drop(S)
  BY <1>1, <1>2, <1>3 DEF Board!Drop
<1> QED
  BY <1>4 DEF Board!Next

\* A chunk is handed out: it was in the pool, so the job is not closed.
LEMMA BoardTake ==
  ASSUME OrderlyInv, [Next]_vars, NEW h \in Handlers, LeaseTx(h)
  PROVE  Board!Next \/ UNCHANGED Board!board
<1>0. credits' = credits /\ job' = job
  BY DEF LeaseTx
<1>1. CASE UNCHANGED chunk
  BY <1>0, <1>1, BoardStays DEF StatusOf
<1>2. ASSUME NEW c \in Pending,
             chunk' = [chunk EXCEPT ![c] =
                        [state |-> "leased", holder |-> who[h], live |-> TRUE,
                         attempts |-> @.attempts]]
      PROVE  Board!Next
  <2>1. c \in Chunks /\ chunk[c].state = "pending"
    BY DEF Pending
  <2>2. job # "closed"
    BY <2>1 DEF OrderlyInv, OverInv, Over
  <2>3. PICK w \in Workers : w = who[h]
    BY DEF LeaseTx, OrderlyInv, BaseInv, ControlInv
  <2>4. \A d \in Chunks : PaidFor(d)' = PaidFor(d)
    BY <1>0, PaymentsStay
  <2>5. chunk'[c].state = "leased" /\ chunk'[c].holder = w
    BY <1>2, <2>1, <2>3, OrderlyTypes
  <2>6. StatusOf(c) = "open" /\ StatusOf(c)' = "held"
    BY <2>1, <2>5 DEF StatusOf
  <2>7. \A d \in Chunks \ {c} : chunk'[d] = chunk[d]
    BY <1>2, OrderlyTypes
  <2>8. \A d \in Chunks \ {c} : StatusOf(d)' = StatusOf(d)
    BY <2>7 DEF StatusOf
  <2>9. Board!Take(c, w)
    BY <1>0, <2>1, <2>2, <2>4, <2>5, <2>6, <2>7, <2>8 DEF Board!Take
  <2> QED
    BY <2>1, <2>9 DEF Board!Next
<1> QED
  BY <1>1, <1>2 DEF LeaseTx

\* A chunk is done.
LEMMA BoardComplete ==
  ASSUME OrderlyInv, [Next]_vars, NEW p \in Procs, AcceptChunk(p)
  PROVE  Board!Next
<1> DEFINE c == ChunkOf(p)
<1>0. /\ pc[p] = "accept" /\ credits' = credits /\ job' = job
      /\ SetChunk(c, "accepted")
  BY DEF AcceptChunk, Move
<1>1. c \in Chunks /\ chunk[c].state \in HeldBack
  BY <1>0, RowFacts DEF Between, Place, Leased
<1> HIDE DEF c
<1>2. /\ chunk'[c].state = "accepted" /\ chunk'[c].holder = chunk[c].holder
      /\ \A d \in Chunks \ {c} : chunk'[d] = chunk[d]
  BY <1>0, <1>1, OrderlyTypes DEF SetChunk, ChunkRows
<1>3. \A d \in Chunks : PaidFor(d)' = PaidFor(d)
  BY <1>0, PaymentsStay
<1> QED
  BY <1>0, <1>1, <1>2, <1>3 DEF Board!Next, Board!Complete, StatusOf, HeldBack

\* A chunk is paid for: nothing was credited for it before, since its process
\* would not be about to.
LEMMA BoardPay ==
  ASSUME OrderlyInv, NEW p \in Procs, CreditEarnings(p), NEW r, r = rid[p], NEW c, c = ChunkOf(p)
  PROVE  Board!Next
<1>t. /\ credits \in [Results -> Nat] /\ r \in Results /\ c \in Chunks
      /\ chunk[c].state = "accepted" /\ At(p, c) /\ pc[p] = "credit"
  <2>1. pc[p] = "credit" /\ pc[p] \notin Between
    BY DEF CreditEarnings, Move, Between
  <2> QED
    BY <2>1, RowFacts DEF OrderlyInv, BaseInv, TypeInv, RowsOK, Place, Leased
<1>0. /\ credits' = [credits EXCEPT ![r] = @ + 1]
      /\ UNCHANGED <<chunk, result, job>>
  BY DEF CreditEarnings
<1>1. \A q \in Results : result[q].chunk = c => credits[q] = 0
  <2> SUFFICES ASSUME NEW q \in Results, result[q].chunk = c, credits[q] # 0
               PROVE  FALSE
    OBVIOUS
  <2>1. credits[q] > 0
    BY <1>t
  <2>2. Of(q, c)
    BY <2>1 DEF OrderlyInv, BaseInv, FiledInv, Of
  <2>3. Tidy(c)
    BY <1>t DEF OrderlyInv, TidyInv
  <2> QED
    BY <1>t, <2>1, <2>2, <2>3 DEF Tidy, CreditedOnce
<1>2. result[r].chunk = c
  BY DEF ChunkOf
<1>3. Payments(c) = {}
  <2>1. ASSUME NEW q \in Results, result[q].chunk = c PROVE {q} \X (1..credits[q]) = {}
    <3>1. credits[q] = 0
      BY <1>1, <2>1
    <3>2. 1..credits[q] = {}
      BY <3>1
    <3> QED
      BY <3>2
  <2> QED
    BY <2>1 DEF Payments
<1>4. Payments(c)' = {<<r, 1>>}
  <2>1. /\ \A q \in Results : result'[q].chunk = result[q].chunk
        /\ \A q \in Results \ {r} : credits'[q] = credits[q]
        /\ credits'[r] = 1
    BY <1>0, <1>1, <1>2, <1>t
  <2>2. 1..credits'[r] = {1}
    BY <2>1
  <2>3. <<r, 1>> \in Payments(c)'
    BY <1>2, <1>t, <2>1, <2>2 DEF Payments
  <2>4. ASSUME NEW x \in Payments(c)' PROVE x = <<r, 1>>
    <3> PICK q \in Results : result'[q].chunk = c /\ x \in {q} \X (1..credits'[q])
      BY <2>4 DEF Payments
    <3>1. q # r => credits'[q] = 0
      BY <1>1, <2>1
    <3>2. q # r => 1..credits'[q] = {}
      BY <3>1
    <3> QED
      BY <2>2, <3>2
  <2> QED
    BY <2>3, <2>4
<1>5. PaidFor(c) = 0 /\ PaidFor(c)' = 1
  BY <1>3, <1>4, FS_EmptySet, FS_Singleton DEF PaidFor
<1>6. ASSUME NEW d \in Chunks \ {c} PROVE PaidFor(d)' = PaidFor(d)
  <2>1. \A q \in Results : /\ result'[q].chunk = result[q].chunk
                           /\ result[q].chunk = d => credits'[q] = credits[q]
    BY <1>0, <1>2, <1>t
  <2>2. Payments(d)' = Payments(d)
    BY <2>1 DEF Payments
  <2> QED
    BY <2>2 DEF PaidFor
<1>7. StatusOf(c) = "done" /\ \A d \in Chunks : StatusOf(d)' = StatusOf(d)
  BY <1>0, <1>t DEF StatusOf
<1>8. Board!Pay(c)
  BY <1>0, <1>5, <1>6, <1>7, <1>t DEF Board!Pay
<1> QED
  BY <1>8, <1>t DEF Board!Next

\* The job closes: its count found no chunk left, and none comes back.
LEMMA BoardClose ==
  ASSUME OrderlyInv, [Next]_vars, NEW p \in Procs, CloseJob(p)
  PROVE  Board!Next
<1>1. pc[p] = "close" /\ job' = "closed" /\ UNCHANGED <<chunk, credits>>
  BY DEF CloseJob, Finish
<1>2. \A c \in Chunks : PaidFor(c)' = PaidFor(c)
  BY <1>1, PaymentsStay
<1>3. \A c \in Chunks : StatusOf(c) \in {"done", "dropped"} /\ StatusOf(c)' = StatusOf(c)
  BY <1>1 DEF OrderlyInv, OverInv, Over, StatusOf
<1>4. Board!Close
  BY <1>1, <1>2, <1>3 DEF Board!Close
<1> QED
  BY <1>4 DEF Board!Next

\* The steps that change no chunk, no credit and no job.
LEMMA BoardQuiet ==
  ASSUME OrderlyInv, [Next]_vars, credits' = credits, job' = job, chunk' = chunk
  PROVE  UNCHANGED Board!board
BY BoardStays DEF StatusOf

\* A chunk held goes from one stage of its verification to the next.
LEMMA BoardHolds ==
  ASSUME OrderlyInv, [Next]_vars, credits' = credits, job' = job,
         NEW c \in Chunks, NEW s \in HeldBack, SetChunk(c, s),
         chunk[c].state \in HeldBack \cup {"leased"}
  PROVE  UNCHANGED Board!board
<1>1. /\ chunk'[c].state = s /\ chunk'[c].holder = chunk[c].holder
      /\ \A d \in Chunks \ {c} : chunk'[d] = chunk[d]
  BY OrderlyTypes DEF SetChunk, ChunkRows
<1>2. \A d \in Chunks : StatusOf(d)' = StatusOf(d) /\ chunk'[d].holder = chunk[d].holder
  BY <1>1 DEF StatusOf, HeldBack
<1> QED
  BY <1>2, BoardStays

\* A chunk held goes back to the pool, with or without an attempt counted.
LEMMA BoardPooled ==
  ASSUME OrderlyInv, [Next]_vars, credits' = credits, job' = job,
         NEW c \in Chunks, NEW n, chunk' = [chunk EXCEPT ![c] = Pooled(c, n)],
         chunk[c].state \in HeldBack
  PROVE  Board!Next
<1>1. /\ chunk'[c].state = "pending" /\ chunk'[c].holder = NoWorker
      /\ \A d \in Chunks \ {c} : chunk'[d] = chunk[d]
  BY OrderlyTypes DEF Pooled
<1>2. StatusOf(c) = "held"
  BY DEF StatusOf, HeldBack
<1>3. PICK S \in SUBSET Chunks : S = {c}
  OBVIOUS
<1> QED
  BY <1>1, <1>2, <1>3, BoardReturn

\* The sweeper's two lease statements, each over all chunks at once.
LEMMA BoardLeases ==
  ASSUME OrderlyInv, [Next]_vars, Quarantine \/ Reclaim
  PROVE  Board!Next
<1>0. credits' = credits /\ job' = job
  BY DEF Quarantine, Reclaim
<1>1. \A c \in Chunks : Expired(c) => StatusOf(c) = "held"
  BY DEF Expired, StatusOf
<1>2. CASE Quarantine
  <2> DEFINE S == {c \in Chunks : Expired(c) /\ chunk[c].attempts >= QuarantineAt}
  <2>1. /\ \A c \in S : chunk'[c].state = "quarantined" /\ chunk'[c].holder = NoWorker
        /\ \A c \in Chunks \ S : chunk'[c] = chunk[c]
    BY <1>2, OrderlyTypes DEF Quarantine, TooOften, ChunkRows
  <2>2. S \in SUBSET Chunks /\ \A c \in S : StatusOf(c) = "held"
    BY <1>1
  <2> HIDE DEF S
  <2> QED
    BY <1>0, <2>1, <2>2, BoardDrop
<1>3. CASE Reclaim
  <2> DEFINE S == {c \in Chunks : Expired(c)}
  <2>1. /\ \A c \in S : chunk'[c].state = "pending" /\ chunk'[c].holder = NoWorker
        /\ \A c \in Chunks \ S : chunk'[c] = chunk[c]
    BY <1>3, OrderlyTypes DEF Reclaim, Pooled
  <2>2. S \in SUBSET Chunks /\ \A c \in S : StatusOf(c) = "held"
    BY <1>1
  <2> HIDE DEF S
  <2> QED
    BY <1>0, <2>1, <2>2, BoardReturn
<1> QED
  BY <1>2, <1>3

\* Every step of the handlers and the sweeper is one of the board, or none.
LEMMA BoardStep ==
  ASSUME OrderlyInv, [Next]_vars
  PROVE  Board!Next \/ UNCHANGED Board!board
<1> DEFINE Goal == Board!Next \/ UNCHANGED Board!board
<1> USE DEF Between, Place, Leased, Verified, HeldBack
<1>1. CASE UNCHANGED vars
  BY <1>1, BoardQuiet DEF vars, rows
<1>2. ASSUME NEW h \in Handlers, Request(h) PROVE Goal
  BY <1>2, BoardQuiet DEF Request, StartLease, StartSubmit, StartRespond, StartDeliver, rows
<1>3. ASSUME NEW h \in Handlers, LeaseTx(h) PROVE Goal
  BY <1>3, BoardTake
<1>4. ASSUME NEW h \in Handlers,
             \/ InsertResult(h) \/ DecideChallenge(h) \/ IssueChallenge(h)
             \/ MarkChallenged(h) \/ StampResponse(h) \/ VerdictTrue(h)
             \/ VerdictFalse(h) \/ StoreOutputs(h)
      PROVE  Goal
  BY <1>4, BoardQuiet DEF InsertResult, DecideChallenge, IssueChallenge, MarkChallenged,
     StampResponse, VerdictTrue, VerdictFalse, StoreOutputs, rows
<1>5. ASSUME NEW h \in Handlers, MarkSubmitted(h) PROVE Goal
  <2>1. pc[h] = "markSubmitted"
    BY <1>5 DEF MarkSubmitted, Move
  <2>2. ChunkOf(h) \in Chunks /\ chunk[ChunkOf(h)].state = "leased"
    BY <2>1, RowFacts, OrderlyTypes
  <2> QED
    BY <1>5, <2>2, BoardHolds DEF MarkSubmitted
<1>6. ASSUME NEW h \in Handlers, MarkVerifying(h) PROVE Goal
  <2>1. pc[h] = "markVerifying"
    BY <1>6 DEF MarkVerifying, Finish
  <2>2. ChunkOf(h) \in Chunks /\ chunk[ChunkOf(h)].state = "submitted"
    BY <2>1, RowFacts, OrderlyTypes
  <2> QED
    BY <1>6, <2>2, BoardHolds DEF MarkVerifying
<1>7. ASSUME NEW h \in Handlers, AcceptStep(h) PROVE Goal
  <2>0. h \in Procs
    BY OrderlyTypes
  <2>1. CASE PassResult(h) \/ CountRemaining(h)
    BY <2>1, BoardQuiet DEF PassResult, CountRemaining, rows
  <2>2. CASE AwaitOutputs(h)
    <3>1. pc[h] = "awaitOutputs"
      BY <2>2 DEF AwaitOutputs, Finish
    <3>2. ChunkOf(h) \in Chunks /\ chunk[ChunkOf(h)].state \in Verified
      BY <2>0, <3>1, RowFacts
    <3> QED
      BY <2>2, <3>2, BoardHolds DEF AwaitOutputs
  <2>3. CASE AcceptChunk(h)
    BY <2>0, <2>3, BoardComplete
  <2>4. CASE CreditEarnings(h)
    BY <2>0, <2>4, BoardPay
  <2>5. CASE CloseJob(h)
    BY <2>0, <2>5, BoardClose
  <2> QED
    BY <1>7, <2>1, <2>2, <2>3, <2>4, <2>5 DEF AcceptStep
<1>8. ASSUME NEW p \in Procs, RejectStep(p) PROVE Goal
  <2>1. CASE FailResult(p) \/ RecordRejection(p)
    BY <2>1, BoardQuiet DEF FailResult, RecordRejection
  <2>2. CASE RepoolAndSlash(p)
    <3>1. pc[p] = "repool"
      BY <2>2 DEF RepoolAndSlash, Finish
    <3>2. ChunkOf(p) \in Chunks /\ chunk[ChunkOf(p)].state \in Verified
      BY <3>1, RowFacts
    <3> QED
      BY <2>2, <3>2, BoardPooled DEF RepoolAndSlash
  <2> QED
    BY <1>8, <2>1, <2>2 DEF RejectStep
<1>9. CASE \/ SelectUnanswered \/ SelectStalled \/ SelectUndelivered
           \/ \E r \in Results : ExpireChallenge(r) \/ HealStalled(r) \/ ExpireDelivery(r)
           \/ StalledResult \/ UndeliveredRow
  BY <1>9, BoardQuiet DEF SelectUnanswered, SelectStalled, SelectUndelivered, Select,
     ExpireChallenge, HealStalled, ExpireDelivery, StalledResult, UndeliveredRow, rows
<1>10. CASE StalledChunk
  <2>1. pc[Sweeper] = "stalledChunk"
    BY <1>10 DEF StalledChunk, EndTurn
  <2>2. ChunkOf(Sweeper) \in Chunks /\ chunk[ChunkOf(Sweeper)].state \in Verified
    BY <2>1, RowFacts, OrderlyTypes
  <2> QED
    BY <1>10, <2>2, BoardPooled DEF StalledChunk
<1>11. CASE UndeliveredChunk
  <2>1. pc[Sweeper] = "undeliveredChunk"
    BY <1>11 DEF UndeliveredChunk, EndTurn
  <2>2. ChunkOf(Sweeper) \in Chunks /\ chunk[ChunkOf(Sweeper)].state = "awaiting_outputs"
    BY <2>1, RowFacts, OrderlyTypes
  <2> QED
    BY <1>11, <2>2, BoardPooled DEF UndeliveredChunk
<1>12. CASE Quarantine \/ Reclaim
  BY <1>12, BoardLeases
<1>13. ASSUME NEW c \in Chunks, LeaseExpires(c) PROVE Goal
  <2>1. /\ chunk' = [chunk EXCEPT ![c].live = FALSE]
        /\ credits' = credits /\ job' = job
    BY <1>13 DEF LeaseExpires
  <2>2. \A d \in Chunks : chunk'[d].state = chunk[d].state /\ chunk'[d].holder = chunk[d].holder
    BY <2>1, OrderlyTypes DEF ChunkRows
  <2> QED
    BY <2>1, <2>2, BoardStays DEF StatusOf
<1>14. ASSUME NEW r \in Results, NEW k \in Windows, WindowElapses(r, k) PROVE Goal
  BY <1>14, BoardQuiet DEF WindowElapses, rows
<1>15. ASSUME NEW p \in Procs, ProcessFails(p) PROVE Goal
  BY <1>15, BoardQuiet DEF ProcessFails
<1> QED
  BY <1>1, <1>2, <1>3, <1>4, <1>5, <1>6, <1>7, <1>8, <1>9, <1>10, <1>11, <1>12, <1>13,
     <1>14, <1>15, OrderlyTypes
     DEF Next, HandlerStep, SweepStep, TimePasses

\* What is done or given up on the board stays so.
LEMMA OverLasts ==
  ASSUME OrderlyInv, [Next]_vars, NEW c \in Chunks, chunk[c].state \in Over
  PROVE  chunk'[c].state \in Over
<1>1. StatusOf(c) \in {"done", "dropped"}
  BY DEF StatusOf, Over
<1>2. Board!Next \/ UNCHANGED Board!board
  BY BoardStep
<1>3. CASE UNCHANGED Board!board
  <2>1. StatusOf(c)' = StatusOf(c)
    BY <1>3 DEF Board!board
  <2> QED
    BY <1>1, <2>1 DEF StatusOf, Over
<1>4. CASE Board!Next
  <2>1. StatusOf(c)' \in {"done", "dropped"}
    BY <1>1, <1>4 DEF Board!Next, Board!Take, Board!Complete, Board!Pay, Board!Return,
       Board!Drop, Board!Close
  <2> QED
    BY <2>1 DEF StatusOf, Over
<1> QED
  BY <1>2, <1>3, <1>4

\* While a chunk is left, no process is sent on to close the job.
LEMMA NoneCloses ==
  ASSUME OrderlyInv, [Next]_vars, job # "closed", \A p \in Procs : pc[p] # "close",
         \E c \in Chunks : chunk[c].state \in InFlight
  PROVE  job' # "closed" /\ \A p \in Procs : pc'[p] # "close"
<1> DEFINE Goal == job' # "closed" /\ \A p \in Procs : pc'[p] # "close"
<1>t. /\ pc \in [Procs -> Steps] /\ Handlers \subseteq Procs /\ Sweeper \in Procs
      /\ Sweeper \notin Handlers
  BY OrderlyTypes
<1>1. ASSUME NEW h \in Handlers, Request(h) PROVE Goal
  BY <1>1, <1>t DEF Request, StartLease, StartSubmit, StartRespond, StartDeliver, Begin, rows
<1>2. ASSUME NEW h \in Handlers,
             \/ LeaseTx(h) \/ InsertResult(h) \/ MarkSubmitted(h) \/ DecideChallenge(h)
             \/ IssueChallenge(h) \/ MarkChallenged(h) \/ MarkVerifying(h)
      PROVE  Goal
  BY <1>2, <1>t DEF LeaseTx, InsertResult, MarkSubmitted, DecideChallenge, IssueChallenge,
     MarkChallenged, MarkVerifying, Move, Finish, rows
<1>3. ASSUME NEW h \in Handlers,
             StampResponse(h) \/ VerdictTrue(h) \/ VerdictFalse(h) \/ StoreOutputs(h)
      PROVE  Goal
  BY <1>3, <1>t DEF StampResponse, VerdictTrue, VerdictFalse, StoreOutputs, Move
<1>4. ASSUME NEW p \in Procs, AcceptStep(p) PROVE Goal
  BY <1>4, <1>t DEF AcceptStep, PassResult, AwaitOutputs, AcceptChunk, CreditEarnings,
     CountRemaining, CloseJob, Move, Finish, rows
<1>5. ASSUME NEW p \in Procs, RejectStep(p) PROVE Goal
  BY <1>5, <1>t DEF RejectStep, FailResult, RecordRejection, RepoolAndSlash, Move, Finish
<1>6. CASE SelectUnanswered \/ SelectStalled \/ SelectUndelivered
  BY <1>6, <1>t DEF SelectUnanswered, SelectStalled, SelectUndelivered, Select, rows
<1>7. ASSUME NEW r \in Results, ExpireChallenge(r) \/ HealStalled(r) \/ ExpireDelivery(r)
      PROVE  Goal
  BY <1>7, <1>t DEF ExpireChallenge, HealStalled, ExpireDelivery, Turn
<1>8. CASE StalledResult \/ StalledChunk \/ UndeliveredRow \/ UndeliveredChunk
  BY <1>8, <1>t DEF StalledResult, StalledChunk, UndeliveredRow, UndeliveredChunk, Move, EndTurn
<1>9. CASE Quarantine \/ Reclaim
  BY <1>9, <1>t DEF Quarantine, Reclaim, Move
<1>10. CASE TimePasses \/ UNCHANGED vars
  BY <1>10, <1>t DEF TimePasses, LeaseExpires, WindowElapses, vars, rows, procs
<1>11. ASSUME NEW p \in Procs, ProcessFails(p) PROVE Goal
  BY <1>11, <1>t DEF ProcessFails
<1> QED
  BY <1>1, <1>2, <1>3, <1>4, <1>5, <1>6, <1>7, <1>8, <1>9, <1>10, <1>11, <1>t
     DEF Next, HandlerStep, SweepStep

LEMMA OverStep == OrderlyInv /\ [Next]_vars => OverInv'
<1> SUFFICES ASSUME OrderlyInv, [Next]_vars,
                    job' = "closed" \/ \E p \in Procs : pc'[p] = "close",
                    NEW c \in Chunks
             PROVE  chunk'[c].state \in Over
  BY DEF OverInv
<1>1. CASE job = "closed" \/ \E p \in Procs : pc[p] = "close"
  <2>1. chunk[c].state \in Over
    BY <1>1 DEF OrderlyInv, OverInv
  <2> QED
    BY <2>1, OverLasts
<1>2. CASE job # "closed" /\ \A p \in Procs : pc[p] # "close"
  <2>1. chunk[c].state \notin InFlight
    BY <1>2, NoneCloses
  <2>2. chunk[c].state \in Over
    BY <2>1, OrderlyTypes DEF ChunkRows, InFlight, Over
  <2> QED
    BY <2>2, OverLasts
<1> QED
  BY <1>1, <1>2

LEMMA OrderlyInit == Init => OrderlyInv
<1> SUFFICES ASSUME Init PROVE OrderlyInv
  OBVIOUS
<1>1. BaseInv
  BY TypeInvInit, FiledInit, ControlInit DEF BaseInv
<1>2. /\ \A p \in Procs : rid[p] = NoResult /\ pc[p] = "idle"
      /\ todo = {} /\ job = "open"
      /\ \A r \in Results : ~Filed(r) /\ challenge[r].passed = "none"
  BY DEF Init, Filed, FreeRow
<1>3. ApartInv /\ OverInv
  BY <1>2 DEF ApartInv, OverInv, At
<1>4. TidyInv
  BY <1>2 DEF TidyInv, Tidy, Placed, Asked, PassedOnce, CreditedOnce, Listed, At, Of
<1> QED
  BY <1>1, <1>3, <1>4 DEF OrderlyInv

LEMMA OrderlyStep ==
  ASSUME OrderlyInv, [Next]_vars, ~overlapped'
  PROVE  OrderlyInv'
<1>1. BaseInv'
  BY TypeInvStep, FiledStep, ControlStep DEF OrderlyInv, BaseInv
<1>2. OverInv'
  BY OverStep
<1>3. ApartInv' /\ TidyInv'
  <2>1. CASE \E h \in Handlers : Request(h)
    BY <2>1, RequestsApart
  <2>2. CASE \E h \in Handlers : HandlerStep(h)
    BY <2>2, LeasesApart, RowStepsApart
  <2>3. CASE SweepStep
    BY <2>3, LoopsApart, LeasesApart, RowStepsApart, OrderlyTypes DEF SweepStep
  <2>4. CASE TimePasses \/ UNCHANGED vars
    BY <2>4, LeasesApart, FailuresApart DEF TimePasses
  <2>5. CASE \E p \in Procs : ProcessFails(p)
    BY <2>5, FailuresApart
  <2> QED
    BY <2>1, <2>2, <2>3, <2>4, <2>5 DEF Next
<1> QED
  BY <1>1, <1>2, <1>3 DEF OrderlyInv

\* An overlap is not forgotten.
LEMMA OverlapLasts ==
  ASSUME BaseInv, [Next]_vars, ~overlapped'
  PROVE  ~overlapped
<1> USE DEF history, marks
<1>t. Handlers \subseteq Procs /\ Sweeper \in Procs
  BY DEF Procs
<1>1. ASSUME NEW h \in Handlers, Request(h) PROVE ~overlapped
  BY <1>1 DEF Request, StartLease, StartSubmit, StartRespond, StartDeliver, TakesUp
<1>2. ASSUME NEW p \in Procs, AcceptStep(p) \/ RejectStep(p) PROVE ~overlapped
  BY <1>2 DEF AcceptStep, PassResult, AwaitOutputs, AcceptChunk, CreditEarnings,
     CountRemaining, CloseJob, RejectStep, FailResult, RecordRejection, RepoolAndSlash
<1>3. ASSUME NEW h \in Handlers, HandlerStep(h) PROVE ~overlapped
  BY <1>2, <1>3, <1>t DEF HandlerStep, LeaseTx, InsertResult, MarkSubmitted,
     DecideChallenge, IssueChallenge, MarkChallenged, MarkVerifying, StampResponse,
     VerdictTrue, VerdictFalse, StoreOutputs
<1>4. CASE SweepStep
  BY <1>2, <1>4, <1>t DEF SweepStep, SelectUnanswered, ExpireChallenge,
     SelectStalled, HealStalled, StalledResult, StalledChunk, SelectUndelivered,
     ExpireDelivery, UndeliveredRow, UndeliveredChunk, Quarantine, Reclaim, Select, TakesUp
<1>5. CASE TimePasses \/ \E p \in Procs : ProcessFails(p)
  BY <1>5 DEF TimePasses, LeaseExpires, WindowElapses, ProcessFails
<1>6. CASE UNCHANGED vars
  BY <1>6 DEF vars
<1> QED
  BY <1>1, <1>3, <1>4, <1>5, <1>6 DEF Next

\* In order until the first overlap.
OrderInv == BaseInv /\ (~overlapped => OrderlyInv)

LEMMA OrderStep == OrderInv /\ [Next]_vars => OrderInv'
<1> SUFFICES ASSUME OrderInv, [Next]_vars PROVE OrderInv'
  OBVIOUS
<1>1. BaseInv'
  BY TypeInvStep, FiledStep, ControlStep DEF OrderInv, BaseInv
<1>2. ASSUME ~overlapped' PROVE OrderlyInv'
  BY <1>2, OverlapLasts, OrderlyStep DEF OrderInv
<1> QED
  BY <1>1, <1>2 DEF OrderInv

LEMMA OrderInvariance == Spec => []OrderInv
<1>1. Init => OrderInv
  BY OrderlyInit DEF OrderInv, OrderlyInv
<1> QED
  BY <1>1, OrderStep, PTL DEF Spec

\* What the creator of the bounty is promised (ChunkBoard) holds of the handlers
\* and the sweeper up to the first time that a chunk is taken up while another
\* is busy with it, for any number of chunks, workers, handlers and failures:
\* verifySubmission, judgeChallengeResponse, deliverOutputs, acceptResult,
\* rejectResult and the sweeper's statements are steps of the board or change
\* nothing on it.  Any two activities on different chunks may interleave, and a
\* lease or a window may run out in the middle of one.
THEOREM PromiseIsKept == Spec => KeepsPromise
<1>1. Init => Board!Init
  <2> SUFFICES ASSUME Init PROVE Board!Init
    OBVIOUS
  <2>1. \A c \in Chunks : StatusOf(c) = "open" /\ chunk[c].holder = NoWorker
    BY DEF Init, StatusOf
  <2>2. ASSUME NEW c \in Chunks PROVE PaidFor(c) = 0
    <3>1. \A r \in Results : 1..credits[r] = {}
      BY DEF Init
    <3>2. Payments(c) = {}
      BY <3>1 DEF Payments
    <3> QED
      BY <3>2, FS_EmptySet DEF PaidFor
  <2>3. job = "open"
    BY DEF Init
  <2> QED
    BY <2>1, <2>2, <2>3 DEF Board!Init
<1>2. OrderInv /\ [Next]_vars => [~overlapped' => [Board!Next]_(Board!board)]_vars
  BY BoardStep, OverlapLasts DEF OrderInv
<1> QED
  BY <1>1, <1>2, OrderInvariance, PTL DEF Spec, KeepsPromise

-----------------------------------------------------------------------------
(***************************************************************************)
(* Leases.                                                                 *)
(*                                                                         *)
(* A result that was submitted under the lease that runs is on its way to  *)
(* the update that ends the lease, and nothing else knows of it yet: this  *)
(* holds however activities overlap.  What else reaches a leased chunk     *)
(* works on a result of an earlier lease, and OldInv says that until two   *)
(* activities overlap no such result is on its way.                        *)
(***************************************************************************)

Latest(r, c) ==
    /\ result[r].worker = chunk[c].holder
    /\ challenge[r].passed # "null"
    /\ result[r].state # "passed"
    /\ r \notin told /\ r \notin todo
    /\ \A p \in Procs : rid[p] = r => pc[p] \in Leased

LatestInv == \A c \in Chunks : \A r \in FiledFor(c) \ superseded :
                chunk[c].state = "leased" => Latest(r, c)

\* A row that is not inserted yet has one process.
SoleInv == \A p, q \in Procs :
    rid[p] \in Results /\ rid[p] = rid[q] /\ ~Filed(rid[p]) => p = q

OldInv == ~overlapped => \A p \in Procs : rid[p] \in superseded => pc[p] \notin Leased

LeaseInv == OrderInv /\ SoleInv /\ LatestInv /\ OldInv

\* What the types say of the tables and the processes.
LEMMA LeaseTypes ==
  ASSUME BaseInv
  PROVE  /\ pc \in [Procs -> Steps] /\ rid \in [Procs -> Results \cup {NoResult}]
         /\ chunk \in [Chunks -> ChunkRows] /\ result \in [Results -> ResultRows]
         /\ challenge \in [Results -> ChallengeRows]
         /\ Handlers \subseteq Procs /\ Sweeper \in Procs /\ Sweeper \notin Handlers
         /\ \A c \in Chunks : chunk[c] \in ChunkRows
         /\ \A r \in Results : result[r] \in ResultRows
         /\ superseded \subseteq Results
         /\ \A p \in Procs : pc[p] \notin Between => rid[p] \in Results /\ ChunkOf(p) \in Chunks
         /\ \A p \in Procs : pc[p] \in Between => rid[p] = NoResult
         /\ \A p \in Procs : pc[p] \notin Unfiled => Filed(rid[p])
<1>1. /\ pc \in [Procs -> Steps] /\ rid \in [Procs -> Results \cup {NoResult}]
      /\ chunk \in [Chunks -> ChunkRows] /\ result \in [Results -> ResultRows]
      /\ challenge \in [Results -> ChallengeRows] /\ superseded \subseteq Results
  BY DEF BaseInv, TypeInv, ProcsInv, ProcsOK, RowsOK, HistoryOK
<1>2. /\ \A c \in Chunks : chunk[c] \in ChunkRows
      /\ \A r \in Results : result[r] \in ResultRows
  BY <1>1
<1>3. \A p \in Procs : pc[p] \notin Between => rid[p] \in Results /\ ChunkOf(p) \in Chunks
  BY RowHeld DEF BaseInv, TypeInv
<1>4. /\ \A p \in Procs : pc[p] \in Between => rid[p] = NoResult
      /\ \A p \in Procs : pc[p] \notin Unfiled => Filed(rid[p])
  BY DEF BaseInv, ControlInv, FiledInv
<1>5. Handlers \subseteq Procs /\ Sweeper \in Procs /\ Sweeper \notin Handlers
  BY DEF Procs
<1> QED
  BY <1>1, <1>2, <1>3, <1>4, <1>5

\* A result of the running lease is left as it is by a step about another
\* result x.
LEMMA LatestElsewhere ==
  ASSUME BaseInv, LatestInv, [Next]_vars, NEW c \in Chunks, NEW r \in Results, NEW x,
         chunk'[c].state = "leased", r \in FiledFor(c)' \ superseded',
         chunk[c].state = "leased", chunk'[c].holder = chunk[c].holder,
         superseded' = superseded,
         Latest(r, c) => x # r,
         x = r => Filed(r),
         \A q \in Results : q # x =>
           result'[q] = result[q] /\ challenge'[q].passed = challenge[q].passed,
         \A q \in told' \cup todo' :
           q \in told \cup todo \cup {x} \/ challenge[q].passed = "null"
             \/ result[q].state = "passed",
         \A p \in Procs : rid'[p] \in Results =>
           rid'[p] = x \/ (rid'[p] = rid[p] /\ pc'[p] = pc[p])
  PROVE  Latest(r, c)'
<1>1. /\ Filed(r) => result'[r].chunk = result[r].chunk
      /\ x # r => result'[r] = result[r]
  BY RowsLast DEF BaseInv, Filed, KeepsRow
<1>2. result'[r].chunk = c /\ (Filed(r)' \/ \E p \in Procs : rid'[p] = r)
  BY DEF FiledFor, Filed
<1>3. result[r].chunk = c
  BY <1>1, <1>2
<1>4. Filed(r) \/ \E p \in Procs : rid[p] = r
  BY <1>1, <1>2 DEF Filed
<1>5. r \in FiledFor(c) \ superseded
  BY <1>3, <1>4 DEF FiledFor, Filed
<1>6. Latest(r, c)
  BY <1>5 DEF LatestInv
<1>7. x # r /\ result'[r] = result[r] /\ challenge'[r].passed = challenge[r].passed
  BY <1>6
<1>8. r \notin told' /\ r \notin todo'
  BY <1>6, <1>7 DEF Latest
<1>9. ASSUME NEW p \in Procs, rid'[p] = r PROVE pc'[p] \in Leased
  BY <1>6, <1>7, <1>9 DEF Latest
<1> QED
  BY <1>6, <1>7, <1>8, <1>9 DEF Latest

\* A step of a process that is past the submission of its row.
LEMMA LatestLater ==
  ASSUME BaseInv, LatestInv, [Next]_vars, NEW c \in Chunks, NEW r \in Results,
         chunk'[c].state = "leased", r \in FiledFor(c)' \ superseded',
         NEW p \in Procs, pc[p] \notin Unfiled \cup Leased,
         chunk' = chunk \/ \E row \in ChunkRows : /\ row.state # "leased"
                                                  /\ chunk' = [chunk EXCEPT ![ChunkOf(p)] = row],
         superseded' = superseded,
         \A q \in Results : q # rid[p] =>
           result'[q] = result[q] /\ challenge'[q].passed = challenge[q].passed,
         told' \subseteq told \cup {rid[p]}, todo' = todo,
         \A q \in Procs \ {p} : rid'[q] = rid[q] /\ pc'[q] = pc[q],
         rid'[p] \in {rid[p], NoResult}
  PROVE  Latest(r, c)'
<1>1. rid[p] \in Results /\ Filed(rid[p]) /\ ChunkOf(p) \in Chunks
  BY LeaseTypes DEF Unfiled
<1>2. chunk'[c] = chunk[c]
  BY <1>1, LeaseTypes
<1>3. Latest(r, c) => rid[p] # r
  BY DEF Latest
<1>4. rid[p] = r => Filed(r)
  BY <1>1
<1>5. \A q \in Procs : rid'[q] \in Results =>
        rid'[q] = rid[p] \/ (rid'[q] = rid[q] /\ pc'[q] = pc[q])
  OBVIOUS
<1>6. \A q \in told' \cup todo' : q \in told \cup todo \cup {rid[p]}
  OBVIOUS
<1> HIDE DEF LatestInv
<1> QED
  BY <1>2, <1>3, <1>4, <1>5, <1>6, LatestElsewhere

\* Whatever a handler or the sweeper does about a row, once it has marked the
\* chunk as submitted.
LEMMA LatestRowSteps ==
  ASSUME BaseInv, LatestInv, [Next]_vars, NEW c \in Chunks, NEW r \in Results,
         chunk'[c].state = "leased", r \in FiledFor(c)' \ superseded',
         \/ \E h \in Handlers : HandlerStep(h) /\ ~LeaseTx(h) /\ ~InsertResult(h)
                                  /\ ~MarkSubmitted(h)
         \/ RejectStep(Sweeper) \/ StalledResult \/ StalledChunk
         \/ UndeliveredRow \/ UndeliveredChunk
  PROVE  Latest(r, c)'
<1> DEFINE Later(p) ==
      /\ pc[p] \notin Unfiled \cup Leased
      /\ chunk' = chunk \/ \E row \in ChunkRows : /\ row.state # "leased"
                                                  /\ chunk' = [chunk EXCEPT ![ChunkOf(p)] = row]
      /\ superseded' = superseded
      /\ \A q \in Results : q # rid[p] =>
           result'[q] = result[q] /\ challenge'[q].passed = challenge[q].passed
      /\ told' \subseteq told \cup {rid[p]} /\ todo' = todo
      /\ \A q \in Procs \ {p} : rid'[q] = rid[q] /\ pc'[q] = pc[q]
      /\ rid'[p] \in {rid[p], NoResult}
<1> USE DEF Unfiled, Between, Leased, history, notes, marks
<1>t. /\ pc \in [Procs -> Steps] /\ rid \in [Procs -> Results \cup {NoResult}]
      /\ chunk \in [Chunks -> ChunkRows] /\ result \in [Results -> ResultRows]
      /\ challenge \in [Results -> ChallengeRows]
      /\ Handlers \subseteq Procs /\ Sweeper \in Procs
  BY LeaseTypes
<1>p. ASSUME NEW p \in Procs, pc[p] \notin Between
      PROVE  /\ \A s \in ChunkStates \ {"leased"} : \E row \in ChunkRows :
                  row.state # "leased" /\ (SetChunk(ChunkOf(p), s) =>
                                             chunk' = [chunk EXCEPT ![ChunkOf(p)] = row])
             /\ \A n \in {0, 1} : /\ Pooled(ChunkOf(p), n) \in ChunkRows
                                  /\ Pooled(ChunkOf(p), n).state # "leased"
  <2>1. ChunkOf(p) \in Chunks
    BY <1>p, LeaseTypes
  <2>2. chunk[ChunkOf(p)] \in ChunkRows
    BY <2>1, LeaseTypes
  <2>3. ASSUME NEW s \in ChunkStates \ {"leased"}
        PROVE  \E row \in ChunkRows :
                  row.state # "leased" /\ (SetChunk(ChunkOf(p), s) =>
                                             chunk' = [chunk EXCEPT ![ChunkOf(p)] = row])
    <3>1. [chunk[ChunkOf(p)] EXCEPT !.state = s] \in ChunkRows
      BY <2>2 DEF ChunkRows
    <3> WITNESS [chunk[ChunkOf(p)] EXCEPT !.state = s] \in ChunkRows
    <3> QED
      BY <2>2 DEF SetChunk, ChunkRows
  <2>4. \A n \in {0, 1} : Pooled(ChunkOf(p), n) \in ChunkRows
    BY <2>1, <1>t, PooledType DEF BaseInv, TypeInv
  <2>5. \A n \in {0, 1} : Pooled(ChunkOf(p), n).state # "leased"
    BY DEF Pooled
  <2> QED
    BY <2>3, <2>4, <2>5
<1>1. ASSUME NEW p \in Procs, Later(p) PROVE Latest(r, c)'
  BY <1>1, LatestLater
<1>2. ASSUME NEW h \in Handlers,
             \/ DecideChallenge(h) \/ IssueChallenge(h) \/ MarkChallenged(h)
             \/ StampResponse(h) \/ VerdictTrue(h) \/ VerdictFalse(h) \/ StoreOutputs(h)
      PROVE  Latest(r, c)'
  <2>1. Later(h)
    BY <1>2, <1>t DEF DecideChallenge, IssueChallenge, MarkChallenged, StampResponse,
       VerdictTrue, VerdictFalse, StoreOutputs, Move, SetPassed, SetResult, rows,
       ChallengeRows
  <2> QED
    BY <1>1, <1>t, <2>1
<1>3. ASSUME NEW h \in Handlers, MarkVerifying(h) \/ AwaitOutputs(h) \/ AcceptChunk(h)
      PROVE  Latest(r, c)'
  <2>1. /\ pc[h] \in {"markVerifying", "awaitOutputs", "accept"}
        /\ \E s \in {"verifying", "awaiting_outputs", "accepted"} : SetChunk(ChunkOf(h), s)
    BY <1>3 DEF MarkVerifying, AwaitOutputs, AcceptChunk, Move, Finish
  <2>2. \E row \in ChunkRows : /\ row.state # "leased"
                               /\ chunk' = [chunk EXCEPT ![ChunkOf(h)] = row]
    BY <1>p, <1>t, <2>1 DEF ChunkStates
  <2>3. Later(h)
    BY <1>3, <1>t, <2>1, <2>2 DEF MarkVerifying, AwaitOutputs, AcceptChunk, Move, Finish
  <2> QED
    BY <1>1, <1>t, <2>3
<1>4. ASSUME NEW h \in Handlers,
             PassResult(h) \/ CreditEarnings(h) \/ CountRemaining(h) \/ CloseJob(h)
      PROVE  Latest(r, c)'
  <2>1. Later(h)
    BY <1>4, <1>t DEF PassResult, CreditEarnings, CountRemaining, CloseJob, Move, Finish,
       SetResult, rows
  <2> QED
    BY <1>1, <1>t, <2>1
<1>5. ASSUME NEW p \in Procs, RejectStep(p) PROVE Latest(r, c)'
  <2>1. CASE FailResult(p) \/ RecordRejection(p)
    <3>1. Later(p)
      BY <2>1, <1>t DEF FailResult, RecordRejection, Move, SetResult
    <3> QED
      BY <1>1, <3>1
  <2>2. CASE RepoolAndSlash(p)
    <3>1. pc[p] = "repool" /\ chunk' = [chunk EXCEPT ![ChunkOf(p)] = Pooled(ChunkOf(p), 1)]
      BY <2>2 DEF RepoolAndSlash, Finish
    <3>2. Pooled(ChunkOf(p), 1) \in ChunkRows /\ Pooled(ChunkOf(p), 1).state # "leased"
      BY <1>p, <3>1
    <3> HIDE DEF Pooled
    <3>3. Later(p)
      BY <2>2, <1>t, <3>1, <3>2 DEF RepoolAndSlash, Finish
    <3> QED
      BY <1>1, <3>3
  <2> QED
    BY <1>5, <2>1, <2>2 DEF RejectStep
<1>6. CASE StalledResult \/ UndeliveredRow
  <2>1. Later(Sweeper)
    BY <1>6, <1>t DEF StalledResult, UndeliveredRow, Move, SetResult
  <2> QED
    BY <1>1, <1>t, <2>1
<1>7. CASE StalledChunk \/ UndeliveredChunk
  <2>1. /\ pc[Sweeper] \in {"stalledChunk", "undeliveredChunk"}
        /\ \E n \in {0, 1} : chunk' = [chunk EXCEPT ![ChunkOf(Sweeper)] = Pooled(ChunkOf(Sweeper), n)]
    BY <1>7 DEF StalledChunk, UndeliveredChunk, EndTurn
  <2>2. \E row \in ChunkRows : /\ row.state # "leased"
                               /\ chunk' = [chunk EXCEPT ![ChunkOf(Sweeper)] = row]
    BY <1>p, <1>t, <2>1
  <2>3. Later(Sweeper)
    BY <1>7, <1>t, <2>1, <2>2 DEF StalledChunk, UndeliveredChunk, EndTurn
  <2> QED
    BY <1>1, <1>t, <2>3
<1> QED
  BY <1>2, <1>3, <1>4, <1>5, <1>6, <1>7, <1>t DEF HandlerStep, AcceptStep

\* The lease leaves what was submitted for the chunk behind; the submission
\* names the holder.
LEMMA LatestLease ==
  ASSUME BaseInv, SoleInv, LatestInv, [Next]_vars, NEW c \in Chunks, NEW r \in Results,
         chunk'[c].state = "leased", r \in FiledFor(c)' \ superseded',
         NEW h \in Handlers,
         \/ LeaseTx(h) \/ InsertResult(h) \/ MarkSubmitted(h) \/ Request(h)
  PROVE  Latest(r, c)'
<1> USE DEF Unfiled, Between, Leased, history, notes, marks
<1>t. /\ pc \in [Procs -> Steps] /\ rid \in [Procs -> Results \cup {NoResult}]
      /\ chunk \in [Chunks -> ChunkRows] /\ result \in [Results -> ResultRows]
      /\ challenge \in [Results -> ChallengeRows]
      /\ Handlers \subseteq Procs /\ Sweeper \in Procs
  BY LeaseTypes
<1>i. ASSUME pc[h] = "idle" \/ pc[h] = "leaseTx" PROVE rid[h] = NoResult
  BY <1>i, <1>t, LeaseTypes
<1>n. NoResult # r
  OBVIOUS
<1>1. CASE LeaseTx(h)
  <2>1. UNCHANGED <<result, challenge, rid, told, todo>> /\ pc' = [pc EXCEPT ![h] = "idle"]
        /\ rid[h] = NoResult
    BY <1>1, <1>i DEF LeaseTx
  <2>2. FiledFor(c)' = FiledFor(c)
    BY <2>1 DEF FiledFor
  <2>3. CASE UNCHANGED <<chunk, superseded>>
    <3>1. Latest(r, c) => NoResult # r
      OBVIOUS
    <3> QED
      BY <1>t, <1>n, <2>1, <2>3, LatestElsewhere
  <2>4. ASSUME NEW d \in Pending,
               chunk' = [chunk EXCEPT ![d] = [state |-> "leased", holder |-> who[h],
                                              live |-> TRUE, attempts |-> @.attempts]],
               superseded' = superseded \cup FiledFor(d)
        PROVE  Latest(r, c)'
    <3>1. d # c
      BY <2>2, <2>4
    <3>2. d \in Chunks /\ chunk'[c] = chunk[c]
      BY <1>t, <2>4, <3>1 DEF Pending
    <3>3. r \in FiledFor(c) \ superseded
      BY <2>2, <2>4
    <3>4. Latest(r, c)
      BY <3>2, <3>3 DEF LatestInv
    <3> QED
      BY <1>t, <2>1, <3>2, <3>4 DEF Latest
  <2> QED
    BY <1>1, <2>3, <2>4 DEF LeaseTx
<1>2. CASE InsertResult(h)
  <2>1. /\ pc[h] = "insert" /\ pc' = [pc EXCEPT ![h] = "markSubmitted"]
        /\ UNCHANGED <<rid, todo, chunk, challenge, told, superseded>>
        /\ SetResult(rid[h], "pending") /\ rid[h] \in Results
    BY <1>2, LeaseTypes, <1>t DEF InsertResult, Move
  <2>2. \A q \in Results : q # rid[h] => result'[q] = result[q]
    BY <1>t, <2>1 DEF SetResult
  <2>3. CASE r # rid[h]
    <3>1. \A p \in Procs : rid'[p] \in Results =>
            rid'[p] = rid[h] \/ (rid'[p] = rid[p] /\ pc'[p] = pc[p])
      BY <1>t, <2>1
    <3> QED
      BY <1>t, <2>1, <2>2, <2>3, <3>1, LatestElsewhere
  <2>4. CASE r = rid[h]
    <3>1. result'[r] = [result[r] EXCEPT !.state = "pending"] /\ result[r] \in ResultRows
      BY <1>t, <2>1, <2>4 DEF SetResult
    <3>2. result'[r].state = "pending" /\ result'[r].chunk = result[r].chunk
          /\ result'[r].worker = result[r].worker
      BY <3>1 DEF ResultRows
    <3>3. r \in FiledFor(c) \ superseded
      BY <1>t, <2>1, <2>4, <3>2 DEF FiledFor
    <3>4. Latest(r, c)
      BY <2>1, <3>3 DEF LatestInv
    <3>5. \A p \in Procs : rid'[p] = r => pc'[p] \in Leased
      BY <1>t, <2>1, <3>4 DEF Latest
    <3> QED
      BY <2>1, <3>2, <3>4, <3>5 DEF Latest
  <2> QED
    BY <2>3, <2>4
<1>3. CASE MarkSubmitted(h)
  <2>1. /\ pc[h] = "markSubmitted" /\ \A p \in Procs \ {h} : pc'[p] = pc[p]
        /\ UNCHANGED <<rid, todo, result, challenge, told, superseded>>
        /\ SetChunk(ChunkOf(h), "submitted")
    BY <1>3, <1>t DEF MarkSubmitted, Move
  <2>2. rid[h] \in Results /\ ChunkOf(h) \in Chunks
    BY <2>1, LeaseTypes, <1>t
  <2>3. ChunkOf(h) # c
    BY <1>t, <2>1, <2>2, LeaseTypes DEF SetChunk, ChunkRows
  <2>4. chunk'[c] = chunk[c]
    BY <1>t, <2>1, <2>3 DEF SetChunk
  <2>5. r # rid[h]
    BY <2>1, <2>3 DEF FiledFor, ChunkOf
  <2>6. \A p \in Procs : rid'[p] \in Results =>
          rid'[p] = rid[h] \/ (rid'[p] = rid[p] /\ pc'[p] = pc[p])
    BY <1>t, <2>1
  <2> QED
    BY <2>1, <2>4, <2>5, <2>6, LatestElsewhere
<1>4. ASSUME NEW w \in Workers, StartLease(h, w) PROVE Latest(r, c)'
  <2>1. /\ rid[h] = NoResult /\ \A p \in Procs \ {h} : pc'[p] = pc[p]
        /\ UNCHANGED <<rid, todo, chunk, result, challenge, told, superseded>>
    BY <1>4, <1>i, <1>t DEF StartLease, rows
  <2>2. \A p \in Procs : rid'[p] \in Results =>
          rid'[p] = NoResult \/ (rid'[p] = rid[p] /\ pc'[p] = pc[p])
    BY <1>t, <2>1
  <2> QED
    BY <1>n, <2>1, <2>2, LatestElsewhere
<1>5. ASSUME NEW q \in Results, StartRespond(h, q) \/ StartDeliver(h, q)
      PROVE  Latest(r, c)'
  <2>1. /\ pc' = [pc EXCEPT ![h] = IF StartRespond(h, q) THEN "stamp" ELSE "store"]
        /\ rid' = [rid EXCEPT ![h] = q]
        /\ UNCHANGED <<todo, chunk, result, challenge, told, superseded>>
        /\ q \in told
    BY <1>5 DEF StartRespond, StartDeliver, Begin, rows
  <2>2. Filed(q)
    BY <2>1 DEF BaseInv, FiledInv
  <2>3. Latest(r, c) => q # r
    BY <2>1 DEF Latest
  <2>4. \A p \in Procs : rid'[p] \in Results =>
          rid'[p] = q \/ (rid'[p] = rid[p] /\ pc'[p] = pc[p])
    BY <1>t, <2>1
  <2> QED
    BY <2>1, <2>2, <2>3, <2>4, LatestElsewhere
<1>6. ASSUME NEW d \in Chunks, NEW good \in BOOLEAN, StartSubmit(h, d, good)
      PROVE  Latest(r, c)'
  <2>1. PICK q \in Results :
          /\ result[q].state = "none" /\ \A p \in Procs : rid[p] # q
          /\ superseded' = superseded \ {q}
          /\ pc' = [pc EXCEPT ![h] = "insert"] /\ rid' = [rid EXCEPT ![h] = q]
          /\ result' = [result EXCEPT ![q] = [state |-> "none", chunk |-> d,
                                              worker |-> chunk[d].holder, good |-> good]]
    BY <1>6 DEF StartSubmit, IsNextResult, Begin
  <2>2. UNCHANGED <<todo, chunk, challenge, told>>
    BY <1>6 DEF StartSubmit, Begin
  <2>3. CASE r = q
    <3>1. result'[r] = [state |-> "none", chunk |-> d, worker |-> chunk[d].holder, good |-> good]
      BY <1>t, <2>1, <2>3
    <3>2. d = c
      BY <3>1 DEF FiledFor
    <3>3. challenge[r].passed = "none" /\ r \notin told /\ r \notin todo
      BY <2>1, <2>3 DEF BaseInv, FiledInv, Filed
    <3>4. \A p \in Procs : rid'[p] = r => pc'[p] \in Leased
      BY <1>t, <2>1, <2>3
    <3> QED
      BY <2>2, <3>1, <3>2, <3>3, <3>4 DEF Latest
  <2>4. CASE r # q
    <3>1. result'[r] = result[r]
      BY <1>t, <2>1, <2>4
    <3>2. \A p \in Procs : rid'[p] = r => rid[p] = r /\ pc'[p] = pc[p]
      BY <1>t, <2>1, <2>4
    <3>3. r \in FiledFor(c) \ superseded
      BY <2>1, <2>4, <3>1, <3>2 DEF FiledFor
    <3>4. Latest(r, c)
      BY <2>2, <3>3 DEF LatestInv
    <3> QED
      BY <2>2, <3>1, <3>2, <3>4 DEF Latest
  <2> QED
    BY <2>3, <2>4
<1> QED
  BY <1>1, <1>2, <1>3, <1>4, <1>5, <1>6 DEF Request

\* The sweeper lists and takes rows that are past their submission; the clock
\* and the lease statements only end leases; a process that is gone leaves no
\* row that is not inserted.
LEMMA LatestOthers ==
  ASSUME BaseInv, SoleInv, LatestInv, [Next]_vars, NEW c \in Chunks, NEW r \in Results,
         chunk'[c].state = "leased", r \in FiledFor(c)' \ superseded',
         \/ SelectUnanswered \/ SelectStalled \/ SelectUndelivered
         \/ \E q \in Results : ExpireChallenge(q) \/ HealStalled(q) \/ ExpireDelivery(q)
         \/ Quarantine \/ Reclaim \/ TimePasses
         \/ \E p \in Procs : ProcessFails(p)
         \/ UNCHANGED vars
  PROVE  Latest(r, c)'
<1> USE DEF history, notes, marks
<1>t. /\ pc \in [Procs -> Steps] /\ rid \in [Procs -> Results \cup {NoResult}]
      /\ chunk \in [Chunks -> ChunkRows] /\ result \in [Results -> ResultRows]
      /\ challenge \in [Results -> ChallengeRows]
      /\ Handlers \subseteq Procs /\ Sweeper \in Procs
      /\ \A p \in Procs : pc[p] \in Between => rid[p] = NoResult
  BY LeaseTypes
<1>n. NoResult # r
  OBVIOUS
<1>1. ASSUME chunk'[c].state = "leased" => chunk[c].state = "leased"
                                             /\ chunk'[c].holder = chunk[c].holder,
             UNCHANGED <<result, challenge, superseded, told>>,
             \A q \in todo' : q \in todo \/ challenge[q].passed = "null"
                                \/ result[q].state = "passed",
             \A p \in Procs : rid'[p] \in Results => rid'[p] = rid[p] /\ pc'[p] = pc[p]
      PROVE  Latest(r, c)'
  BY <1>n, <1>1, LatestElsewhere
<1>2. CASE SelectUnanswered \/ SelectStalled \/ SelectUndelivered
  <2>1. /\ UNCHANGED <<chunk, result, challenge, superseded, told, rid>>
        /\ \A q \in todo' : challenge[q].passed = "null" \/ result[q].state = "passed"
        /\ pc[Sweeper] = "idle" /\ \A p \in Procs \ {Sweeper} : pc'[p] = pc[p]
    BY <1>2, <1>t DEF SelectUnanswered, SelectStalled, SelectUndelivered, Select, rows
  <2>2. \A p \in Procs : rid'[p] \in Results => rid'[p] = rid[p] /\ pc'[p] = pc[p]
    BY <1>t, <2>1 DEF Between
  <2> QED
    BY <1>1, <2>1, <2>2
<1>3. ASSUME NEW q \in Results, ExpireChallenge(q) \/ HealStalled(q) \/ ExpireDelivery(q)
      PROVE  Latest(r, c)'
  <2>1. /\ UNCHANGED <<chunk, superseded, told>>
        /\ \A s \in Results : s # q =>
             result'[s] = result[s] /\ challenge'[s].passed = challenge[s].passed
        /\ q \in todo /\ todo' \subseteq todo
        /\ \A p \in Procs : rid'[p] \in Results =>
             rid'[p] = q \/ (rid'[p] = rid[p] /\ pc'[p] = pc[p])
    BY <1>3, <1>t DEF ExpireChallenge, HealStalled, ExpireDelivery, Turn, SetPassed, SetResult
  <2>2. Filed(q)
    BY <2>1 DEF BaseInv, FiledInv
  <2>3. Latest(r, c) => q # r
    BY <2>1 DEF Latest
  <2> QED
    BY <2>1, <2>2, <2>3, LatestElsewhere
<1>4. CASE Quarantine \/ Reclaim
  <2>1. chunk'[c] = chunk[c]
    <3>1. CASE Quarantine
      <4>1. chunk[c] \in ChunkRows
        BY LeaseTypes
      <4>2. TooOften(c) => chunk'[c].state = "quarantined"
        BY <3>1, <4>1 DEF Quarantine, ChunkRows
      <4> QED
        BY <3>1, <4>2 DEF Quarantine
    <3>2. CASE Reclaim
      BY <3>2 DEF Reclaim, Pooled
    <3> QED
      BY <1>4, <3>1, <3>2
  <2>2. /\ UNCHANGED <<result, challenge, superseded, told, todo, rid>>
        /\ pc[Sweeper] \in {"idle", "reclaim"} /\ \A p \in Procs \ {Sweeper} : pc'[p] = pc[p]
    BY <1>4, <1>t DEF Quarantine, Reclaim, Move
  <2>3. \A p \in Procs : rid'[p] \in Results => rid'[p] = rid[p] /\ pc'[p] = pc[p]
    BY <1>t, <2>2 DEF Between
  <2> QED
    BY <1>1, <2>1, <2>2, <2>3
<1>5. ASSUME NEW d \in Chunks, LeaseExpires(d) PROVE Latest(r, c)'
  <2>1. /\ chunk'[c].state = chunk[c].state /\ chunk'[c].holder = chunk[c].holder
        /\ UNCHANGED <<result, challenge, superseded, told, procs>>
    BY <1>5, <1>t DEF LeaseExpires, ChunkRows
  <2> QED
    BY <1>1, <2>1 DEF procs
<1>6. CASE UNCHANGED vars \/ \E q \in Results, k \in Windows : WindowElapses(q, k)
  <2>1. UNCHANGED <<chunk, result, challenge, superseded, told, procs>>
    BY <1>6 DEF WindowElapses, rows, vars
  <2> QED
    BY <1>1, <2>1 DEF procs
<1>7. ASSUME NEW p \in Procs, ProcessFails(p) PROVE Latest(r, c)'
  <2>1. /\ UNCHANGED <<chunk, challenge, superseded, told>> /\ todo' \subseteq todo
        /\ \A q \in Procs \ {p} : rid'[q] = rid[q] /\ pc'[q] = pc[q]
        /\ rid'[p] = NoResult
        /\ result' = [q \in Results |-> IF q = rid[p] /\ result[q].state = "none"
                                          THEN FreeRow ELSE result[q]]
    BY <1>7, <1>t DEF ProcessFails
  <2>2. \A q \in Procs : rid'[q] \in Results => rid'[q] = rid[q] /\ pc'[q] = pc[q]
    BY <2>1
  <2>3. CASE r = rid[p] /\ result[r].state = "none"
    <3>1. result'[r].state = "none"
      BY <2>1, <2>3 DEF FreeRow
    <3>2. PICK q \in Procs : rid'[q] = r
      BY <3>1 DEF FiledFor
    <3>3. q # p /\ rid[q] = rid[p]
      BY <1>n, <2>1, <2>3, <3>2
    <3> QED
      BY <2>3, <3>3 DEF SoleInv, Filed
  <2>4. CASE ~(r = rid[p] /\ result[r].state = "none")
    <3>1. CASE r # rid[p]
      <4>1. \A q \in Results : q # rid[p] => result'[q] = result[q]
        BY <2>1
      <4>2. \A q \in Procs : rid'[q] \in Results =>
              rid'[q] = rid[p] \/ (rid'[q] = rid[q] /\ pc'[q] = pc[q])
        BY <2>2
      <4> QED
        BY <2>1, <3>1, <4>1, <4>2, LatestElsewhere
    <3>2. CASE r = rid[p] /\ Filed(r)
      <4>1. \A q \in Results : result'[q] = result[q]
        BY <2>1, <3>2 DEF Filed
      <4> QED
        BY <1>n, <2>1, <2>2, <4>1, LatestElsewhere
    <3> QED
      BY <2>4, <3>1, <3>2 DEF Filed
  <2> QED
    BY <2>3, <2>4
<1> QED
  BY <1>2, <1>3, <1>4, <1>5, <1>6, <1>7 DEF TimePasses

LEMMA LatestStep == BaseInv /\ SoleInv /\ LatestInv /\ [Next]_vars => LatestInv'
<1> SUFFICES ASSUME BaseInv, SoleInv, LatestInv, [Next]_vars, NEW c \in Chunks,
                    NEW r \in Results, r \in FiledFor(c)' \ superseded',
                    chunk'[c].state = "leased"
             PROVE  Latest(r, c)'
  BY DEF LatestInv, FiledFor
<1>1. CASE \E h \in Handlers : Request(h)
  BY <1>1, LatestLease
<1>2. CASE \E h \in Handlers : HandlerStep(h)
  BY <1>2, LatestLease, LatestRowSteps
<1>3. CASE SweepStep
  BY <1>3, LatestOthers, LatestRowSteps DEF SweepStep
<1>4. CASE TimePasses \/ UNCHANGED vars \/ \E p \in Procs : ProcessFails(p)
  BY <1>4, LatestOthers
<1> QED
  BY <1>1, <1>2, <1>3, <1>4 DEF Next

\* A row that is not inserted belongs to the request that took its number.
LEMMA SoleStep == BaseInv /\ SoleInv /\ [Next]_vars => SoleInv'
<1> SUFFICES ASSUME BaseInv, SoleInv, [Next]_vars, NEW p \in Procs, NEW q \in Procs,
                    rid'[p] \in Results, rid'[p] = rid'[q],
                    result'[rid'[p]].state = "none"
             PROVE  p = q
  BY DEF SoleInv, Filed
<1>t. /\ pc \in [Procs -> Steps] /\ rid \in [Procs -> Results \cup {NoResult}]
      /\ Handlers \subseteq Procs /\ Sweeper \in Procs
  BY LeaseTypes
<1>f. ~Filed(rid'[p])
  BY RowsLast DEF BaseInv, KeepsRow, Filed
<1>1. ASSUME \A s \in Procs : rid'[s] = rid[s] \/ rid'[s] = NoResult \/ Filed(rid'[s])
      PROVE  p = q
  <2>1. rid'[p] = rid[p] /\ rid'[q] = rid[q]
    BY <1>f, <1>1
  <2> QED
    BY <1>f, <2>1 DEF SoleInv
<1>2. ASSUME NEW h \in Handlers, Request(h) PROVE p = q
  <2>1. ASSUME NEW w \in Workers, StartLease(h, w) PROVE p = q
    BY <1>1, <2>1 DEF StartLease
  <2>2. ASSUME NEW r \in Results, StartRespond(h, r) \/ StartDeliver(h, r) PROVE p = q
    <3>1. Filed(r) /\ rid' = [rid EXCEPT ![h] = r]
      BY <2>2 DEF StartRespond, StartDeliver, Begin, BaseInv, FiledInv
    <3> QED
      BY <1>1, <1>t, <3>1
  <2>3. ASSUME NEW d \in Chunks, NEW good \in BOOLEAN, StartSubmit(h, d, good) PROVE p = q
    <3>1. PICK r \in Results : rid' = [rid EXCEPT ![h] = r] /\ \A s \in Procs : rid[s] # r
      BY <2>3 DEF StartSubmit, IsNextResult, Begin
    <3>2. CASE rid'[p] = r
      BY <1>t, <3>1, <3>2
    <3>3. CASE rid'[p] # r
      BY <1>f, <1>t, <3>1, <3>3 DEF SoleInv
    <3> QED
      BY <3>2, <3>3
  <2> QED
    BY <1>2, <2>1, <2>2, <2>3 DEF Request
<1>3. ASSUME NEW s \in Procs, AcceptStep(s) \/ RejectStep(s) PROVE p = q
  BY <1>1, <1>3, <1>t DEF AcceptStep, PassResult, AwaitOutputs, AcceptChunk, CreditEarnings,
     CountRemaining, CloseJob, RejectStep, FailResult, RecordRejection, RepoolAndSlash,
     Move, Finish
<1>4. ASSUME NEW h \in Handlers, HandlerStep(h) PROVE p = q
  BY <1>1, <1>3, <1>4, <1>t DEF HandlerStep, LeaseTx, InsertResult, MarkSubmitted,
     DecideChallenge, IssueChallenge, MarkChallenged, MarkVerifying, StampResponse,
     VerdictTrue, VerdictFalse, StoreOutputs, Move, Finish
<1>5. ASSUME NEW r \in Results, ExpireChallenge(r) \/ HealStalled(r) \/ ExpireDelivery(r)
      PROVE  p = q
  <2>1. Filed(r) /\ rid' = [rid EXCEPT ![Sweeper] = r]
    BY <1>5 DEF ExpireChallenge, HealStalled, ExpireDelivery, Turn, BaseInv, FiledInv
  <2> QED
    BY <1>1, <1>t, <2>1
<1>6. CASE SweepStep
  BY <1>1, <1>3, <1>5, <1>6, <1>t DEF SweepStep, SelectUnanswered, SelectStalled,
     SelectUndelivered, Select, StalledResult, StalledChunk, UndeliveredRow,
     UndeliveredChunk, Quarantine, Reclaim, Move, EndTurn
<1>7. CASE TimePasses \/ UNCHANGED vars \/ \E s \in Procs : ProcessFails(s)
  BY <1>1, <1>7, <1>t DEF TimePasses, LeaseExpires, WindowElapses, ProcessFails, procs, vars
<1> QED
  BY <1>2, <1>4, <1>6, <1>7 DEF Next

\* What a process that is about to end a lease has to do with the past.
LEMMA OldByParts ==
  ASSUME OldInv, ~overlapped,
         \A p \in Procs : pc'[p] \in Leased => pc[p] \in Leased /\ rid'[p] = rid[p],
         superseded' \subseteq superseded
  PROVE  OldInv'
  BY DEF OldInv

\* No result of an earlier lease is on its way to the update that ends a lease:
\* a chunk that is leased again has nobody at work on it.
LEMMA OldStep ==
  ASSUME OrderlyInv, OldInv, [Next]_vars, ~overlapped, ~overlapped'
  PROVE  OldInv'
<1> USE DEF history, notes, marks, Leased
<1>t. /\ pc \in [Procs -> Steps] /\ rid \in [Procs -> Results \cup {NoResult}]
      /\ Handlers \subseteq Procs /\ Sweeper \in Procs
  BY OrderlyTypes
<1>1. ASSUME NEW h \in Handlers, LeaseTx(h) PROVE OldInv'
  <2>1. UNCHANGED <<rid, result>> /\ pc' = [pc EXCEPT ![h] = "idle"]
    BY <1>1 DEF LeaseTx
  <2>2. superseded' = superseded \/ \E c \in Pending : superseded' = superseded \cup FiledFor(c)
    BY <1>1 DEF LeaseTx
  <2>3. ASSUME NEW p \in Procs, NEW c \in Pending, rid[p] \in FiledFor(c) PROVE FALSE
    <3>1. At(p, c) /\ c \in Chunks /\ chunk[c].state = "pending"
      BY <2>3 DEF At, ChunkOf, FiledFor, Pending
    <3> QED
      BY <3>1, NobodyAtFree
  <2>4. \A p \in Procs : rid[p] \in superseded' => rid[p] \in superseded
    BY <2>2, <2>3
  <2> QED
    BY <1>t, <2>1, <2>4 DEF OldInv
<1>2. ASSUME NEW h \in Handlers, NEW c \in Chunks, NEW good \in BOOLEAN, StartSubmit(h, c, good)
      PROVE  OldInv'
  <2>1. PICK r \in Results : /\ rid' = [rid EXCEPT ![h] = r] /\ superseded' = superseded \ {r}
                             /\ pc' = [pc EXCEPT ![h] = "insert"]
    BY <1>2 DEF StartSubmit, Begin
  <2> QED
    BY <1>t, <2>1 DEF OldInv
<1>3. ASSUME NEW h \in Handlers,
             \/ \E w \in Workers : StartLease(h, w)
             \/ \E r \in Results : StartRespond(h, r) \/ StartDeliver(h, r)
      PROVE  OldInv'
  BY <1>3, <1>t, OldByParts DEF StartLease, StartRespond, StartDeliver, Begin
<1>4. ASSUME NEW p \in Procs, AcceptStep(p) \/ RejectStep(p) PROVE OldInv'
  BY <1>4, <1>t, OldByParts DEF AcceptStep, PassResult, AwaitOutputs, AcceptChunk,
     CreditEarnings, CountRemaining, CloseJob, RejectStep, FailResult, RecordRejection,
     RepoolAndSlash, Move, Finish
<1>5. ASSUME NEW h \in Handlers,
             \/ InsertResult(h) \/ MarkSubmitted(h) \/ DecideChallenge(h) \/ IssueChallenge(h)
             \/ MarkChallenged(h) \/ MarkVerifying(h)
      PROVE  OldInv'
  BY <1>5, <1>t, OldByParts DEF InsertResult, MarkSubmitted, DecideChallenge, IssueChallenge,
     MarkChallenged, MarkVerifying, Move, Finish
<1>6. ASSUME NEW h \in Handlers,
             StampResponse(h) \/ VerdictTrue(h) \/ VerdictFalse(h) \/ StoreOutputs(h)
      PROVE  OldInv'
  BY <1>6, <1>t, OldByParts DEF StampResponse, VerdictTrue, VerdictFalse, StoreOutputs, Move
<1>7. CASE SelectUnanswered \/ SelectStalled \/ SelectUndelivered
  BY <1>7, <1>t, OldByParts DEF SelectUnanswered, SelectStalled, SelectUndelivered, Select
<1>8. ASSUME NEW r \in Results, ExpireChallenge(r) \/ HealStalled(r) \/ ExpireDelivery(r)
      PROVE  OldInv'
  BY <1>8, <1>t, OldByParts DEF ExpireChallenge, HealStalled, ExpireDelivery, Turn
<1>9. CASE StalledResult \/ StalledChunk \/ UndeliveredRow \/ UndeliveredChunk
  BY <1>9, <1>t, OldByParts DEF StalledResult, StalledChunk, UndeliveredRow, UndeliveredChunk,
     Move, EndTurn
<1>10. CASE Quarantine \/ Reclaim
  BY <1>10, <1>t, OldByParts DEF Quarantine, Reclaim, Move
<1>11. CASE TimePasses \/ UNCHANGED vars \/ \E p \in Procs : ProcessFails(p)
  BY <1>11, <1>t, OldByParts DEF TimePasses, LeaseExpires, WindowElapses, ProcessFails, procs,
     vars
<1> QED
  BY <1>1, <1>2, <1>3, <1>4, <1>5, <1>6, <1>7, <1>8, <1>9, <1>10, <1>11, <1>t
     DEF Next, Request, HandlerStep, SweepStep

LEMMA LeaseInvStep == LeaseInv /\ [Next]_vars => LeaseInv'
<1> SUFFICES ASSUME LeaseInv, [Next]_vars PROVE LeaseInv'
  OBVIOUS
<1>1. OrderInv /\ SoleInv /\ LatestInv /\ OldInv /\ BaseInv
  BY DEF LeaseInv, OrderInv
<1>2. OrderInv' /\ SoleInv' /\ LatestInv'
  BY <1>1, OrderStep, SoleStep, LatestStep
<1>3. ASSUME overlapped' PROVE OldInv'
  BY <1>3 DEF OldInv
<1>4. ASSUME ~overlapped' PROVE OldInv'
  <2>1. ~overlapped /\ OrderlyInv
    BY <1>1, <1>4, OverlapLasts DEF OrderInv
  <2> QED
    BY <1>1, <1>4, <2>1, OldStep
<1>5. OldInv'
  BY <1>3, <1>4
<1> QED
  BY <1>2, <1>5 DEF LeaseInv

LEMMA LeaseInvariance == Spec => []LeaseInv
<1>1. Init => LeaseInv
  <2> SUFFICES ASSUME Init PROVE LeaseInv
    OBVIOUS
  <2>1. OrderInv
    BY OrderlyInit DEF OrderInv, OrderlyInv
  <2>2. /\ \A p \in Procs : rid[p] = NoResult
        /\ \A c \in Chunks : chunk[c].state = "pending"
        /\ superseded = {}
    BY DEF Init
  <2> QED
    BY <2>1, <2>2 DEF LeaseInv, SoleInv, LatestInv, OldInv
<1> QED
  BY <1>1, LeaseInvStep, PTL DEF Spec

\* While a lease runs, only the submission of its holder ends it, and whatever
\* else reaches the chunk works on a result of an earlier lease, after two
\* activities have overlapped on a chunk: for any number of chunks, workers,
\* handlers and failures, with every request and the sweep free to overlap.
THEOREM LeasesAreRespected == Spec => LeaseRespected
<1> DEFINE Respected(c) ==
      \/ chunk'[c].state = "leased" /\ chunk'[c].holder = chunk[c].holder
      \/ HolderSubmits(c)
      \/ overlapped /\ OldResultActs(c)
<1>1. ASSUME LeaseInv, [Next]_vars, NEW c \in Chunks, chunk[c].state = "leased", chunk[c].live
      PROVE  Respected(c)
  <2>b. BaseInv /\ LatestInv
    BY <1>1 DEF LeaseInv, OrderInv
  <2>t. /\ pc \in [Procs -> Steps] /\ chunk \in [Chunks -> ChunkRows]
        /\ Handlers \subseteq Procs /\ Sweeper \in Procs /\ Sweeper \notin Handlers
        /\ \A p \in Procs : pc[p] \notin Between => rid[p] \in Results /\ ChunkOf(p) \in Chunks
        /\ chunk[c] \in ChunkRows
    BY <2>b, LeaseTypes
  <2>1. ASSUME NEW p \in Procs, rid[p] \in Results, ChunkOf(p) = c, rid[p] \notin superseded
        PROVE  pc[p] \in Leased /\ result[rid[p]].worker = chunk[c].holder
    <3>1. rid[p] \in FiledFor(c) \ superseded
      BY <2>1 DEF FiledFor, ChunkOf
    <3>2. Latest(rid[p], c)
      BY <1>1, <2>b, <3>1 DEF LatestInv
    <3> QED
      BY <3>2 DEF Latest
  <2>2. ASSUME NEW p \in Procs, pc[p] \notin Between, pc[p] \notin Leased, ChunkOf(p) = c,
               pc'[p] # pc[p]
        PROVE  Respected(c)
    <3>1. rid[p] \in superseded
      BY <2>1, <2>2, <2>t
    <3>2. overlapped
      <4> SUFFICES ASSUME ~overlapped PROVE FALSE
        OBVIOUS
      <4>1. OrderlyInv
        BY <1>1 DEF LeaseInv, OrderInv
      <4>2. chunk[c].state \in Place(pc[p])
        BY <2>2, <4>1, RowFacts
      <4> QED
        BY <1>1, <2>2, <4>2 DEF Place, Verified, HeldBack
    <3> QED
      BY <2>2, <3>1, <3>2 DEF OldResultActs
  <2>3. CASE chunk'[c] = chunk[c]
    BY <1>1, <2>3
  <2>4. ASSUME NEW h \in Handlers, LeaseTx(h) PROVE Respected(c)
    <3>1. chunk'[c] = chunk[c]
      BY <1>1, <2>4, <2>t DEF LeaseTx, Pending
    <3> QED
      BY <2>3, <3>1
  <2>5. ASSUME NEW h \in Handlers, MarkSubmitted(h) PROVE Respected(c)
    <3>1. /\ pc[h] = "markSubmitted" /\ pc'[h] # "markSubmitted"
          /\ chunk' = [chunk EXCEPT ![ChunkOf(h)].state = "submitted"]
          /\ rid[h] \in Results /\ ChunkOf(h) \in Chunks
      BY <2>5, <2>t DEF MarkSubmitted, Move, SetChunk, Between
    <3>2. CASE ChunkOf(h) # c
      BY <2>3, <3>1, <3>2, <2>t
    <3>3. CASE ChunkOf(h) = c /\ rid[h] \in superseded
      <4>1. overlapped
        BY <1>1, <2>t, <3>1, <3>3 DEF LeaseInv, OldInv, Leased
      <4> QED
        BY <2>t, <3>1, <3>3, <4>1 DEF OldResultActs
    <3>4. CASE ChunkOf(h) = c /\ rid[h] \notin superseded
      <4>1. result[rid[h]].worker = chunk[c].holder
        BY <2>1, <2>t, <3>1, <3>4
      <4>2. chunk'[c].state = "submitted"
        BY <2>t, <3>1, <3>4 DEF ChunkRows
      <4> QED
        BY <3>1, <3>4, <4>1, <4>2 DEF HolderSubmits
    <3> QED
      BY <3>2, <3>3, <3>4
  <2>6. ASSUME NEW p \in Procs,
               MarkVerifying(p) \/ AwaitOutputs(p) \/ AcceptChunk(p) \/ RepoolAndSlash(p)
        PROVE  Respected(c)
    <3>1. /\ pc[p] \notin Between /\ pc[p] \notin Leased /\ pc'[p] # pc[p]
          /\ \E row : chunk' = [chunk EXCEPT ![ChunkOf(p)] = row]
      BY <2>6, <2>t DEF MarkVerifying, AwaitOutputs, AcceptChunk, RepoolAndSlash,
         SetChunk, Move, Finish, Between, Leased
    <3>2. CASE ChunkOf(p) # c
      BY <2>3, <2>t, <3>1, <3>2
    <3> QED
      BY <2>2, <3>1, <3>2
  <2>7. CASE StalledChunk \/ UndeliveredChunk
    <3>1. /\ pc[Sweeper] \notin Between /\ pc[Sweeper] \notin Leased
          /\ pc'[Sweeper] # pc[Sweeper]
          /\ \E row : chunk' = [chunk EXCEPT ![ChunkOf(Sweeper)] = row]
      BY <2>7, <2>t DEF StalledChunk, UndeliveredChunk, EndTurn, Between, Leased
    <3>2. CASE ChunkOf(Sweeper) # c
      BY <2>3, <2>t, <3>1, <3>2
    <3> QED
      BY <2>2, <2>t, <3>1, <3>2
  <2>8. CASE Quarantine \/ Reclaim
    <3>1. chunk'[c] = chunk[c]
      BY <1>1, <2>8 DEF Quarantine, Reclaim, TooOften, Expired
    <3> QED
      BY <2>3, <3>1
  <2>9. ASSUME NEW d \in Chunks, LeaseExpires(d) PROVE Respected(c)
    BY <1>1, <2>9, <2>t DEF LeaseExpires, ChunkRows
  <2>10. CASE chunk' = chunk
    BY <2>3, <2>10
  <2>11. ASSUME NEW h \in Handlers, Request(h) PROVE Respected(c)
    BY <2>10, <2>11 DEF Request, StartLease, StartSubmit, StartRespond, StartDeliver, rows
  <2>12. ASSUME NEW h \in Handlers, HandlerStep(h) PROVE Respected(c)
    BY <2>4, <2>5, <2>6, <2>10, <2>12, <2>t
       DEF HandlerStep, AcceptStep, RejectStep, InsertResult, DecideChallenge, IssueChallenge,
           MarkChallenged, StampResponse, VerdictTrue, VerdictFalse, StoreOutputs, PassResult,
           CreditEarnings, CountRemaining, CloseJob, FailResult, RecordRejection, rows
  <2>13. CASE SweepStep
    BY <2>6, <2>7, <2>8, <2>10, <2>13, <2>t
       DEF SweepStep, RejectStep, SelectUnanswered, SelectStalled, SelectUndelivered, Select,
           ExpireChallenge, HealStalled, ExpireDelivery, StalledResult, UndeliveredRow,
           FailResult, RecordRejection, rows
  <2>14. CASE TimePasses \/ UNCHANGED vars \/ \E p \in Procs : ProcessFails(p)
    BY <2>9, <2>10, <2>14 DEF TimePasses, WindowElapses, ProcessFails, rows, vars
  <2> QED
    BY <1>1, <2>11, <2>12, <2>13, <2>14 DEF Next
<1>2. LeaseInv /\ [Next]_vars =>
        [\A c \in Chunks : chunk[c].state = "leased" /\ chunk[c].live =>
           \/ chunk'[c].state = "leased" /\ chunk'[c].holder = chunk[c].holder
           \/ HolderSubmits(c)
           \/ overlapped /\ OldResultActs(c)]_chunk
  BY <1>1
<1> QED
  BY <1>2, LeaseInvariance, PTL DEF Spec, LeaseRespected

=============================================================================
