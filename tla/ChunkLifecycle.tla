--------------------------- MODULE ChunkLifecycle ---------------------------
(***************************************************************************)
(* The life of the chunks of one bounty in the coordinator: the lease, the *)
(* submission, the challenge, the delivery and the sweeper                 *)
(* (apps/coordinator/src/{routes,verification,sweeper}.ts).                *)
(*                                                                         *)
(* Every request handler and the sweeper is a process.  A handler is a     *)
(* chain of awaited SQL statements outside any transaction (the lease is   *)
(* the one exception), so one statement is one action, and other processes *)
(* run between two of them.  A process that throws, or a coordinator that  *)
(* restarts, loses its place and leaves behind the rows it has written.    *)
(*                                                                         *)
(* Rows are abstracted to the columns the handlers branch on.  A lease     *)
(* nonce is represented by the holder, and what a witness, honeypot or     *)
(* bucket recompute would reveal of a submission by the flag "good".       *)
(***************************************************************************)
EXTENDS Integers, FiniteSets

CONSTANTS
    Chunks,       \* chunk rows, numbered in range_start order
    Workers,
    Results,      \* the ids a result row may get, numbered in insertion order
    Handlers,     \* HTTP requests that may run at the same time
    Sweeper,      \* the process that runs the sweeper's tick
    NoWorker,
    NoResult,
    Mode,         \* jobs.verification_mode
    TrustAfter,   \* passed results that end the mandatory audits (3)
    QuarantineAt, \* attempts at which an expired lease quarantines (5)
    MaxFailures,  \* bound on thrown handlers and restarts
    MayOverlap    \* FALSE: a run stops short of activities that overlap

ASSUME ConstantsAssumption ==
    /\ Chunks # {} /\ Chunks \subseteq Nat
    /\ Results \subseteq Nat
    /\ NoResult \notin Results
    /\ NoWorker \notin Workers
    /\ Sweeper \notin Handlers
    /\ Mode \in {"witness_extremum", "output_hash"}
    /\ TrustAfter \in Nat
    /\ QuarantineAt \in Nat
    /\ MaxFailures \in Nat
    /\ MayOverlap \in BOOLEAN

VARIABLES
    job,        \* jobs.status
    chunk,      \* chunks: state, leased_to, lease not yet expired, attempts
    result,     \* results: verification_state, chunk_id, worker_id, good
    challenge,  \* challenges: passed ("none" without a row), responded_at set
    rejection,  \* result_rejections.reason
    delivered,  \* results whose outputs are in chunk_outputs
    credits,    \* prices added to earnings.cumulative_lamports for a result
    elapsed,    \* results whose wait of a kind is older than its window
    pc,         \* the next statement of each process
    rid,        \* the result row a process works on
    who,        \* the worker a lease request is for
    todo,       \* rows the sweeper has selected and not yet handled
    failures,
    told,       \* history: submissions whose reply reached the worker
    late,       \* history: challenges unanswered when their window closed
    everPassed, \* history: results that have been 'passed' at some time
    slashSent,  \* history: results for which slashStake was called
    superseded, \* history: results of a chunk from before its latest lease
    overlapped  \* history: a chunk was taken up while another was busy with it

rows    == <<job, chunk, result, challenge, rejection, delivered, credits>>
procs   == <<pc, rid, who, todo>>
notes   == <<told, late, everPassed, slashSent>>
marks   == <<superseded, overlapped>>
history == <<notes, marks>>
vars    == <<rows, procs, elapsed, failures, history>>

Procs == Handlers \cup {Sweeper}

ChunkStates == {"pending", "leased", "submitted", "verifying",
                "awaiting_outputs", "accepted", "quarantined"}
\* Mutant: the list of maybeCompleteJob as it was before output_hash.
ShortList   == {"pending", "leased", "submitted", "verifying"}
InFlight    == ChunkStates \ {"accepted", "quarantined"}
ResultStates == {"none", "pending", "challenged", "passed", "failed"}
Verdicts    == {"none", "null", "true", "false"}
Reasons     == {"none", "witness_failed", "challenge_failed",
                "challenge_timeout", "output_delivery_timeout"}
Windows     == {"challenge", "stall", "delivery"}

HandlerSteps ==
    {"idle", "leaseTx", "insert", "markSubmitted", "decide", "issue",
     "markChallenged", "markVerifying", "stamp", "judge", "store"}
SweepSteps ==
    {"expire", "stalled", "stalledResult", "stalledChunk",
     "undelivered", "undeliveredRow", "undeliveredChunk", "reclaim"}
SharedSteps ==
    {"pass", "awaitOutputs", "accept", "credit", "count", "close",
     "fail", "reject", "repool"}

FreeRow == [state |-> "none", chunk |-> CHOOSE c \in Chunks : TRUE,
            worker |-> NoWorker, good |-> FALSE]

Steps == HandlerSteps \cup SweepSteps \cup SharedSteps

ChunkRows     == [state : ChunkStates, holder : Workers \cup {NoWorker},
                  live : BOOLEAN, attempts : 0..QuarantineAt]
ResultRows    == [state : ResultStates, chunk : Chunks,
                  worker : Workers \cup {NoWorker}, good : BOOLEAN]
ChallengeRows == [passed : Verdicts, answered : BOOLEAN]

RowsOK ==
    /\ job \in {"open", "closed"}
    /\ chunk \in [Chunks -> ChunkRows]
    /\ result \in [Results -> ResultRows]
    /\ challenge \in [Results -> ChallengeRows]
    /\ rejection \in [Results -> Reasons]
    /\ delivered \subseteq Results
    /\ credits \in [Results -> Nat]

ProcsOK ==
    /\ pc \in [Procs -> Steps]
    /\ rid \in [Procs -> Results \cup {NoResult}]
    /\ who \in [Procs -> Workers \cup {NoWorker}]
    /\ todo \subseteq Results
    /\ failures \in 0..MaxFailures

HistoryOK ==
    /\ elapsed \in [Windows -> SUBSET Results]
    /\ told \subseteq Results
    /\ late \subseteq Results
    /\ everPassed \subseteq Results
    /\ slashSent \subseteq Results
    /\ superseded \subseteq Results
    /\ overlapped \in BOOLEAN

TypeOK == RowsOK /\ ProcsOK /\ HistoryOK

Init ==
    /\ job = "open"
    /\ chunk = [c \in Chunks |-> [state |-> "pending", holder |-> NoWorker,
                                  live |-> FALSE, attempts |-> 0]]
    /\ result = [r \in Results |-> FreeRow]
    /\ challenge = [r \in Results |-> [passed |-> "none", answered |-> FALSE]]
    /\ rejection = [r \in Results |-> "none"]
    /\ delivered = {}
    /\ credits = [r \in Results |-> 0]
    /\ elapsed = [k \in Windows |-> {}]
    /\ pc = [p \in Procs |-> "idle"]
    /\ rid = [p \in Procs |-> NoResult]
    /\ who = [p \in Procs |-> NoWorker]
    /\ todo = {}
    /\ failures = 0
    /\ told = {} /\ late = {} /\ everPassed = {} /\ slashSent = {}
    /\ superseded = {} /\ overlapped = FALSE
-----------------------------------------------------------------------------
(***************************************************************************)
(* How a process moves.                                                    *)
(***************************************************************************)

ChunkOf(p) == result[rid[p]].chunk

\* Some request or sweep step is under way for the chunk.
Busy(c) ==
    \/ \E p \in Procs : rid[p] # NoResult /\ ChunkOf(p) = c
    \/ \E r \in todo : result[r].chunk = c

\* What a run whose activities do not overlap leaves out.
Undisturbed(c) == MayOverlap \/ ~Busy(c)

\* A request or the sweep takes up the chunks S.  Nothing in the code keeps it
\* from one that another is still busy with.
TakesUp(S) ==
    /\ overlapped' = (overlapped \/ \E c \in S : Busy(c))
    /\ \A c \in S : Undisturbed(c)

\* The process runs the statement "from" and goes on to "to".
Move(p, from, to) ==
    /\ pc[p] = from
    /\ pc' = [pc EXCEPT ![p] = to]
    /\ UNCHANGED <<rid, who, todo, failures>>

\* The process runs the statement "from", its last one for this row: a
\* request is answered, the sweeper takes the next row it selected.
Finish(p, from) ==
    /\ pc[p] = from
    /\ pc' = [pc EXCEPT ![p] = IF p = Sweeper /\ todo # {} THEN "expire"
                                                          ELSE "idle"]
    /\ rid' = [rid EXCEPT ![p] = NoResult]
    /\ UNCHANGED <<who, todo, failures>>

\* The process starts a request about the row.
Begin(p, r, to) ==
    /\ pc[p] = "idle"
    /\ pc' = [pc EXCEPT ![p] = to]
    /\ rid' = [rid EXCEPT ![p] = r]
    /\ UNCHANGED <<who, todo, failures>>

SetChunk(c, s)  == chunk' = [chunk EXCEPT ![c].state = s]
SetResult(r, s) == result' = [result EXCEPT ![r].state = s]
SetPassed(r, v) == challenge' = [challenge EXCEPT ![r].passed = v]

\* Attempts are counted up to the number that makes a difference.
Attempts(a) == IF a < QuarantineAt THEN a ELSE QuarantineAt

\* The row of a chunk back in the pool, with n more attempts.
Pooled(c, n) == [state |-> "pending", holder |-> NoWorker, live |-> FALSE,
                 attempts |-> Attempts(chunk[c].attempts + n)]
-----------------------------------------------------------------------------
(***************************************************************************)
(* Time.  A lease runs out while the chunk is leased.  A window closes any *)
(* time after the row began to wait, except that a challenge is answered   *)
(* by its request long before its window of 90 s closes.                   *)
(***************************************************************************)

LeaseExpires(c) ==
    /\ chunk[c].state = "leased" /\ chunk[c].live
    /\ Undisturbed(c)
    /\ chunk' = [chunk EXCEPT ![c].live = FALSE]
    /\ UNCHANGED <<job, result, challenge, rejection, delivered, credits,
                   procs, elapsed, failures, history>>

Waits(r, k) ==
    CASE k = "challenge" -> /\ challenge[r].passed = "null"
                            /\ \A h \in Handlers : rid[h] = r =>
                                 pc[h] \notin {"markChallenged", "markVerifying"}
      [] k = "stall"     -> challenge[r].passed = "null" /\ challenge[r].answered
      [] k = "delivery"  -> /\ Mode # "witness_extremum"
                            /\ result[r].state = "passed"

WindowElapses(r, k) ==
    /\ Waits(r, k)
    /\ r \notin elapsed[k]
    /\ Undisturbed(result[r].chunk)
    /\ elapsed' = [elapsed EXCEPT ![k] = @ \cup {r}]
    /\ late' = IF k = "challenge" /\ ~challenge[r].answered
                 THEN late \cup {r} ELSE late
    /\ UNCHANGED <<rows, procs, failures, told, everPassed, slashSent, marks>>
-----------------------------------------------------------------------------
(***************************************************************************)
(* POST /v1/lease.  The job is read first, the chunk is taken in a         *)
(* transaction later.                                                      *)
(***************************************************************************)

StartLease(h, w) ==
    /\ pc[h] = "idle"
    /\ job = "open"
    /\ pc' = [pc EXCEPT ![h] = "leaseTx"]
    /\ who' = [who EXCEPT ![h] = w]
    /\ UNCHANGED <<rows, rid, todo, elapsed, failures, history>>

\* Mutant: a chunk in verification is handed out too.
PendingOrHeld == {c \in Chunks : chunk[c].state \in {"pending", "verifying"}}

Pending == {c \in Chunks : chunk[c].state = "pending"}

\* Other requests whose transaction may hold a row lock.
Leasing(h) == {g \in Handlers \ {h} : pc[g] = "leaseTx"}

\* The results submitted for the chunk so far, those on their way included.
FiledFor(c) ==
    {r \in Results : /\ result[r].chunk = c
                     /\ result[r].state # "none" \/ \E p \in Procs : rid[p] = r}

\* The first pending chunk, or a later one past those that are locked.
LeaseTx(h) ==
    /\ pc[h] = "leaseTx"
    /\ pc' = [pc EXCEPT ![h] = "idle"]
    /\ who' = [who EXCEPT ![h] = NoWorker]
    /\ \/ /\ Cardinality(Pending) <= Cardinality(Leasing(h))
          /\ UNCHANGED <<chunk, superseded>>
       \/ \E c \in Pending :
            /\ Cardinality({d \in Pending : d < c}) <= Cardinality(Leasing(h))
            /\ chunk' = [chunk EXCEPT ![c] =
                            [state |-> "leased", holder |-> who[h], live |-> TRUE,
                             attempts |-> @.attempts]]
            /\ superseded' = superseded \cup FiledFor(c)
    /\ UNCHANGED <<job, result, challenge, rejection, delivered, credits, rid,
                   todo, elapsed, failures, notes, overlapped>>
-----------------------------------------------------------------------------
(***************************************************************************)
(* POST /v1/results.  The request is checked against the chunk row; a      *)
(* stake look-up on chain lies between that and the insert.                *)
(***************************************************************************)

\* The id the next inserted row gets.
IsNextResult(r) ==
    /\ result[r].state = "none" /\ \A p \in Procs : rid[p] # r
    /\ \A q \in Results : q < r => \/ result[q].state # "none"
                                   \/ \E p \in Procs : rid[p] = q

StartSubmit(h, c, good) ==
    /\ chunk[c].state = "leased" /\ chunk[c].live
    /\ TakesUp({c})
    /\ \E r \in Results :
         /\ IsNextResult(r)
         /\ superseded' = superseded \ {r}
         /\ Begin(h, r, "insert")
         /\ result' = [result EXCEPT ![r] =
                         [state |-> "none", chunk |-> c,
                          worker |-> chunk[c].holder, good |-> good]]
    /\ UNCHANGED <<job, chunk, challenge, rejection, delivered, credits,
                   elapsed, notes>>

InsertResult(h) ==
    /\ Move(h, "insert", "markSubmitted")
    /\ SetResult(rid[h], "pending")
    /\ UNCHANGED <<job, chunk, challenge, rejection, delivered, credits,
                   elapsed, history>>

\* The witness and honeypot checks: only this mode has them, they read nothing
\* that changes, and sound work passes them.
ChecksMayFail(r) == Mode = "witness_extremum" /\ ~result[r].good

MarkSubmitted(h) ==
    /\ \/ Move(h, "markSubmitted", "decide")
       \/ Move(h, "markSubmitted", "fail") /\ ChecksMayFail(rid[h])
    /\ SetChunk(ChunkOf(h), "submitted")
    /\ UNCHANGED <<job, result, challenge, rejection, delivered, credits,
                   elapsed, history>>

\* Mutant: the count is not restricted to the worker.
PassedByAnyone(r) == {q \in Results \ {r} : result[q].state = "passed"}

PassedBefore(r) == {q \in Results \ {r} : /\ result[q].state = "passed"
                                          /\ result[q].worker = result[r].worker}

\* A record claim or the draw of randomInt may ask for an audit at any time.
DecideChallenge(h) ==
    /\ \/ Move(h, "decide", "issue")
       \/ /\ Move(h, "decide", "pass")
          /\ Cardinality(PassedBefore(rid[h])) >= TrustAfter
    /\ UNCHANGED <<rows, elapsed, history>>

IssueChallenge(h) ==
    /\ Move(h, "issue", "markChallenged")
    /\ SetPassed(rid[h], "null")
    /\ UNCHANGED <<job, chunk, result, rejection, delivered, credits, elapsed,
                   history>>

MarkChallenged(h) ==
    /\ Move(h, "markChallenged", "markVerifying")
    /\ SetResult(rid[h], "challenged")
    /\ UNCHANGED <<job, chunk, challenge, rejection, delivered, credits,
                   elapsed, history>>

MarkVerifying(h) ==
    /\ Finish(h, "markVerifying")
    /\ SetChunk(ChunkOf(h), "verifying")
    /\ told' = told \cup {rid[h]}
    /\ UNCHANGED <<job, result, challenge, rejection, delivered, credits,
                   elapsed, late, everPassed, slashSent, marks>>
-----------------------------------------------------------------------------
(***************************************************************************)
(* POST /v1/challenge-response: judgeChallengeResponse.                    *)
(***************************************************************************)

StartRespond(h, r) ==
    /\ r \in told /\ challenge[r].passed = "null"
    /\ TakesUp({result[r].chunk})
    /\ Begin(h, r, "stamp")
    /\ UNCHANGED <<rows, elapsed, notes, superseded>>

StampResponse(h) ==
    /\ Move(h, "stamp", "judge")
    /\ challenge' = [challenge EXCEPT ![rid[h]].answered = TRUE]
    /\ elapsed' = [elapsed EXCEPT !["stall"] = @ \ {rid[h]}]
    /\ UNCHANGED <<job, chunk, result, rejection, delivered, credits, history>>

\* Mutant: the result is not marked.
VerdictSkipsMark(h) ==
    /\ Move(h, "judge", "accept")
    /\ SetPassed(rid[h], "true")
    /\ UNCHANGED <<job, chunk, result, rejection, delivered, credits, elapsed,
                   history>>

\* The recompute reads nothing that changes.  The sampled buckets may miss
\* what is wrong with unsound work.
VerdictTrue(h) ==
    /\ Move(h, "judge", "pass")
    /\ SetPassed(rid[h], "true")
    /\ UNCHANGED <<job, chunk, result, rejection, delivered, credits, elapsed,
                   history>>

\* Mutant: an early return without rejectResult.
VerdictReturns(h) ==
    /\ Finish(h, "judge")
    /\ ~result[rid[h]].good
    /\ SetPassed(rid[h], "false")
    /\ UNCHANGED <<job, chunk, result, rejection, delivered, credits, elapsed,
                   history>>

VerdictFalse(h) ==
    /\ Move(h, "judge", "fail")
    /\ ~result[rid[h]].good
    /\ SetPassed(rid[h], "false")
    /\ UNCHANGED <<job, chunk, result, rejection, delivered, credits, elapsed,
                   history>>
-----------------------------------------------------------------------------
(***************************************************************************)
(* PUT /v1/results/:id/outputs: deliverOutputs, for outputs that match the *)
(* root the result committed to.  The chunk row is what is checked, not    *)
(* the state of the result.                                                *)
(***************************************************************************)

StartDeliver(h, r) ==
    /\ Mode = "output_hash"
    /\ r \in told
    /\ chunk[result[r].chunk].state = "awaiting_outputs"
    /\ TakesUp({result[r].chunk})
    /\ Begin(h, r, "store")
    /\ UNCHANGED <<rows, elapsed, notes, superseded>>

StoreOutputs(h) ==
    /\ Move(h, "store", "accept")
    /\ delivered' = delivered \cup {rid[h]}
    /\ UNCHANGED <<job, chunk, result, challenge, rejection, credits, elapsed,
                   history>>
-----------------------------------------------------------------------------
(***************************************************************************)
(* awaitOutputs and acceptResult: the first statement is the same.         *)
(* deliverOutputs joins acceptResult at its second one.                    *)
(***************************************************************************)

\* Mutant: every mode is paid when verification passes.
PassAccepts(p) ==
    /\ Move(p, "pass", "accept")
    /\ SetResult(rid[p], "passed")
    /\ everPassed' = everPassed \cup {rid[p]}
    /\ elapsed' = [elapsed EXCEPT !["delivery"] = @ \ {rid[p]}]
    /\ UNCHANGED <<job, chunk, challenge, rejection, delivered, credits, told,
                   late, slashSent, marks>>

PassResult(p) ==
    /\ Move(p, "pass", IF Mode = "witness_extremum" THEN "accept"
                                                    ELSE "awaitOutputs")
    /\ SetResult(rid[p], "passed")
    /\ everPassed' = everPassed \cup {rid[p]}
    /\ elapsed' = [elapsed EXCEPT !["delivery"] = @ \ {rid[p]}]
    /\ UNCHANGED <<job, chunk, challenge, rejection, delivered, credits, told,
                   late, slashSent, marks>>

AwaitOutputs(p) ==
    /\ Finish(p, "awaitOutputs")
    /\ SetChunk(ChunkOf(p), "awaiting_outputs")
    /\ told' = told \cup {rid[p]}
    /\ UNCHANGED <<job, result, challenge, rejection, delivered, credits,
                   elapsed, late, everPassed, slashSent, marks>>

\* Mutant: the credit is left out.
AcceptUnpaid(p) ==
    /\ Move(p, "accept", "count")
    /\ SetChunk(ChunkOf(p), "accepted")
    /\ UNCHANGED <<job, result, challenge, rejection, delivered, credits,
                   elapsed, history>>

AcceptChunk(p) ==
    /\ Move(p, "accept", "credit")
    /\ SetChunk(ChunkOf(p), "accepted")
    /\ UNCHANGED <<job, result, challenge, rejection, delivered, credits,
                   elapsed, history>>

CreditEarnings(p) ==
    /\ Move(p, "credit", "count")
    /\ credits' = [credits EXCEPT ![rid[p]] = @ + 1]
    /\ UNCHANGED <<job, chunk, result, challenge, rejection, delivered,
                   elapsed, history>>

\* maybeCompleteJob reads the count and closes the job in two statements.
CountRemaining(p) ==
    /\ \/ /\ \A c \in Chunks : chunk[c].state \notin InFlight
          /\ Move(p, "count", "close")
       \/ /\ \E c \in Chunks : chunk[c].state \in InFlight
          /\ Finish(p, "count")
    /\ UNCHANGED <<rows, elapsed, history>>

CloseJob(p) ==
    /\ Finish(p, "close")
    /\ job' = "closed"
    /\ UNCHANGED <<chunk, result, challenge, rejection, delivered, credits,
                   elapsed, history>>
-----------------------------------------------------------------------------
(***************************************************************************)
(* rejectResult, for a failed check, a failed challenge or, from the       *)
(* sweeper, an unanswered one.  Every one of them slashes.                 *)
(***************************************************************************)

\* "witness_failed" stands for "honeypot_failed" too.
ReasonOf(p) == CASE p = Sweeper -> "challenge_timeout"
                 [] p # Sweeper /\ challenge[rid[p]].passed = "none" -> "witness_failed"
                 [] OTHER -> "challenge_failed"

\* on conflict (result_id) do nothing
Reject(r, reason) ==
    rejection' = [rejection EXCEPT ![r] = IF @ = "none" THEN reason ELSE @]

\* Mutant: the rejection is not recorded.
FailUnrecorded(p) ==
    /\ Move(p, "fail", "repool")
    /\ SetResult(rid[p], "failed")
    /\ UNCHANGED <<job, chunk, challenge, rejection, delivered, credits,
                   elapsed, history>>

FailResult(p) ==
    /\ Move(p, "fail", "reject")
    /\ SetResult(rid[p], "failed")
    /\ UNCHANGED <<job, chunk, challenge, rejection, delivered, credits,
                   elapsed, history>>

RecordRejection(p) ==
    /\ Move(p, "reject", "repool")
    /\ Reject(rid[p], ReasonOf(p))
    /\ UNCHANGED <<job, chunk, result, challenge, delivered, credits, elapsed,
                   history>>

RepoolAndSlash(p) ==
    /\ Finish(p, "repool")
    /\ chunk' = [chunk EXCEPT ![ChunkOf(p)] = Pooled(ChunkOf(p), 1)]
    /\ slashSent' = slashSent \cup {rid[p]}
    /\ UNCHANGED <<job, result, challenge, rejection, delivered, credits,
                   elapsed, told, late, everPassed, marks>>
-----------------------------------------------------------------------------
(***************************************************************************)
(* The sweeper's tick: the two loops of expireChallenges, the loop of      *)
(* expireDeliveries, the lease statements.  Each loop runs over rows       *)
(* selected before its first turn.  A stage that selects nothing changes   *)
(* nothing and ticks follow each other for ever, so the sweeper is modelled*)
(* as stages that begin when they have something to do, in any order.      *)
(***************************************************************************)

Select(S, loop) ==
    /\ pc[Sweeper] = "idle"
    /\ S # {}
    /\ TakesUp({result[r].chunk : r \in S})
    /\ todo' = S
    /\ pc' = [pc EXCEPT ![Sweeper] = loop]
    /\ UNCHANGED <<rows, rid, who, elapsed, failures, notes, superseded>>

\* The next turn of a loop, for row r.
Turn(from, r, to) ==
    /\ pc[Sweeper] = from
    /\ r \in todo
    /\ todo' = todo \ {r}
    /\ rid' = [rid EXCEPT ![Sweeper] = r]
    /\ pc' = [pc EXCEPT ![Sweeper] = to]
    /\ UNCHANGED <<who, failures>>

\* The turn of a loop ends; the loop takes its next row, if there is one.
EndTurn(from, loop) ==
    /\ pc[Sweeper] = from
    /\ pc' = [pc EXCEPT ![Sweeper] = IF todo = {} THEN "idle" ELSE loop]
    /\ rid' = [rid EXCEPT ![Sweeper] = NoResult]
    /\ UNCHANGED <<who, todo, failures>>

\* Mutant: answered challenges are not left to the second loop.
SelectUnjudged ==
    Select({r \in elapsed["challenge"] : challenge[r].passed = "null"}, "expire")

SelectUnanswered ==
    Select({r \in elapsed["challenge"] : /\ challenge[r].passed = "null"
                                         /\ ~challenge[r].answered}, "expire")

ExpireChallenge(r) ==
    /\ Turn("expire", r, "fail")
    /\ SetPassed(r, "false")
    /\ UNCHANGED <<job, chunk, result, rejection, delivered, credits, elapsed,
                   history>>

SelectStalled ==
    Select({r \in elapsed["stall"] :
              /\ challenge[r].passed = "null" /\ challenge[r].answered
              /\ chunk[result[r].chunk].state = "verifying"}, "stalled")

HealStalled(r) ==
    /\ Turn("stalled", r, "stalledResult")
    /\ SetPassed(r, "false")
    /\ UNCHANGED <<job, chunk, result, rejection, delivered, credits, elapsed,
                   history>>

StalledResult ==
    /\ Move(Sweeper, "stalledResult", "stalledChunk")
    /\ SetResult(rid[Sweeper], "failed")
    /\ UNCHANGED <<job, chunk, challenge, rejection, delivered, credits,
                   elapsed, history>>

StalledChunk ==
    /\ EndTurn("stalledChunk", "stalled")
    /\ chunk' = [chunk EXCEPT ![ChunkOf(Sweeper)] = Pooled(ChunkOf(Sweeper), 0)]
    /\ UNCHANGED <<job, result, challenge, rejection, delivered, credits,
                   elapsed, history>>

SelectUndelivered ==
    Select({r \in elapsed["delivery"] :
              /\ result[r].state = "passed"
              /\ chunk[result[r].chunk].state = "awaiting_outputs"}, "undelivered")

ExpireDelivery(r) ==
    /\ Turn("undelivered", r, "undeliveredRow")
    /\ SetResult(r, "failed")
    /\ UNCHANGED <<job, chunk, challenge, rejection, delivered, credits,
                   elapsed, history>>

UndeliveredRow ==
    /\ Move(Sweeper, "undeliveredRow", "undeliveredChunk")
    /\ Reject(rid[Sweeper], "output_delivery_timeout")
    /\ UNCHANGED <<job, chunk, result, challenge, delivered, credits, elapsed,
                   history>>

UndeliveredChunk ==
    /\ EndTurn("undeliveredChunk", "undelivered")
    /\ chunk' = [chunk EXCEPT ![ChunkOf(Sweeper)] = Pooled(ChunkOf(Sweeper), 1)]
    /\ UNCHANGED <<job, result, challenge, rejection, delivered, credits,
                   elapsed, history>>

\* Mutant: the clock is not looked at.
ExpiredAny(c) == chunk[c].state = "leased"

Expired(c) == chunk[c].state = "leased" /\ ~chunk[c].live

TooOften(c) == Expired(c) /\ chunk[c].attempts >= QuarantineAt

Quarantine ==
    /\ Move(Sweeper, "idle", "reclaim")
    /\ \E c \in Chunks : Expired(c)
    /\ TakesUp({c \in Chunks : TooOften(c)})
    /\ chunk' = [c \in Chunks |->
                   IF TooOften(c)
                     THEN [chunk[c] EXCEPT !.state = "quarantined", !.holder = NoWorker]
                     ELSE chunk[c]]
    /\ UNCHANGED <<job, result, challenge, rejection, delivered, credits,
                   elapsed, notes, superseded>>

Reclaim ==
    /\ Move(Sweeper, "reclaim", "idle")
    /\ TakesUp({c \in Chunks : Expired(c)})
    /\ chunk' = [c \in Chunks |-> IF Expired(c) THEN Pooled(c, 1) ELSE chunk[c]]
    /\ UNCHANGED <<job, result, challenge, rejection, delivered, credits,
                   elapsed, notes, superseded>>
-----------------------------------------------------------------------------
(***************************************************************************)
(* A statement, a module load or a verify thread throws, or the            *)
(* coordinator restarts: the process is gone between two statements.       *)
(***************************************************************************)

ProcessFails(p) ==
    /\ pc[p] # "idle"
    /\ failures < MaxFailures
    /\ failures' = failures + 1
    /\ pc' = [pc EXCEPT ![p] = "idle"]
    /\ rid' = [rid EXCEPT ![p] = NoResult]
    /\ who' = [who EXCEPT ![p] = NoWorker]
    /\ todo' = IF p = Sweeper THEN {} ELSE todo
    /\ result' = [r \in Results |-> IF r = rid[p] /\ result[r].state = "none"
                                      THEN FreeRow ELSE result[r]]
    /\ UNCHANGED <<job, chunk, challenge, rejection, delivered, credits,
                   elapsed, history>>

AcceptStep(h) ==
    \/ PassResult(h) \/ AwaitOutputs(h) \/ AcceptChunk(h) \/ CreditEarnings(h)
    \/ CountRemaining(h) \/ CloseJob(h)

RejectStep(p) == FailResult(p) \/ RecordRejection(p) \/ RepoolAndSlash(p)

HandlerStep(h) ==
    \/ LeaseTx(h) \/ InsertResult(h) \/ MarkSubmitted(h)
    \/ DecideChallenge(h) \/ IssueChallenge(h) \/ MarkChallenged(h)
    \/ MarkVerifying(h) \/ StampResponse(h)
    \/ VerdictTrue(h) \/ VerdictFalse(h) \/ StoreOutputs(h)
    \/ AcceptStep(h) \/ RejectStep(h)

SweepStep ==
    \/ SelectUnanswered \/ \E r \in Results : ExpireChallenge(r)
    \/ SelectStalled \/ \E r \in Results : HealStalled(r)
    \/ StalledResult \/ StalledChunk
    \/ SelectUndelivered \/ \E r \in Results : ExpireDelivery(r)
    \/ UndeliveredRow \/ UndeliveredChunk
    \/ Quarantine \/ Reclaim
    \/ RejectStep(Sweeper)

Request(h) ==
    \/ \E w \in Workers : StartLease(h, w)
    \/ \E c \in Chunks, good \in BOOLEAN : StartSubmit(h, c, good)
    \/ \E r \in Results : StartRespond(h, r) \/ StartDeliver(h, r)

TimePasses ==
    \/ \E c \in Chunks : LeaseExpires(c)
    \/ \E r \in Results, k \in Windows : WindowElapses(r, k)

Next ==
    \/ \E h \in Handlers : Request(h) \/ HandlerStep(h)
    \/ SweepStep
    \/ TimePasses
    \/ \E p \in Procs : ProcessFails(p)

Spec == Init /\ [][Next]_vars

\* A request that was started runs to its end, the sweeper's timer keeps
\* firing, and clocks advance.  Nothing makes a worker send a request.
Fairness ==
    /\ \A h \in Handlers : WF_vars(HandlerStep(h))
    /\ WF_vars(SweepStep)
    /\ SF_vars(SelectUnanswered) /\ SF_vars(SelectStalled)
    /\ SF_vars(SelectUndelivered) /\ SF_vars(Quarantine)
    /\ \A c \in Chunks : WF_vars(LeaseExpires(c))
    /\ \A r \in Results, k \in Windows : WF_vars(WindowElapses(r, k))

FairSpec == Spec /\ Fairness
-----------------------------------------------------------------------------
(***************************************************************************)
(* What holds whatever the interleaving.                                   *)
(***************************************************************************)

\* Delivery gates payment (deliverOutputs): when the work of a bounty is its
\* output, nothing is credited for a result whose outputs are not stored.
CreditAfterDelivery ==
    Mode = "output_hash" =>
        \A r \in Results : credits[r] > 0 => r \in delivered

\* Nothing is credited for a result that never passed verification
\* (acceptResult credits only after it has marked the result).  Checked where
\* the verdict is what is paid for; deliverOutputs looks at the chunk alone,
\* see TimedOutUnpaid.
PaidWasVerified ==
    \A r \in Results : credits[r] > 0 => r \in everPassed

\* A result paid without a challenge comes from a worker with at least
\* TrustAfter other results that had passed: the count of prior results in
\* verifySubmission, which is read long before the credit is written.
MandatoryAudit ==
    \A r \in Results :
        credits[r] > 0 /\ challenge[r].passed = "none" =>
            Cardinality({q \in everPassed \ {r} :
                           result[q].worker = result[r].worker}) >= TrustAfter

\* Until the coordinator fails, a worker whose work is sound loses its bond only
\* for a challenge it was told about and left unanswered for the whole window:
\* never for an answer that is still being judged (expireChallenges skips what
\* was answered).  A failure between IssueChallenge and the answer that tells
\* the worker breaks it: the sweeper then expires a challenge nobody knows of.
HonestNeverSlashed ==
    failures = 0 => \A r \in slashSent : result[r].good => r \in told /\ r \in late

\* Every slash leaves a rejection on file for the audit endpoint, even when
\* the process dies half-way through rejectResult.
SlashHasTranscript ==
    \A r \in slashSent : rejection[r] # "none"

\* Until the coordinator fails, an accepted chunk has been credited, or the
\* process that accepted it is about to (acceptResult; nothing takes up the
\* credit of a process that was lost).
AcceptedIsPaid ==
    failures = 0 =>
        \A c \in Chunks : chunk[c].state = "accepted" =>
            \/ \E r \in Results : result[r].chunk = c /\ credits[r] > 0
            \/ \E p \in Procs : pc[p] = "credit" /\ ChunkOf(p) = c
-----------------------------------------------------------------------------
(***************************************************************************)
(* What holds of a chunk until two activities overlap on it, and after.    *)
(***************************************************************************)

\* The holder's own submission marks the chunk.
HolderSubmits(c) ==
    \E h \in Handlers :
        /\ pc[h] = "markSubmitted" /\ pc'[h] # "markSubmitted"
        /\ ChunkOf(h) = c /\ result[rid[h]].worker = chunk[c].holder
        /\ chunk'[c].state = "submitted"

\* A process goes on with a result that is older than the lease.
OldResultActs(c) ==
    \E p \in Procs : /\ rid[p] \in superseded /\ pc'[p] # pc[p]
                     /\ ChunkOf(p) = c

\* A lease that runs is ended by the submission of its holder and by nobody
\* else, but for a process that is still busy with a result of an earlier lease:
\* the updates of verification.ts, and that of the submission route, are by the
\* id of the chunk alone.  And there is such a process only after the chunk was
\* taken up while another was busy with it: reclaimed under a submission, say,
\* or answered for while the sweep had the challenge on its list.
LeaseRespected ==
    [][\A c \in Chunks : chunk[c].state = "leased" /\ chunk[c].live =>
         \/ chunk'[c].state = "leased" /\ chunk'[c].holder = chunk[c].holder
         \/ HolderSubmits(c)
         \/ overlapped /\ OldResultActs(c)]_chunk

\* What the creator of the bounty sees of a chunk.
StatusOf(c) ==
    CASE chunk[c].state = "pending"     -> "open"
      [] chunk[c].state = "accepted"    -> "done"
      [] chunk[c].state = "quarantined" -> "dropped"
      [] OTHER                          -> "held"

\* The prices credited for a chunk, each with its result and its number.
Payments(c) ==
    UNION {{r} \X (1..credits[r]) : r \in {q \in Results : result[q].chunk = c}}

PaidFor(c) == Cardinality(Payments(c))

Board == INSTANCE ChunkBoard WITH
    Nobody <- NoWorker,
    status <- [c \in Chunks |-> StatusOf(c)],
    holder <- [c \in Chunks |-> chunk[c].holder],
    paid   <- [c \in Chunks |-> PaidFor(c)],
    closed <- job = "closed"

\* The handlers and the sweeper together implement the board: every step of
\* theirs is a step of the board or leaves it as it is, up to the first one that
\* takes up a chunk another is still busy with.
KeepsPromise ==
    Board!Init /\ [][~overlapped' => [Board!Next]_(Board!board)]_vars

\* Outputs that came too late for their window are never paid: the redo of
\* the chunk is (plans/cwf/01-output-hash-mode.md, section 5).
TimedOutUnpaid ==
    \A r \in Results : rejection[r] = "output_delivery_timeout" => credits[r] = 0

\* A chunk that is being verified, or waits for its outputs, is accepted or
\* handed out again, whatever the worker does.
Resolves ==
    \A c \in Chunks :
        chunk[c].state \in {"leased", "submitted", "verifying", "awaiting_outputs"}
            ~> chunk[c].state \in {"pending", "accepted", "quarantined"}

\* A bounty with nothing left to do is closed (maybeCompleteJob).
JobCloses ==
    (\A c \in Chunks : chunk[c].state \notin InFlight) ~> job = "closed"
=============================================================================
