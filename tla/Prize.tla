------------------------------- MODULE Prize --------------------------------
(***************************************************************************)
(* A prize bounty: open submission of candidates, each evaluated once in   *)
(* the candidate pool, and the award by the sweeper after the deadline     *)
(* (candidates.ts, jobs.ts createPrizeJob, the prize branches of           *)
(* routes.ts), until the winner has claimed and the funder has reclaimed   *)
(* the rest.  Amounts are in units of the prize, which is the budget.      *)
(***************************************************************************)
EXTENDS BucketPool, Sequences, SequencesExt

CONSTANTS
    Workers,
    Scores,       \* the true scores of candidates
    Threshold,
    QUEUE_CAP,
    MaxRestarts,  \* bound on restarts of the coordinator
    MaxReports    \* bound on the funder's reports at one time

ASSUME PrizeAssumption ==
    /\ Scores \subseteq Int /\ Threshold \in Int
    /\ QUEUE_CAP \in Nat /\ MaxRestarts \in Nat /\ MaxReports \in Nat

VARIABLES
    status, due, winner,
    reports,   \* the funder's reports that are past their checks
    reopened,  \* history: a report has opened the job after it was closed
    sub,       \* of each submission: its stage
    inFlight,
    rows,      \* candidate_submissions in the order of submitted_at
    early,     \* history: the submissions answered "verified" before the deadline
    sweep, pick,
    earned,    \* earnings of the job, by worker
    claimed, escrow,
    restarts

job   == <<status, due, winner, reports, reopened>>
money == <<earned, claimed, escrow>>
vars  == <<pool, job, sub, inFlight, rows, early, sweep, pick, money, restarts>>

NoOne == 0
ASSUME NoOneIsNobody == NoOne \notin Workers

Stage(s, st) == sub' = [sub EXCEPT ![s] = st]

\* The job is inserted as a draft whose budget is the prize.
Init ==
    /\ PoolInit
    /\ status = "draft" /\ due = FALSE /\ winner = NoOne
    /\ reports = 0 /\ reopened = FALSE
    /\ sub = [s \in Requests |-> "none"]
    /\ inFlight = 0 /\ rows = << >> /\ early = {}
    /\ sweep = "idle" /\ pick = NoOne
    /\ earned = [w \in Workers |-> 0] /\ claimed = [w \in Workers |-> 0]
    /\ escrow = 0 /\ restarts = 0

\* initialize_job, with the budget that the draft asks for.
Deposit ==
    /\ status = "draft" /\ escrow = 0
    /\ escrow' = 1
    /\ UNCHANGED <<pool, job, sub, inFlight, rows, early, sweep, pick, earned, claimed, restarts>>

\* POST /v1/jobs/:id/funded reads a draft and waits for its escrow, which stays
\* from the deposit until the job is open: both can be seen at one time.  Then it
\* opens the job, whatever the hour and whatever has become of the job.
CheckFunding ==
    /\ status = "draft" /\ escrow = 1
    /\ reports < MaxReports /\ reports' = reports + 1
    /\ UNCHANGED <<pool, status, due, winner, reopened, sub, inFlight, rows, early, sweep, pick, money, restarts>>

Funded ==
    /\ reports > 0 /\ reports' = reports - 1
    /\ status' = "open"
    /\ reopened' = (reopened \/ status = "closed")
    /\ UNCHANGED <<pool, due, winner, sub, inFlight, rows, early, sweep, pick, money, restarts>>

Deadline ==
    /\ ~due /\ due' = TRUE
    /\ UNCHANGED <<pool, status, winner, reports, reopened, sub, inFlight, rows, early, sweep, pick, money, restarts>>

\* A POST looks at the queue's length first, and refuses or goes on to the job row.
Post(s) ==
    /\ sub[s] = "none" /\ \A q \in Requests : q < s => sub[q] # "none"
    /\ Stage(s, IF inFlight >= QUEUE_CAP THEN "refused" ELSE "read")
    /\ UNCHANGED <<pool, job, inFlight, rows, early, sweep, pick, money, restarts>>

ReadJob(s) ==
    /\ sub[s] = "read"
    /\ Stage(s, IF status = "open" /\ ~due THEN "user" ELSE "refused")
    /\ UNCHANGED <<pool, job, inFlight, rows, early, sweep, pick, money, restarts>>

\* The submitter's row is there: counted, and given to the pool.
Evaluate(s) ==
    /\ sub[s] = "user"
    /\ inFlight' = inFlight + 1
    /\ Dispatch(s)
    /\ Stage(s, "eval")
    /\ UNCHANGED <<job, rows, early, sweep, pick, money, restarts>>

\* Mutant: the count is taken back only where the evaluation returns.
EvaluatedLeaking(s) ==
    /\ sub[s] = "eval" /\ settled[s] # Unsettled
    /\ inFlight' = IF settled[s].how \in {"ok", "wrong"} THEN inFlight - 1 ELSE inFlight
    /\ Stage(s, "insert")
    /\ UNCHANGED <<pool, job, rows, early, sweep, pick, money, restarts>>

Evaluated(s) ==
    /\ sub[s] = "eval" /\ settled[s] # Unsettled
    /\ inFlight' = inFlight - 1
    /\ Stage(s, "insert")
    /\ UNCHANGED <<pool, job, rows, early, sweep, pick, money, restarts>>

\* The row, whatever became of the job since, with the submitter and the score,
\* which nothing looks at before; only "ok" is a score as claimed.
Verified(s) == settled[s].how = "ok"
Insert(s) ==
    /\ sub[s] = "insert"
    /\ \E w \in Workers, sc \in Scores :
         rows' = Append(rows, [sub |-> s, worker |-> w, score |-> sc,
                               state |-> IF Verified(s) THEN "verified" ELSE "rejected"])
    /\ early' = IF Verified(s) /\ ~due THEN early \cup {s} ELSE early
    /\ Stage(s, "answered")
    /\ UNCHANGED <<pool, job, inFlight, sweep, pick, money, restarts>>
-----------------------------------------------------------------------------
(* finalizePrizes: the due jobs, the winner, its earnings, the job's row.  *)

\* Mutant: the job is closed before the winner is credited.
SweepNextClosing == [due |-> "pick", pick |-> "close", close |-> "credit", credit |-> "idle"]

SweepNext == [due |-> "pick", pick |-> "credit", credit |-> "close", close |-> "idle"]

Due ==
    /\ sweep = "idle" /\ status = "open" /\ due
    /\ sweep' = SweepNext.due
    /\ UNCHANGED <<pool, job, sub, inFlight, rows, early, pick, money, restarts>>

Contends(i) == rows[i].state = "verified" /\ rows[i].score > Threshold

\* Mutant: of two equal scores the later is preferred.
OutranksLater(i, j) == rows[i].score > rows[j].score \/ (rows[i].score = rows[j].score /\ i >= j)

Outranks(i, j) == rows[i].score > rows[j].score \/ (rows[i].score = rows[j].score /\ i <= j)
Best == LET contenders == {i \in DOMAIN rows : Contends(i)}
        IN  IF contenders = {} THEN NoOne
            ELSE rows[CHOOSE i \in contenders : \A j \in contenders : Outranks(i, j)].worker

Pick ==
    /\ sweep = "pick"
    /\ pick' = Best
    /\ sweep' = IF Best = NoOne THEN "close" ELSE SweepNext.pick
    /\ UNCHANGED <<pool, job, sub, inFlight, rows, early, money, restarts>>

Credit ==
    /\ sweep = "credit"
    /\ earned' = [earned EXCEPT ![pick] = 1]
    /\ sweep' = SweepNext.credit
    /\ UNCHANGED <<pool, job, sub, inFlight, rows, early, pick, claimed, escrow, restarts>>

Close ==
    /\ sweep = "close"
    /\ status' = "closed" /\ winner' = pick
    /\ sweep' = IF pick = NoOne THEN "idle" ELSE SweepNext.close
    /\ UNCHANGED <<pool, due, reports, reopened, sub, inFlight, rows, early, pick, money, restarts>>

\* The voucher flow, while the escrow can pay it.
Claim(w) ==
    /\ earned[w] > claimed[w] /\ escrow >= 1
    /\ claimed' = [claimed EXCEPT ![w] = 1]
    /\ escrow' = escrow - 1
    /\ UNCHANGED <<pool, job, sub, inFlight, rows, early, sweep, pick, earned, restarts>>

\* Mutant: a closed job's rest is the funder's.
ReclaimableClosed == status = "closed"

Reclaimable == status = "closed" /\ (winner # NoOne => \A w \in Workers : earned[w] <= claimed[w])

\* close-funding: what is left goes back.
Reclaim ==
    /\ Reclaimable /\ escrow > 0
    /\ escrow' = 0
    /\ UNCHANGED <<pool, job, sub, inFlight, rows, early, sweep, pick, earned, claimed, restarts>>

\* The process dies: the submissions it was at get no answer and no row, and the
\* reports it was at open nothing.
Restart ==
    /\ restarts < MaxRestarts /\ restarts' = restarts + 1
    /\ sub' = [s \in Requests |->
         IF sub[s] \in {"read", "user", "eval", "insert"} THEN "lost" ELSE sub[s]]
    /\ inFlight' = 0 /\ sweep' = "idle" /\ pick' = NoOne
    /\ nextId' = 1 /\ pending' = {} /\ worker' = 0
    /\ thread' = [t \in Spawned |-> IF t = 0 THEN [None EXCEPT !.state = "ready", !.listens = TRUE] ELSE None]
    /\ waits' = [t \in Spawned |-> 0]
    /\ reports' = 0
    /\ UNCHANGED <<settled, crashes, status, due, winner, reopened, rows, early, money>>

InPool ==
    /\ PoolStep
    /\ UNCHANGED <<job, sub, inFlight, rows, early, sweep, pick, money, restarts>>

Submission(s) == ReadJob(s) \/ Evaluate(s) \/ Evaluated(s) \/ Insert(s)
Report == CheckFunding \/ Funded
Sweep == Due \/ Pick \/ Credit \/ Close

Next ==
    \/ Deposit \/ Report \/ Deadline \/ Restart \/ Reclaim \/ InPool \/ Sweep
    \/ \E s \in Requests : Post(s) \/ Submission(s)
    \/ \E w \in Workers : Claim(w)

\* Timers fire, queries return and the sweeper's interval comes round; nobody
\* has to post, fund, claim or restart, and no module has to finish.
Fairness ==
    /\ WF_vars(Deadline)
    /\ \A s \in Requests : WF_vars(Submission(s)) /\ WF_vars(InPool /\ Timeout(s))
    /\ WF_vars(Sweep)

Spec == Init /\ [][Next]_vars
FairSpec == Spec /\ Fairness
-----------------------------------------------------------------------------
\* The count the cap is compared with is that of the evaluations under way,
\* however they end: by an answer, an error, a timeout or another's timeout.
CountExact == inFlight = Cardinality({s \in Requests : sub[s] = "eval"})

\* What candidates.ts:97 says of the award: it is one-shot.
AwardOnce == Cardinality({w \in Workers : earned[w] > 0}) <= 1

\* Whoever was told before the deadline that a candidate above the threshold is
\* verified loses only to a higher score or to an earlier equal one, and the job
\* is not closed without a winner then; restarts of the sweep included.
BestWins ==
    status = "closed" =>
        \A i \in DOMAIN rows : rows[i].sub \in early /\ rows[i].score > Threshold =>
            \E j \in DOMAIN rows : /\ rows[j].worker = winner /\ rows[j].state = "verified"
                                   /\ rows[j].score > rows[i].score \/ (rows[j].score = rows[i].score /\ j <= i)

\* A job that is closed with a winner has credited it, through restarts of the
\* sweep; and as long as no restart, and no report that came too late, has made
\* a second winner, nobody else was credited and the escrow is not emptied on
\* the winner before it has claimed.
PrizeKept ==
    /\ status = "closed" /\ winner # NoOne => earned[winner] = 1
    /\ restarts = 0 /\ ~reopened =>
         /\ AwardOnce
         /\ status = "closed" => \A w \in Workers : earned[w] > 0 => w = winner
         /\ status = "closed" /\ winner # NoOne /\ escrow = 0 => claimed[winner] = 1

\* A candidate that is being evaluated gets an answer, though its own or another
\* one's evaluation hangs, and a funded bounty is decided after its deadline.
Settles ==
    /\ \A s \in Requests : sub[s] = "eval" ~> sub[s] \in {"answered", "lost"}
    /\ status = "open" ~> status = "closed"
=============================================================================
