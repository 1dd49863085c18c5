------------------------------ MODULE Posting ------------------------------
(***************************************************************************)
(* A bounty from the form to its last chunk: the page creates the job      *)
(* under its session, the coordinator writes the job and its chunks, the   *)
(* page's wallet funds the escrow and the coordinator opens the job when   *)
(* it finds the escrow on chain (bounties/new and bounties/[id], routes.ts *)
(* POST /v1/jobs and /funded, jobs.ts).  The session is SignIn's.          *)
(***************************************************************************)
EXTENDS SignIn, JobPlan, SequencesExt

CONSTANTS
    Jobs, NoJob,
    Forms,       \* what a requester may fill in
    BATCH,       \* chunk rows per insert
    MaxCalls     \* bound on the reports of a funding that are under way

ASSUME PostingAssumption == NoJob \notin Jobs /\ BATCH \in Nat \ {0} /\ MaxCalls \in Nat

\* The page offers a rate and a number of lineages only from lists of its own.
ASSUME FormsAssumption == Forms # {} /\ \A f \in Forms :
    /\ f \in [kind : {"coverage", "training", "prize"}, start : Nat, end : Nat,
              rate : Nat, lineages : Nat, price : Nat, prize : Nat]
    /\ f.kind = "coverage" => f.rate > 0
    /\ f.kind = "training" => f.lineages \in 1..MAX_LINEAGES

VARIABLES
    post,        \* the page's post() or fund(): where it awaits, and what it captured
    job,         \* of each job: its form, its row, how far its creation is
    rows, done,  \* of each job: its chunks, and those no longer in flight
    escrow,      \* of each job: its account on chain
    calls,       \* of each job: the reports of a funding under way
    closing,     \* of each job: where maybeCompleteJob is
    partial,     \* history: jobs whose creation was cut short, or overtaken by the funding
    doubled,     \* history: jobs whose funding was reported twice at a time
    lost         \* history: the page was closed or a call of its failed

server  == <<job, rows, done, closing>>
history == <<partial, doubled, lost>>
vars    == <<signIn, post, server, escrow, calls, history>>

NoPost   == [at |-> "idle", job |-> NoJob, session |-> NoWallet, funder |-> NoWallet, fund |-> [budget |-> 0, price |-> 0]]
NoRow    == [status |-> "none", creator |-> NoWallet, form |-> CHOOSE f \in Forms : TRUE, left |-> <<>>, phase |-> "none"]
NoEscrow == [funder |-> NoWallet, budget |-> 0, price |-> 0]

Init ==
    /\ SignInInit
    /\ post = NoPost
    /\ job = [j \in Jobs |-> NoRow]
    /\ rows = [j \in Jobs |-> {}] /\ done = [j \in Jobs |-> {}]
    /\ escrow = [j \in Jobs |-> NoEscrow]
    /\ calls = [j \in Jobs |-> [fetch |-> 0, open |-> 0]]
    /\ closing = [j \in Jobs |-> "no"]
    /\ partial = {} /\ doubled = {} /\ lost = FALSE

\* post(): the session, the wallet and the amounts are those of the click.
PostClick(j, f) ==
    /\ post.at = "idle" /\ job[j] = NoRow
    /\ token # NoWallet /\ (Priced(f) => connected # NoWallet)
    /\ post' = [at |-> "creating", job |-> j, session |-> token, funder |-> connected, fund |-> PageFund(f)]
    /\ job' = [job EXCEPT ![j].creator = token, ![j].form = f, ![j].phase = "asked"]
    /\ UNCHANGED <<signIn, rows, done, closing, escrow, calls, history>>

\* The page still awaits the answer for j, and has not gone.
Awaits(j) == post.at = "creating" /\ post.job = j

\* The job's row is written first, and a free job is open from then on.
CreateJob(j) ==
    LET f == job[j].form
    IN  /\ job[j].phase = "asked"
        /\ IF Accepted(f)
           THEN /\ job' = [job EXCEPT ![j].status = Status(f), ![j].left = FirstRows(f), ![j].phase = "rows"]
                /\ UNCHANGED post
           ELSE /\ job' = [job EXCEPT ![j] = NoRow]
                /\ post' = IF Awaits(j) THEN NoPost ELSE post
        /\ UNCHANGED <<signIn, rows, done, closing, escrow, calls, history>>

\* Its chunks follow, a batch to an insert; a lineage's first chunk is its own.
Batch(f) == IF f.kind = "training" THEN 1 ELSE BATCH
InsertRows(j) ==
    LET n == Least(Batch(job[j].form), Len(job[j].left))
    IN  /\ job[j].phase = "rows"
        /\ rows' = [rows EXCEPT ![j] = @ \cup ToSet(SubSeq(job[j].left, 1, n))]
        /\ job' = [job EXCEPT ![j].left = SubSeq(@, n + 1, Len(@)),
                              ![j].phase = IF n = Len(job[j].left) THEN "created" ELSE "rows"]
        /\ UNCHANGED <<signIn, post, done, closing, escrow, calls, history>>

\* A statement fails, a honeypot cannot be scored, the coordinator restarts:
\* what is written stays, and the page, which does not catch it, shows "creating".
CreateFails(j) ==
    /\ job[j].phase \in {"rows", "created"}
    /\ job' = [job EXCEPT ![j].left = <<>>, ![j].phase = "failed"]
    /\ partial' = IF job[j].phase = "rows" THEN partial \cup {j} ELSE partial
    /\ UNCHANGED <<signIn, post, rows, done, closing, escrow, calls, doubled, lost>>

CreateAnswered(j) ==
    /\ job[j].phase = "created" /\ job' = [job EXCEPT ![j].phase = "answered"]
    /\ post' = IF ~Awaits(j) THEN post
               ELSE IF Priced(job[j].form) /\ Status(job[j].form) = "draft" THEN [post EXCEPT !.at = "funding"] ELSE NoPost
    /\ UNCHANGED <<signIn, rows, done, closing, escrow, calls, history>>
-----------------------------------------------------------------------------
\* The bounty's page offers the creator of a draft with a price to fund it.
FundClick(j) ==
    /\ post.at = "idle" /\ job[j].status = "draft" /\ job[j].form.price > 0
    /\ connected = job[j].creator /\ token # NoWallet
    /\ post' = [at |-> "funding", job |-> j, session |-> token, funder |-> connected, fund |-> PageFund(job[j].form)]
    /\ partial' = IF job[j].phase = "rows" THEN partial \cup {j} ELSE partial
    /\ UNCHANGED <<signIn, server, escrow, calls, doubled, lost>>

\* initialize_job, if the user approves and the wallet is still the one captured.
FundEscrow(j) ==
    /\ post.at = "funding" /\ post.job = j
    /\ connected = post.funder /\ escrow[j] = NoEscrow
    /\ escrow' = [escrow EXCEPT ![j] = [funder |-> post.funder, budget |-> post.fund.budget, price |-> post.fund.price]]
    /\ post' = [post EXCEPT !.at = "confirming"]
    /\ UNCHANGED <<signIn, server, calls, history>>

\* The page is closed or reloaded, or a call of its fails: nothing is retried.
PageGone ==
    /\ post.at # "idle" /\ post' = NoPost
    /\ lost' = TRUE
    /\ UNCHANGED <<signIn, server, escrow, calls, partial, doubled>>

\* POST funded: the caller must be the creator and the row a draft.
\* Mutant: a job that is open is verified again.
FundedReadAny(j, w) == job[j].creator = w /\ job[j].status \in {"draft", "open"}

FundedRead(j, w) == job[j].creator = w /\ job[j].status = "draft"

Call(j) ==
    /\ calls' = [calls EXCEPT ![j].fetch = @ + 1]
    /\ doubled' = IF calls[j].fetch + calls[j].open > 0 THEN doubled \cup {j} ELSE doubled

Report(j) ==
    /\ post.at = "confirming" /\ post.job = j /\ post' = NoPost
    /\ IF FundedRead(j, post.session) THEN Call(j) ELSE UNCHANGED <<calls, doubled>>
    /\ UNCHANGED <<signIn, server, escrow, partial, lost>>

\* The creator's own client reports it, again or before anything is funded.
ReportAgain(j) ==
    /\ calls[j].fetch + calls[j].open < MaxCalls
    /\ job[j].creator # NoWallet /\ FundedRead(j, job[j].creator) /\ Call(j)
    /\ UNCHANGED <<signIn, post, server, escrow, partial, lost>>

\* Mutant: a price is expected.
FitsPriced(e, r) == e.funder = r.creator /\ e.budget >= PageFund(r.form).budget /\ e.price = PageFund(r.form).price /\ e.price > 0

Fits(e, r) == e.funder = r.creator /\ e.budget >= PageFund(r.form).budget /\ e.price = PageFund(r.form).price

FundedCheck(j) ==
    /\ calls[j].fetch > 0
    /\ calls' = [calls EXCEPT ![j] = [fetch |-> @.fetch - 1,
                                      open  |-> @.open + (IF Fits(escrow[j], job[j]) THEN 1 ELSE 0)]]
    /\ UNCHANGED <<signIn, post, server, escrow, history>>

\* The update looks at the job's id alone.
FundedOpen(j) ==
    /\ calls[j].open > 0 /\ calls' = [calls EXCEPT ![j].open = @ - 1]
    /\ job' = [job EXCEPT ![j].status = "open"]
    /\ UNCHANGED <<signIn, post, rows, done, closing, escrow, history>>
-----------------------------------------------------------------------------
\* A chunk of an open job is worked and accepted, and a lineage moves on to its
\* next chunk; then the chunks in flight are counted and the job is closed.
ChunkDone(j) ==
    /\ job[j].status = "open" /\ closing[j] = "no"
    /\ \E r \in rows[j] \ done[j] :
         /\ done' = [done EXCEPT ![j] = @ \cup {r}]
         /\ rows' = [rows EXCEPT ![j] = @ \cup Successors(job[j].form, r)]
    /\ closing' = [closing EXCEPT ![j] = "count"]
    /\ UNCHANGED <<signIn, post, job, escrow, calls, history>>

CountInFlight(j) ==
    /\ closing[j] = "count"
    /\ closing' = [closing EXCEPT ![j] = IF rows[j] = done[j] THEN "close" ELSE "no"]
    /\ UNCHANGED <<signIn, post, job, rows, done, escrow, calls, history>>

CloseJob(j) ==
    /\ closing[j] = "close" /\ closing' = [closing EXCEPT ![j] = "no"]
    /\ job' = [job EXCEPT ![j].status = IF @ = "open" THEN "closed" ELSE @]
    /\ UNCHANGED <<signIn, post, rows, done, escrow, calls, history>>

\* close_job, once the earnings of a closed job are claimed (Settlement).
Reclaim(j) ==
    /\ job[j].status = "closed" /\ escrow[j] # NoEscrow
    /\ escrow' = [escrow EXCEPT ![j] = NoEscrow]
    /\ UNCHANGED <<signIn, post, server, calls, history>>

Next ==
    \/ SignInNext /\ UNCHANGED <<post, server, escrow, calls, history>>
    \/ PageGone
    \/ \E j \in Jobs :
         \/ \E f \in Forms : PostClick(j, f)
         \/ CreateJob(j) \/ InsertRows(j) \/ CreateFails(j) \/ CreateAnswered(j)
         \/ FundClick(j) \/ FundEscrow(j) \/ Report(j) \/ ReportAgain(j)
         \/ FundedCheck(j) \/ FundedOpen(j)
         \/ ChunkDone(j) \/ CountInFlight(j) \/ CloseJob(j) \/ Reclaim(j)

\* The page and the coordinator go on; the user and the workers need not.
Fairness == \A j \in Jobs : WF_vars(Report(j)) /\ WF_vars(FundedCheck(j)) /\ WF_vars(FundedOpen(j))

Spec == Init /\ [][Next]_vars /\ Fairness
-----------------------------------------------------------------------------
\* Money that left a wallet for a job is what the coordinator asks for: the form
\* counts the chunks that createJob cuts, and the escrow passes POST funded's
\* checks, until the wallet is switched during a sign-in.
FundingFits ==
    /\ \A f \in Forms : Shaped(f) /\ f.kind # "prize" => PageBudget(f) = f.price * chunkCount(f)
    /\ ~raced => \A j \in Jobs : escrow[j] # NoEscrow => Fits(escrow[j], job[j])

\* A closed job has covered its space, each seed or generation once: if its
\* creation was not cut short or overtaken, and its chunks all existed before it
\* opened or were inserted in one statement (maybeCompleteJob sees only what is there).
Whole(f) == Status(f) = "draft" \/ Len(FirstRows(f)) <= Batch(f)
ClosedIsCovered ==
    \A j \in Jobs : job[j].status = "closed" /\ j \notin partial /\ Whole(job[j].form) =>
        \A x \in Space(job[j].form) :
            \E r \in done[j] : /\ x \in r[1] .. r[2] - 1
                               /\ \A s \in rows[j] \ {r} : x \notin s[1] .. s[2] - 1

\* A closed job stays closed, so that its escrow can be reclaimed, unless two
\* reports of its funding overlapped: the later one opens it again.
StaysClosed ==
    [][\A j \in Jobs : job[j].status = "closed" /\ j \notin doubled => job'[j].status = "closed"]_vars

\* A funded job is opened, if the page lives to report it: nothing else does.
FundedOpens ==
    \A j \in Jobs : escrow[j] # NoEscrow ~> job[j].status \in {"open", "closed"} \/ raced \/ lost
=============================================================================
