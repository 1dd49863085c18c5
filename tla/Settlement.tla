----------------------------- MODULE Settlement -----------------------------
(***************************************************************************)
(* How a job is funded and how its earnings reach the workers: the         *)
(* earnings rows of the coordinator, the funded, claim and close-funding   *)
(* requests (apps/coordinator/src/routes.ts), and the escrow.              *)
(*                                                                         *)
(* A co-signed transaction is out of the coordinator's hands: it may land, *)
(* at once or after the request gave up waiting for it, fail, or never be  *)
(* included.  The books are written only after the confirmation.           *)
(*                                                                         *)
(* The price of a chunk is one unit of lamports, and every worker row pays *)
(* out to one wallet.                                                      *)
(***************************************************************************)
EXTENDS JobEscrow

CONSTANTS
    Requests,  \* claims that may be under way at the same time
    NChunks,   \* chunks of the job, the budget in units of the price
    MaxClock   \* bound on Date.now(), which is the nonce of a voucher

ASSUME SettlementAssumption ==
    /\ Workers # {}
    /\ NChunks \in Nat /\ NChunks <= MaxBudget
    /\ MaxClock \in Nat /\ MaxClock <= MaxU64

VARIABLES
    status,     \* jobs.status
    unaccepted, \* chunks not accepted
    dropped,    \* those of them that are quarantined
    owing,      \* accepted chunks whose earnings are not yet credited
    books,      \* earnings: cumulative_lamports, claimed_lamports, last_nonce
    clock,
    claim,      \* the claims under way
    closing     \* the close-funding request: "idle", "gate", "sent"

jobVars == <<status, unaccepted, dropped, owing>>
vars == <<escrowVars, jobVars, books, clock, claim, closing>>

\* signed: the wallet signed a voucher.  sent: co-signed and waited for.
\* adrift: co-signed, the request is gone.  settled: confirmed, books to write.
Stages == {"none", "signed", "sent", "adrift", "settled"}

TypeOK ==
    /\ EscrowTypeOK
    /\ status \in {"draft", "open", "closed"}
    /\ unaccepted \in 0..NChunks /\ dropped \in 0..NChunks
    /\ owing \in [Workers -> 0..NChunks]
    /\ books \in [Workers -> [cumulative : Nat, claimed : Nat, nonce : Nat]]
    /\ clock \in 0..MaxClock
    /\ claim \in [Requests -> [stage : Stages, worker : Workers,
                               amount : Nat, nonce : Nat]]
    /\ closing \in {"idle", "gate", "sent"}

NoClaim == [stage |-> "none", worker |-> CHOOSE w \in Workers : TRUE,
            amount |-> 0, nonce |-> 0]

\* The job was created, nothing is on chain.
Init ==
    /\ EscrowInit
    /\ status = "draft"
    /\ unaccepted = NChunks /\ dropped = 0
    /\ owing = [w \in Workers |-> 0]
    /\ books = [w \in Workers |-> [cumulative |-> 0, claimed |-> 0, nonce |-> 0]]
    /\ clock = 0
    /\ claim = [q \in Requests |-> NoClaim]
    /\ closing = "idle"
-----------------------------------------------------------------------------
(***************************************************************************)
(* The funder opens the escrow, with any budget, and reports it; when the  *)
(* escrow was reclaimed it can open it anew.                               *)
(***************************************************************************)

Fund(budget) ==
    /\ InitializeJob(budget)
    /\ UNCHANGED <<jobVars, books, clock, claim, closing>>

\* The escrow is read from the chain; what the request says is not trusted.
ReportFunded ==
    /\ status = "draft"
    /\ escrow.open /\ escrow.budget >= NChunks
    /\ status' = "open"
    /\ UNCHANGED <<escrowVars, unaccepted, dropped, owing, books, clock, claim, closing>>
-----------------------------------------------------------------------------
(***************************************************************************)
(* Earnings accrue: acceptResult and maybeCompleteJob (see ChunkLifecycle, *)
(* whose promise that a chunk is paid once is taken for granted here).     *)
(***************************************************************************)

AcceptChunk(w) ==
    /\ status # "draft"
    /\ unaccepted > dropped
    /\ unaccepted' = unaccepted - 1
    /\ owing' = [owing EXCEPT ![w] = @ + 1]
    /\ UNCHANGED <<escrowVars, status, dropped, books, clock, claim, closing>>

\* The sweeper quarantines an expired lease, or a training chunk is rejected
\* once too often: nobody is to be paid for it.
DropChunk ==
    /\ status # "draft"
    /\ unaccepted > dropped
    /\ dropped' = dropped + 1
    /\ UNCHANGED <<escrowVars, status, unaccepted, owing, books, clock, claim, closing>>

\* Mutant: a retry credits the chunk again.
CreditAgain(w) ==
    /\ owing[w] > 0
    /\ \E n \in {0, 1} : owing' = [owing EXCEPT ![w] = @ - n]
    /\ books' = [books EXCEPT ![w].cumulative = @ + 1]
    /\ books[w].cumulative < MaxBudget
    /\ UNCHANGED <<escrowVars, status, unaccepted, dropped, clock, claim, closing>>

CreditEarnings(w) ==
    /\ owing[w] > 0
    /\ owing' = [owing EXCEPT ![w] = @ - 1]
    /\ books' = [books EXCEPT ![w].cumulative = @ + 1]
    /\ UNCHANGED <<escrowVars, status, unaccepted, dropped, clock, claim, closing>>

\* By a handler that has credited its own chunk or quarantined it.
CompleteJob ==
    /\ status = "open"
    /\ unaccepted = dropped
    /\ dropped > 0 \/ \E w \in Workers : books[w].cumulative > 0
    /\ status' = "closed"
    /\ UNCHANGED <<escrowVars, unaccepted, dropped, owing, books, clock, claim, closing>>
-----------------------------------------------------------------------------
(***************************************************************************)
(* GET /v1/claims/:jobId/voucher and POST /v1/claims/:jobId.               *)
(***************************************************************************)

SetStage(q, s) == claim' = [claim EXCEPT ![q].stage = s]

Tick ==
    /\ clock < MaxClock
    /\ clock' = clock + 1
    /\ UNCHANGED <<escrowVars, jobVars, books, claim, closing>>

Voucher(q, w) ==
    /\ claim[q].stage = "none"
    /\ books[w].cumulative > 0
    /\ claim' = [claim EXCEPT ![q] = [stage |-> "signed", worker |-> w,
                                      amount |-> books[w].cumulative,
                                      nonce |-> clock]]
    /\ UNCHANGED <<escrowVars, jobVars, books, clock, closing>>

\* The checks of the request, and the simulation of sendRawTransaction,
\* which throws when the program would.
Acceptable(c) ==
    /\ c.amount <= books[c.worker].cumulative
    /\ c.nonce > books[c.worker].nonce
    /\ Authorized(c.worker, c.amount, c.nonce)
    /\ KeepsRent(c.worker, c.amount)

CoSign(q) ==
    /\ claim[q].stage = "signed"
    /\ claim' = [claim EXCEPT ![q] = IF Acceptable(@) THEN [@ EXCEPT !.stage = "sent"]
                                                     ELSE NoClaim]
    /\ UNCHANGED <<escrowVars, jobVars, books, clock, closing>>

Land(q) ==
    LET c == claim[q] IN
    /\ c.stage \in {"sent", "adrift"}
    /\ Claim(c.worker, c.amount, c.nonce)
    /\ claim' = [claim EXCEPT ![q] = IF c.stage = "sent"
                                       THEN [c EXCEPT !.stage = "settled"]
                                       ELSE NoClaim]
    /\ UNCHANGED <<jobVars, books, clock, closing>>

\* A transaction that is included and fails is confirmed all the same:
\* confirmTransaction resolves with the error in its value, which
\* coSignAndSendClaim does not look at.
LandFailed(q) ==
    LET c == claim[q] IN
    /\ c.stage \in {"sent", "adrift"}
    /\ ~Authorized(c.worker, c.amount, c.nonce)
    /\ claim' = [claim EXCEPT ![q] = IF c.stage = "sent"
                                       THEN [c EXCEPT !.stage = "settled"]
                                       ELSE NoClaim]
    /\ UNCHANGED <<escrowVars, jobVars, books, clock, closing>>

\* The blockhash expires before the transaction is included.
Drop(q) ==
    /\ claim[q].stage \in {"sent", "adrift"}
    /\ claim' = [claim EXCEPT ![q] = NoClaim]
    /\ UNCHANGED <<escrowVars, jobVars, books, clock, closing>>

\* The wait for the confirmation times out, or the coordinator restarts.
GiveUp(q) ==
    /\ \/ claim[q].stage = "sent" /\ SetStage(q, "adrift")
       \/ claim[q].stage = "settled" /\ claim' = [claim EXCEPT ![q] = NoClaim]
    /\ UNCHANGED <<escrowVars, jobVars, books, clock, closing>>

\* claimed_lamports becomes the earnings of this moment, not of the voucher.
WriteBooks(q) ==
    LET w == claim[q].worker IN
    /\ claim[q].stage = "settled"
    /\ books' = [books EXCEPT ![w].claimed = books[w].cumulative,
                              ![w].nonce = claim[q].nonce]
    /\ claim' = [claim EXCEPT ![q] = NoClaim]
    /\ UNCHANGED <<escrowVars, jobVars, clock, closing>>
-----------------------------------------------------------------------------
(***************************************************************************)
(* POST /v1/jobs/:id/close-funding.                                        *)
(***************************************************************************)

StartClose ==
    /\ closing = "idle"
    /\ status = "closed"
    /\ closing' = "gate"
    /\ UNCHANGED <<escrowVars, jobVars, books, clock, claim>>

Unclaimed == {w \in Workers : books[w].cumulative > books[w].claimed}

CoSignClose ==
    /\ closing = "gate"
    /\ closing' = IF Unclaimed = {} /\ escrow.open THEN "sent" ELSE "idle"
    /\ UNCHANGED <<escrowVars, jobVars, books, clock, claim>>

LandClose ==
    /\ closing = "sent"
    /\ CloseJob
    /\ closing' = "idle"
    /\ UNCHANGED <<jobVars, books, clock, claim>>

DropClose ==
    /\ closing = "sent"
    /\ closing' = "idle"
    /\ UNCHANGED <<escrowVars, jobVars, books, clock, claim>>

ClaimStep(q) ==
    \/ \E w \in Workers : Voucher(q, w)
    \/ CoSign(q) \/ Land(q) \/ LandFailed(q) \/ Drop(q) \/ GiveUp(q)
    \/ WriteBooks(q)

Next ==
    \/ \E budget \in 0..MaxBudget : Fund(budget)
    \/ ReportFunded
    \/ \E w \in Workers : AcceptChunk(w) \/ CreditEarnings(w)
    \/ DropChunk \/ CompleteJob
    \/ Tick
    \/ \E q \in Requests : ClaimStep(q)
    \/ StartClose \/ CoSignClose \/ LandClose \/ DropClose

Spec == Init /\ [][Next]_vars
-----------------------------------------------------------------------------
\* However vouchers are lost, repeated, overtaken or land after their request
\* was given up, no worker is paid more than the coordinator credited.
NeverOverpaid ==
    \A w \in Workers : received[w] <= books[w].cumulative

\* The budget covers every lamport credited and not yet paid: a voucher never
\* meets BudgetExhausted or InsufficientEscrow until the escrow is reclaimed.
VoucherCovered ==
    escrow.open /\ opened = 1 =>
        \A w \in Workers :
            books[w].cumulative >= earned[w].claimed =>
                /\ escrow.paid + Delta(w, books[w].cumulative) <= escrow.budget
                /\ KeepsRent(w, books[w].cumulative)

\* Credited earnings block the reclaim, for closing would strand them
\* (the comment on the coverage gate of close-funding).
NothingStranded ==
    ~escrow.open => \A w \in Workers : received[w] = books[w].cumulative
=============================================================================
