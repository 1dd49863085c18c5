----------------------------- MODULE JobEscrow ------------------------------
(***************************************************************************)
(* The escrow of one job on chain: initialize_job, claim and close_job of  *)
(* programs/sieveworks/src/lib.rs.  A transaction is atomic, and one whose *)
(* checks fail changes nothing.  Amounts are u64.                          *)
(*                                                                         *)
(* The escrow account goes when the job is closed.  The Earnings accounts, *)
(* one for a worker and a job, stay, and a job id can be initialized anew. *)
(***************************************************************************)
EXTENDS Integers, FiniteSets, FiniteSetsExt

CONSTANTS
    Workers,   \* wallets that sign claims
    MaxU64,
    MaxBudget, \* bound on the lamports a funder can deposit
    MaxOpened, \* bound on how often the job id is initialized
    Rent       \* rent-exempt minimum of the escrow account

ASSUME EscrowAssumption ==
    /\ IsFiniteSet(Workers)
    /\ MaxU64 \in Nat
    /\ MaxBudget \in Nat
    /\ MaxOpened \in Nat
    /\ Rent \in Nat \ {0}
    /\ MaxBudget + Rent <= MaxU64

VARIABLES
    escrow,    \* JobEscrow: open, budget, total_paid, its account's lamports
    earned,    \* Earnings of each worker: claimed, last_nonce
    received,  \* history: lamports each worker has had from the escrow
    refunded,  \* history: lamports the funder has had back
    deposited, \* history: lamports the funder has put in
    opened     \* history: how often the job was initialized

escrowVars == <<escrow, earned, received, refunded, deposited, opened>>

U64 == 0..MaxU64
Closed == [open |-> FALSE, budget |-> 0, paid |-> 0, lamports |-> 0]
NoEarnings == [claimed |-> 0, nonce |-> 0]

EscrowTypeOK ==
    /\ escrow \in [open : BOOLEAN, budget : U64, paid : U64, lamports : U64]
    /\ earned \in [Workers -> [claimed : U64, nonce : U64]]
    /\ received \in [Workers -> Nat]
    /\ refunded \in Nat
    /\ deposited \in Nat
    /\ opened \in Nat

EscrowInit ==
    /\ escrow = Closed
    /\ earned = [w \in Workers |-> NoEarnings]
    /\ received = [w \in Workers |-> 0]
    /\ refunded = 0
    /\ deposited = 0
    /\ opened = 0

\* init fails while the account exists.
InitializeJob(budget) ==
    /\ ~escrow.open
    /\ opened < MaxOpened
    /\ escrow' = [open |-> TRUE, budget |-> budget, paid |-> 0,
                  lamports |-> Rent + budget]
    /\ deposited' = deposited + Rent + budget
    /\ opened' = opened + 1
    /\ UNCHANGED <<earned, received, refunded>>

\* Mutants: the whole total is paid each time; the operands are swapped.
DeltaWhole(w, cumulative) == cumulative
\* What a claim of a worker's cumulative earnings would still pay.
Delta(w, cumulative) == cumulative - earned[w].claimed

Authorized(w, cumulative, nonce) ==
    /\ escrow.open
    /\ cumulative >= earned[w].claimed
    /\ nonce > earned[w].nonce
    /\ escrow.paid + Delta(w, cumulative) <= MaxU64
    /\ escrow.paid + Delta(w, cumulative) <= escrow.budget

\* saturating_sub(lamports, delta) >= rent, for a rent that is not 0.
KeepsRent(w, cumulative) == escrow.lamports >= Rent + Delta(w, cumulative)

\* Mutants: the escrow is not debited; the new total is not stored.
PayUndebited(w, cumulative, nonce) ==
    /\ earned' = [earned EXCEPT ![w] = [claimed |-> cumulative, nonce |-> nonce]]
    /\ escrow' = [escrow EXCEPT !.paid = @ + Delta(w, cumulative)]
    /\ received' = [received EXCEPT ![w] = @ + Delta(w, cumulative)]
    /\ UNCHANGED <<refunded, deposited, opened>>
Pay(w, cumulative, nonce) ==
    /\ earned' = [earned EXCEPT ![w] = [claimed |-> cumulative, nonce |-> nonce]]
    /\ escrow' = [escrow EXCEPT !.paid = @ + Delta(w, cumulative),
                                !.lamports = @ - Delta(w, cumulative)]
    /\ received' = [received EXCEPT ![w] = @ + Delta(w, cumulative)]
    /\ UNCHANGED <<refunded, deposited, opened>>

Claim(w, cumulative, nonce) ==
    /\ Authorized(w, cumulative, nonce)
    /\ KeepsRent(w, cumulative)
    /\ Pay(w, cumulative, nonce)

\* close = funder
CloseJob ==
    /\ escrow.open
    /\ escrow' = Closed
    /\ refunded' = refunded + escrow.lamports
    /\ UNCHANGED <<earned, received, deposited, opened>>

EscrowNext ==
    \/ \E budget \in 0..MaxBudget : InitializeJob(budget)
    \/ \E w \in Workers, cumulative \in U64, nonce \in U64 : Claim(w, cumulative, nonce)
    \/ CloseJob

EscrowSpec == EscrowInit /\ [][EscrowNext]_escrowVars
-----------------------------------------------------------------------------
\* The account holds what is left of the budget, and the rent: no claim that
\* is within the budget fails for want of lamports (InsufficientEscrow).
Solvent ==
    escrow.open => /\ escrow.paid <= escrow.budget
                   /\ escrow.lamports = Rent + escrow.budget - escrow.paid

\* In whatever order, and however often, vouchers are submitted, a worker has
\* had exactly the largest total it claimed, over all lives of the escrow.
ReplayPaysNothing == \A w \in Workers : received[w] = earned[w].claimed

\* Every lamport put into the escrow is in it, with a worker, or back with
\* the funder (claim and close_job move balances by hand).
Conserved ==
    deposited = escrow.lamports + refunded
                  + MapThenSumSet(LAMBDA w : received[w], Workers)
=============================================================================
