-------------------------- MODULE SettlementProofs --------------------------
(***************************************************************************)
(* What is proved of a job's escrow and of its settlement, for any number  *)
(* of workers, chunks and claims under way at the same time.               *)
(*                                                                         *)
(* NeverOverpaid alone is not inductive: a co-signed claim pays whatever   *)
(* it says, perhaps long after its request has gone.  What makes it hold   *)
(* is that a claim says no more than was credited when it was signed       *)
(* (Covered), that credits never shrink, and that the program pays the     *)
(* difference to what it paid before (ReplayPaysNothing).  BalanceInv and  *)
(* FundInv compare sums over the workers with the escrow's lamports and    *)
(* its budget.  The settlement implements the program, so that what is     *)
(* proved of the program by itself holds of both together.                 *)
(***************************************************************************)
EXTENDS Settlement, Sums

-----------------------------------------------------------------------------
(***************************************************************************)
(* The program by itself, for any number of workers, any budget and any    *)
(* u64 limit.  EscrowTypeOK is not inductive without Solvent: that a claim *)
(* leaves the lamports a natural number follows from the lamports it found.*)
(***************************************************************************)

EscrowInv == EscrowTypeOK /\ Solvent /\ ReplayPaysNothing

\* A fresh escrow table satisfies the invariant.
LEMMA EscrowInvInit == EscrowInit => EscrowInv
  BY EscrowAssumption DEF EscrowInit, EscrowInv, EscrowTypeOK, Solvent,
       ReplayPaysNothing, Closed, NoEarnings, U64

\* initialize_job deposits the budget on top of the rent.
LEMMA InitializeKeeps ==
  ASSUME EscrowInv, NEW budget \in 0..MaxBudget, InitializeJob(budget)
  PROVE  EscrowInv'
<1> USE EscrowAssumption DEF EscrowInv, U64
<1>1. budget \in Nat /\ Rent + budget <= MaxU64
  OBVIOUS
<1>2. EscrowTypeOK'
  BY <1>1 DEF EscrowTypeOK, InitializeJob
<1>3. Solvent'
  BY <1>1 DEF Solvent, InitializeJob
<1>4. ReplayPaysNothing'
  BY DEF ReplayPaysNothing, InitializeJob
<1> QED
  BY <1>2, <1>3, <1>4

\* claim pays the difference to what the worker had claimed, no more.
LEMMA ClaimKeeps ==
  ASSUME EscrowInv, NEW w \in Workers, NEW cumulative \in U64, NEW nonce \in U64,
         Claim(w, cumulative, nonce)
  PROVE  EscrowInv'
<1> DEFINE delta == Delta(w, cumulative)
<1>1. /\ earned[w].claimed \in U64
      /\ escrow.paid \in U64 /\ escrow.lamports \in U64 /\ escrow.budget \in U64
      /\ received[w] \in Nat
  BY DEF EscrowInv, EscrowTypeOK
<1>2. delta \in Nat /\ delta = cumulative - earned[w].claimed
  BY <1>1, EscrowAssumption DEF Claim, Authorized, Delta, U64
<1>3. /\ escrow.open
      /\ escrow.paid + delta \in U64
      /\ escrow.paid + delta <= escrow.budget
      /\ escrow.lamports - delta \in U64
  BY <1>1, <1>2, EscrowAssumption DEF Claim, Authorized, KeepsRent, U64
<1>4. /\ escrow' = [escrow EXCEPT !.paid = @ + delta, !.lamports = @ - delta]
      /\ earned' = [earned EXCEPT ![w] = [claimed |-> cumulative, nonce |-> nonce]]
      /\ received' = [received EXCEPT ![w] = @ + delta]
      /\ UNCHANGED <<refunded, deposited, opened>>
  BY DEF Claim, Pay
<1> HIDE DEF delta
<1>5. EscrowTypeOK'
  <2>1. escrow' \in [open : BOOLEAN, budget : U64, paid : U64, lamports : U64]
    BY <1>3, <1>4 DEF EscrowInv, EscrowTypeOK
  <2>2. earned' \in [Workers -> [claimed : U64, nonce : U64]]
    BY <1>4 DEF EscrowInv, EscrowTypeOK
  <2>3. received' \in [Workers -> Nat]
    BY <1>1, <1>2, <1>4 DEF EscrowInv, EscrowTypeOK
  <2> QED
    BY <1>4, <2>1, <2>2, <2>3 DEF EscrowInv, EscrowTypeOK
<1>6. Solvent'
  <2>1. /\ escrow.lamports = Rent + escrow.budget - escrow.paid
    BY <1>3 DEF EscrowInv, Solvent
  <2>2. /\ escrow'.paid = escrow.paid + delta
        /\ escrow'.lamports = escrow.lamports - delta
        /\ escrow'.budget = escrow.budget
    BY <1>4 DEF EscrowInv, EscrowTypeOK
  <2> QED
    BY <1>1, <1>2, <1>3, <2>1, <2>2, EscrowAssumption DEF Solvent, U64
<1>7. ReplayPaysNothing'
  <2> SUFFICES ASSUME NEW v \in Workers
               PROVE  received'[v] = earned'[v].claimed
    BY DEF ReplayPaysNothing
  <2>1. received[v] = earned[v].claimed
    BY DEF EscrowInv, ReplayPaysNothing
  <2>2. CASE v = w
    <3>1. received'[v] = received[w] + delta /\ earned'[v].claimed = cumulative
      BY <1>4, <2>2 DEF EscrowInv, EscrowTypeOK
    <3> QED
      BY <1>1, <1>2, <2>1, <2>2, <3>1 DEF U64
  <2>3. CASE v # w
    BY <1>4, <2>1, <2>3 DEF EscrowInv, EscrowTypeOK
  <2> QED
    BY <2>2, <2>3
<1> QED
  BY <1>5, <1>6, <1>7 DEF EscrowInv

\* close_job gives all the lamports back and leaves the Earnings accounts.
LEMMA CloseKeeps ==
  ASSUME EscrowInv, CloseJob
  PROVE  EscrowInv'
  BY EscrowAssumption DEF EscrowInv, EscrowTypeOK, Solvent, ReplayPaysNothing,
       CloseJob, Closed, U64

\* Every transaction keeps the invariant of the escrow.
LEMMA EscrowInvStep == EscrowInv /\ [EscrowNext]_escrowVars => EscrowInv'
<1> SUFFICES ASSUME EscrowInv, [EscrowNext]_escrowVars
             PROVE  EscrowInv'
  OBVIOUS
<1>1. ASSUME NEW budget \in 0..MaxBudget, InitializeJob(budget)
      PROVE  EscrowInv'
  BY <1>1, InitializeKeeps
<1>2. ASSUME NEW w \in Workers, NEW cumulative \in U64, NEW nonce \in U64,
             Claim(w, cumulative, nonce)
      PROVE  EscrowInv'
  BY <1>2, ClaimKeeps
<1>3. CASE CloseJob
  BY <1>3, CloseKeeps
<1>4. CASE UNCHANGED escrowVars
  BY <1>4 DEF EscrowInv, EscrowTypeOK, Solvent, ReplayPaysNothing, escrowVars
<1> QED
  BY <1>1, <1>2, <1>3, <1>4 DEF EscrowNext

\* The escrow always satisfies its invariant.
LEMMA EscrowInvariance == EscrowSpec => []EscrowInv
  BY EscrowInvInit, EscrowInvStep, PTL DEF EscrowSpec

\* The accounts keep their types: no u64 of theirs ever wraps.
THEOREM EscrowTypeCorrect == EscrowSpec => []EscrowTypeOK
<1>1. EscrowInv => EscrowTypeOK
  BY DEF EscrowInv
<1> QED
  BY <1>1, EscrowInvariance, PTL

\* The lamports of an open escrow are its rent and what is left of the budget.
THEOREM EscrowSolvent == EscrowSpec => []Solvent
<1>1. EscrowInv => Solvent
  BY DEF EscrowInv
<1> QED
  BY <1>1, EscrowInvariance, PTL

\* Vouchers of any totals, in any order and however often, pay a worker the
\* largest total it has claimed and not a lamport more.
THEOREM ReplaysPayNothing == EscrowSpec => []ReplayPaysNothing
<1>1. EscrowInv => ReplayPaysNothing
  BY DEF EscrowInv
<1> QED
  BY <1>1, EscrowInvariance, PTL

\* No lamport is lost on the way, and a closed escrow holds nothing.
BalanceInv ==
    /\ deposited = escrow.lamports + refunded + Sum(received, Workers)
    /\ ~escrow.open => escrow.lamports = 0

LEMMA BalanceInit == EscrowInit => BalanceInv
<1> SUFFICES ASSUME EscrowInit PROVE BalanceInv
  OBVIOUS
<1>1. \A w \in Workers : received[w] = 0
  BY DEF EscrowInit
<1>2. Sum(received, Workers) = 0
  BY <1>1, EscrowAssumption, SumZero
<1> QED
  BY <1>2 DEF BalanceInv, EscrowInit, Closed

\* What a claim takes from the escrow is what the sum over the workers gains.
LEMMA ClaimBalances ==
  ASSUME EscrowInv, NEW w \in Workers, NEW d \in Int, NEW g,
         g = [received EXCEPT ![w] = @ + d]
  PROVE  /\ Sum(received, Workers) \in Int /\ Sum(g, Workers) \in Int
         /\ Sum(g, Workers) = Sum(received, Workers) + d
<1>1. received \in [Workers -> Nat]
  BY DEF EscrowInv, EscrowTypeOK
<1>2. /\ \A y \in Workers : received[y] \in Int /\ g[y] \in Int
      /\ \A y \in Workers \ {w} : g[y] = received[y]
      /\ g[w] = received[w] + d
  BY <1>1
<1>3. IsFiniteSet(Workers)
  BY EscrowAssumption
<1> QED
  BY <1>2, <1>3, SumChanges

LEMMA BalanceStep == EscrowInv /\ BalanceInv /\ [EscrowNext]_escrowVars => BalanceInv'
<1> SUFFICES ASSUME EscrowInv, BalanceInv, [EscrowNext]_escrowVars PROVE BalanceInv'
  OBVIOUS
<1> DEFINE old == Sum(received, Workers)
<1>t. /\ escrow.lamports \in Int /\ refunded \in Int /\ deposited \in Int
      /\ Rent \in Int /\ MaxBudget \in Nat
  BY EscrowAssumption DEF EscrowInv, EscrowTypeOK, U64
<1>0. deposited = escrow.lamports + refunded + old
  BY DEF BalanceInv
<1>i. old \in Int
  <2>1. \A w \in Workers : received[w] \in Int
    BY DEF EscrowInv, EscrowTypeOK
  <2> QED
    BY <2>1, EscrowAssumption, SumTakes
<1>1. ASSUME NEW budget \in 0..MaxBudget, InitializeJob(budget) PROVE BalanceInv'
  <2>1. /\ escrow.lamports = 0 /\ escrow'.open /\ escrow'.lamports = Rent + budget
        /\ deposited' = deposited + Rent + budget /\ UNCHANGED <<received, refunded>>
    BY <1>1 DEF InitializeJob, BalanceInv
  <2> QED
    BY <1>0, <1>i, <1>t, <2>1 DEF BalanceInv
<1>2. ASSUME NEW w \in Workers, NEW cumulative \in U64, NEW nonce \in U64,
             Claim(w, cumulative, nonce)
      PROVE  BalanceInv'
  <2> DEFINE d == Delta(w, cumulative)
  <2>1. d \in Int
    BY EscrowAssumption DEF Delta, EscrowInv, EscrowTypeOK, U64
  <2>2. /\ escrow.open
        /\ escrow' = [escrow EXCEPT !.paid = @ + d, !.lamports = @ - d]
        /\ received' = [received EXCEPT ![w] = @ + d]
        /\ UNCHANGED <<refunded, deposited>>
    BY <1>2 DEF Claim, Authorized, Pay
  <2>3. Sum(received', Workers) = old + d
    BY <2>1, <2>2, ClaimBalances
  <2> HIDE DEF d
  <2>4. escrow'.open /\ escrow'.lamports = escrow.lamports - d
    BY <2>2 DEF EscrowInv, EscrowTypeOK
  <2>5. deposited' = escrow'.lamports + refunded' + Sum(received', Workers)
    BY <1>0, <1>i, <1>t, <2>1, <2>2, <2>3, <2>4
  <2> QED
    BY <2>4, <2>5 DEF BalanceInv
<1>3. CASE CloseJob
  <2>1. /\ ~escrow'.open /\ escrow'.lamports = 0
        /\ refunded' = refunded + escrow.lamports /\ UNCHANGED <<received, deposited>>
    BY <1>3 DEF CloseJob, Closed
  <2> QED
    BY <1>0, <1>i, <1>t, <2>1 DEF BalanceInv
<1>4. CASE UNCHANGED escrowVars
  BY <1>4 DEF BalanceInv, escrowVars
<1> QED
  BY <1>1, <1>2, <1>3, <1>4 DEF EscrowNext

\* The balances that claim and close_job move by hand add up, over any number of
\* workers, claims and lives of the escrow: nothing is created, nothing is stuck.
THEOREM LamportsConserved == EscrowSpec => []Conserved
<1>1. EscrowInv /\ BalanceInv /\ [EscrowNext]_escrowVars => BalanceInv'
  BY BalanceStep
<1>2. BalanceInv => Conserved
  BY DEF BalanceInv, Conserved, Sum
<1> QED
  BY <1>1, <1>2, BalanceInit, EscrowInvariance, PTL DEF EscrowSpec

-----------------------------------------------------------------------------
(* The program, the books and the requests together.                       *)

\* A claim under way asks for no more than its worker was credited.
Covered ==
    \A q \in Requests : /\ claim[q].nonce <= MaxClock
                        /\ claim[q].amount <= books[claim[q].worker].cumulative

\* A worker was not credited more chunks than the job has.
Budgeted ==
    \A w \in Workers : books[w].cumulative + owing[w] + unaccepted <= NChunks

IInv == TypeOK /\ EscrowInv /\ Covered /\ Budgeted /\ NeverOverpaid

\* A request without a claim has a well-typed record.
LEMMA NoClaimType == NoClaim \in [stage : Stages, worker : Workers,
                                  amount : Nat, nonce : Nat]
<1>1. (CHOOSE w \in Workers : TRUE) \in Workers
  BY SettlementAssumption
<1> QED
  BY <1>1 DEF NoClaim, Stages

\* A job that has just been created satisfies the invariant.
LEMMA IInvInit == Init => IInv
<1> SUFFICES ASSUME Init PROVE IInv
  OBVIOUS
<1> USE EscrowAssumption, SettlementAssumption
<1>1. EscrowInv
  BY EscrowInvInit DEF Init
<1>2. TypeOK
  BY <1>1, NoClaimType DEF Init, TypeOK, EscrowInv
<1>3. Covered
  BY NoClaimType DEF Init, Covered, NoClaim
<1>4. Budgeted /\ NeverOverpaid
  BY DEF Init, EscrowInit, Budgeted, NeverOverpaid
<1> QED
  BY <1>1, <1>2, <1>3, <1>4 DEF IInv

\* A step that leaves the escrow and the books alone and changes the claims
\* only by forgetting some, or moving some on, keeps the invariant.
LEMMA ClaimsOnly ==
  ASSUME IInv, UNCHANGED <<escrowVars, jobVars, books, clock, closing>>,
         claim' \in [Requests -> [stage : Stages, worker : Workers,
                                  amount : Nat, nonce : Nat]],
         \A q \in Requests :
           \/ claim'[q].amount = 0 /\ claim'[q].nonce = 0
           \/ /\ claim'[q].worker = claim[q].worker
              /\ claim'[q].amount = claim[q].amount
              /\ claim'[q].nonce = claim[q].nonce
  PROVE  IInv'
<1> USE DEF IInv, escrowVars, jobVars
<1>1. EscrowInv'
  BY DEF EscrowInv, EscrowTypeOK, Solvent, ReplayPaysNothing
<1>2. TypeOK'
  BY <1>1 DEF TypeOK, EscrowInv
<1>3. Covered'
  BY SettlementAssumption DEF Covered, TypeOK
<1>4. Budgeted' /\ NeverOverpaid'
  BY DEF Budgeted, NeverOverpaid
<1> QED
  BY <1>1, <1>2, <1>3, <1>4

\* Steps that touch neither the escrow nor the claims.
LEMMA BooksOnly ==
  ASSUME IInv, UNCHANGED <<escrowVars, claim, clock>>,
         status' \in {"draft", "open", "closed"},
         closing' \in {"idle", "gate", "sent"},
         unaccepted' \in 0..NChunks, dropped' \in 0..NChunks,
         owing' \in [Workers -> 0..NChunks],
         books' \in [Workers -> [cumulative : Nat, claimed : Nat, nonce : Nat]],
         \A w \in Workers : books'[w].cumulative >= books[w].cumulative,
         Budgeted'
  PROVE  IInv'
<1> USE DEF IInv, escrowVars
<1>1. EscrowInv'
  BY DEF EscrowInv, EscrowTypeOK, Solvent, ReplayPaysNothing
<1>2. TypeOK'
  BY <1>1 DEF TypeOK, EscrowInv
<1>3. Covered'
  <2> SUFFICES ASSUME NEW q \in Requests
               PROVE  /\ claim[q].nonce <= MaxClock
                      /\ claim[q].amount <= books'[claim[q].worker].cumulative
    BY DEF Covered
  <2>1. claim[q].worker \in Workers /\ claim[q].amount \in Nat
    BY DEF TypeOK
  <2>2. /\ books[claim[q].worker].cumulative \in Nat
        /\ books'[claim[q].worker].cumulative \in Nat
    BY <2>1 DEF TypeOK
  <2> QED
    BY <2>1, <2>2 DEF Covered
<1>4. NeverOverpaid'
  <2> SUFFICES ASSUME NEW w \in Workers
               PROVE  received[w] <= books'[w].cumulative
    BY DEF NeverOverpaid
  <2>1. /\ received[w] \in Nat
        /\ books[w].cumulative \in Nat /\ books'[w].cumulative \in Nat
    BY DEF TypeOK, EscrowTypeOK
  <2> QED
    BY <2>1 DEF NeverOverpaid
<1> QED
  BY <1>1, <1>2, <1>3, <1>4

\* The funder's deposit touches neither the books nor what workers have had.
LEMMA FundKeeps ==
  ASSUME IInv, NEW budget \in 0..MaxBudget, Fund(budget)
  PROVE  IInv'
<1>1. EscrowInv'
  BY InitializeKeeps DEF Fund, IInv
<1>2. UNCHANGED <<jobVars, books, clock, claim, closing, received>>
  BY DEF Fund, InitializeJob
<1> QED
  BY <1>1, <1>2 DEF IInv, TypeOK, EscrowInv, Covered, Budgeted, NeverOverpaid, jobVars

\* A chunk is accepted: one chunk less is left, one more is owed.
LEMMA AcceptKeeps ==
  ASSUME IInv, NEW w \in Workers, AcceptChunk(w)
  PROVE  IInv'
<1> USE SettlementAssumption
<1>1. /\ unaccepted \in 0..NChunks /\ unaccepted > 0 /\ dropped \in 0..NChunks
      /\ owing \in [Workers -> 0..NChunks]
      /\ \A v \in Workers : books[v].cumulative \in Nat
  BY DEF AcceptChunk, IInv, TypeOK
<1>2. owing[w] + 1 \in 0..NChunks
  BY <1>1 DEF IInv, Budgeted
<1>3. /\ unaccepted' \in 0..NChunks
      /\ owing' \in [Workers -> 0..NChunks]
      /\ UNCHANGED <<escrowVars, claim, clock, books, status, dropped, closing>>
  BY <1>1, <1>2 DEF AcceptChunk
<1>4. Budgeted'
  <2> SUFFICES ASSUME NEW v \in Workers
               PROVE  books[v].cumulative + owing'[v] + unaccepted' <= NChunks
    BY <1>3 DEF Budgeted
  <2>1. books[v].cumulative + owing[v] + unaccepted <= NChunks
    BY DEF IInv, Budgeted
  <2>2. owing'[v] = IF v = w THEN owing[v] + 1 ELSE owing[v]
    BY <1>1 DEF AcceptChunk
  <2>3. unaccepted' = unaccepted - 1
    BY DEF AcceptChunk
  <2> QED
    BY <1>1, <2>1, <2>2, <2>3
<1>5. \A v \in Workers : books'[v].cumulative >= books[v].cumulative
  BY <1>1, <1>3
<1> QED
  BY <1>3, <1>4, <1>5, BooksOnly DEF IInv, TypeOK

\* What was owed is credited.
LEMMA CreditKeeps ==
  ASSUME IInv, NEW w \in Workers, CreditEarnings(w)
  PROVE  IInv'
<1> USE SettlementAssumption
<1>1. /\ unaccepted \in 0..NChunks
      /\ owing \in [Workers -> 0..NChunks] /\ owing[w] > 0
      /\ books \in [Workers -> [cumulative : Nat, claimed : Nat, nonce : Nat]]
  BY DEF CreditEarnings, IInv, TypeOK
<1>2. /\ owing' \in [Workers -> 0..NChunks]
      /\ UNCHANGED <<escrowVars, claim, clock, unaccepted, dropped, status, closing>>
  BY <1>1 DEF CreditEarnings
<1>3. books' \in [Workers -> [cumulative : Nat, claimed : Nat, nonce : Nat]]
  BY <1>1 DEF CreditEarnings
<1>4. ASSUME NEW v \in Workers
      PROVE  /\ owing'[v] = IF v = w THEN owing[v] - 1 ELSE owing[v]
             /\ books'[v].cumulative =
                  IF v = w THEN books[v].cumulative + 1 ELSE books[v].cumulative
  BY <1>1 DEF CreditEarnings
<1>5. Budgeted'
  BY <1>1, <1>2, <1>4 DEF IInv, Budgeted
<1>6. \A v \in Workers : books'[v].cumulative >= books[v].cumulative
  BY <1>1, <1>4
<1> QED
  BY <1>1, <1>2, <1>3, <1>5, <1>6, BooksOnly DEF IInv, TypeOK

\* A claim that was given out is covered by what its worker was credited.
LEMMA VoucherKeeps ==
  ASSUME IInv, NEW q \in Requests, NEW w \in Workers, Voucher(q, w)
  PROVE  IInv'
<1> USE SettlementAssumption DEF IInv, escrowVars, jobVars
<1>1. EscrowInv'
  BY DEF Voucher, EscrowInv, EscrowTypeOK, Solvent, ReplayPaysNothing
<1>2. /\ books[w].cumulative \in Nat /\ clock \in Nat /\ clock <= MaxClock
      /\ claim \in [Requests -> [stage : Stages, worker : Workers,
                                 amount : Nat, nonce : Nat]]
  BY DEF TypeOK
<1>3. claim' = [claim EXCEPT ![q] = [stage |-> "signed", worker |-> w,
                  amount |-> books[w].cumulative, nonce |-> clock]]
  BY DEF Voucher
<1>4. TypeOK'
  <2>1. claim' \in [Requests -> [stage : Stages, worker : Workers,
                                amount : Nat, nonce : Nat]]
    BY <1>2, <1>3 DEF Stages
  <2> QED
    BY <1>1, <2>1 DEF Voucher, TypeOK, EscrowInv
<1>5. Covered'
  <2> SUFFICES ASSUME NEW p \in Requests
               PROVE  /\ claim'[p].nonce <= MaxClock
                      /\ claim'[p].amount <= books[claim'[p].worker].cumulative
    BY DEF Covered, Voucher
  <2>1. CASE p = q
    BY <1>2, <1>3, <2>1
  <2>2. CASE p # q
    BY <1>2, <1>3, <2>2 DEF Covered
  <2> QED
    BY <2>1, <2>2
<1>6. Budgeted' /\ NeverOverpaid'
  BY DEF Voucher, Budgeted, NeverOverpaid
<1> QED
  BY <1>1, <1>4, <1>5, <1>6

\* Co-signing, losing, giving up and failing change a claim's stage at most.
LEMMA ClaimMovesKeep ==
  ASSUME IInv, NEW q \in Requests,
         CoSign(q) \/ LandFailed(q) \/ Drop(q) \/ GiveUp(q)
  PROVE  IInv'
<1>1. claim \in [Requests -> [stage : Stages, worker : Workers,
                             amount : Nat, nonce : Nat]]
  BY DEF IInv, TypeOK
<1>2. UNCHANGED <<escrowVars, jobVars, books, clock, closing>>
  BY DEF CoSign, LandFailed, Drop, GiveUp
<1>3. \/ claim' = [claim EXCEPT ![q] = NoClaim]
      \/ \E s \in Stages : claim' = [claim EXCEPT ![q].stage = s]
  <2>1. CASE CoSign(q)
    BY <2>1 DEF CoSign, Stages
  <2>2. CASE LandFailed(q)
    BY <2>2 DEF LandFailed, Stages
  <2>3. CASE Drop(q)
    BY <2>3 DEF Drop
  <2>4. CASE GiveUp(q)
    BY <2>4 DEF GiveUp, SetStage, Stages
  <2> QED
    BY <2>1, <2>2, <2>3, <2>4
<1>4. claim' \in [Requests -> [stage : Stages, worker : Workers,
                              amount : Nat, nonce : Nat]]
  BY <1>1, <1>3, NoClaimType
<1>5. \A p \in Requests :
        \/ claim'[p].amount = 0 /\ claim'[p].nonce = 0
        \/ /\ claim'[p].worker = claim[p].worker
           /\ claim'[p].amount = claim[p].amount
           /\ claim'[p].nonce = claim[p].nonce
  BY <1>1, <1>3 DEF NoClaim
<1> QED
  BY <1>2, <1>4, <1>5, ClaimsOnly

\* A claim that lands pays its worker up to what it says, which is covered.
LEMMA LandKeeps ==
  ASSUME IInv, NEW q \in Requests, Land(q)
  PROVE  IInv'
<1> DEFINE c == claim[q]
           w == claim[q].worker
<1> USE EscrowAssumption, SettlementAssumption
<1>1. /\ c \in [stage : Stages, worker : Workers, amount : Nat, nonce : Nat]
      /\ claim \in [Requests -> [stage : Stages, worker : Workers,
                                 amount : Nat, nonce : Nat]]
      /\ w \in Workers
  BY DEF IInv, TypeOK
<1>2. /\ c.amount <= books[w].cumulative /\ c.nonce <= MaxClock
      /\ books[w].cumulative \in Nat /\ owing[w] \in Nat /\ unaccepted \in Nat
      /\ books[w].cumulative + owing[w] + unaccepted <= NChunks
  BY <1>1 DEF IInv, TypeOK, Covered, Budgeted
<1>3. c.amount \in U64 /\ c.nonce \in U64
  BY <1>1, <1>2 DEF U64
<1>4. Claim(w, c.amount, c.nonce)
  BY DEF Land
<1>5. EscrowInv'
  BY <1>1, <1>3, <1>4, ClaimKeeps DEF IInv
<1>6. /\ UNCHANGED <<jobVars, books, clock, closing>>
      /\ \/ claim' = [claim EXCEPT ![q] = NoClaim]
         \/ claim' = [claim EXCEPT ![q] = [claim[q] EXCEPT !.stage = "settled"]]
  BY DEF Land
<1>7. claim' \in [Requests -> [stage : Stages, worker : Workers,
                              amount : Nat, nonce : Nat]]
  BY <1>1, <1>6, NoClaimType DEF Stages
<1>8. TypeOK'
  BY <1>5, <1>6, <1>7 DEF IInv, TypeOK, EscrowInv, jobVars
<1>9. Covered'
  <2> SUFFICES ASSUME NEW p \in Requests
               PROVE  /\ claim'[p].nonce <= MaxClock
                      /\ claim'[p].amount <= books[claim'[p].worker].cumulative
    BY <1>6 DEF Covered
  <2>1. \/ claim'[p] = NoClaim
        \/ /\ claim'[p].worker = claim[p].worker
           /\ claim'[p].amount = claim[p].amount
           /\ claim'[p].nonce = claim[p].nonce
    BY <1>1, <1>6
  <2>2. CASE claim'[p] = NoClaim
    <3>1. NoClaim.worker \in Workers /\ NoClaim.amount = 0 /\ NoClaim.nonce = 0
      BY NoClaimType DEF NoClaim
    <3>2. books[NoClaim.worker].cumulative \in Nat
      BY <3>1 DEF IInv, TypeOK
    <3> QED
      BY <2>2, <3>1, <3>2
  <2> QED
    BY <2>1, <2>2 DEF IInv, Covered
<1>10. Budgeted'
  BY <1>6 DEF IInv, Budgeted, jobVars
<1>11. NeverOverpaid'
  <2> SUFFICES ASSUME NEW v \in Workers
               PROVE  received'[v] <= books[v].cumulative
    BY <1>6 DEF NeverOverpaid
  <2>1. received'[v] = earned'[v].claimed
    BY <1>5 DEF EscrowInv, ReplayPaysNothing
  <2>2. CASE v = w
    BY <1>1, <1>2, <1>4, <2>1, <2>2 DEF Claim, Pay, IInv, EscrowInv, EscrowTypeOK
  <2>3. CASE v # w
    <3>1. received'[v] = received[v]
      BY <1>4, <2>3 DEF Claim, Pay, IInv, EscrowInv, EscrowTypeOK
    <3> QED
      BY <3>1 DEF IInv, NeverOverpaid
  <2> QED
    BY <2>2, <2>3
<1> QED
  BY <1>5, <1>8, <1>9, <1>10, <1>11 DEF IInv

\* The books are written: no credit is lost, the claim is forgotten.
LEMMA WriteKeeps ==
  ASSUME IInv, NEW q \in Requests, WriteBooks(q)
  PROVE  IInv'
<1> DEFINE w == claim[q].worker
<1> USE SettlementAssumption DEF IInv, escrowVars, jobVars
<1>1. /\ claim \in [Requests -> [stage : Stages, worker : Workers,
                                 amount : Nat, nonce : Nat]]
      /\ w \in Workers /\ claim[q].nonce \in Nat
      /\ books \in [Workers -> [cumulative : Nat, claimed : Nat, nonce : Nat]]
  BY DEF TypeOK
<1>2. /\ books' \in [Workers -> [cumulative : Nat, claimed : Nat, nonce : Nat]]
      /\ \A v \in Workers : books'[v].cumulative = books[v].cumulative
  BY <1>1 DEF WriteBooks
<1>3. claim' = [claim EXCEPT ![q] = NoClaim] /\ UNCHANGED <<escrowVars, jobVars, clock, closing>>
  BY DEF WriteBooks
<1>4. claim' \in [Requests -> [stage : Stages, worker : Workers,
                              amount : Nat, nonce : Nat]]
  BY <1>1, <1>3, NoClaimType
<1>5. EscrowInv'
  BY <1>3 DEF EscrowInv, EscrowTypeOK, Solvent, ReplayPaysNothing
<1>6. TypeOK'
  BY <1>2, <1>3, <1>4, <1>5 DEF TypeOK, EscrowInv
<1>7. Covered'
  <2> SUFFICES ASSUME NEW p \in Requests
               PROVE  /\ claim'[p].nonce <= MaxClock
                      /\ claim'[p].amount <= books'[claim'[p].worker].cumulative
    BY DEF Covered
  <2>1. CASE p = q
    <3>1. claim'[p] = NoClaim
      BY <1>1, <1>3, <2>1
    <3>2. NoClaim.worker \in Workers /\ NoClaim.amount = 0 /\ NoClaim.nonce = 0
      BY NoClaimType DEF NoClaim
    <3>3. books'[NoClaim.worker].cumulative \in Nat
      BY <1>2, <3>2
    <3> QED
      BY <3>1, <3>2, <3>3
  <2>2. CASE p # q
    <3>1. claim'[p] = claim[p] /\ claim[p].worker \in Workers
      BY <1>1, <1>3, <2>2
    <3> QED
      BY <1>2, <3>1 DEF Covered
  <2> QED
    BY <2>1, <2>2
<1>8. Budgeted' /\ NeverOverpaid'
  BY <1>2, <1>3 DEF Budgeted, NeverOverpaid
<1> QED
  BY <1>5, <1>6, <1>7, <1>8

\* The reclaim empties the escrow and leaves what workers have had.
LEMMA LandCloseKeeps ==
  ASSUME IInv, LandClose
  PROVE  IInv'
<1>1. EscrowInv'
  BY CloseKeeps DEF LandClose, IInv
<1>2. /\ UNCHANGED <<jobVars, books, clock, claim, received>>
      /\ closing' = "idle"
  BY DEF LandClose, CloseJob
<1> QED
  BY <1>1, <1>2 DEF IInv, TypeOK, EscrowInv, Covered, Budgeted, NeverOverpaid, jobVars

\* Every step of requests, transactions and the clock keeps the invariant.
LEMMA IInvStep == IInv /\ [Next]_vars => IInv'
<1> SUFFICES ASSUME IInv, [Next]_vars
             PROVE  IInv'
  OBVIOUS
<1>1. ASSUME NEW w \in Workers, AcceptChunk(w) \/ CreditEarnings(w)
      PROVE  IInv'
  BY <1>1, AcceptKeeps, CreditKeeps
<1>2. CASE ReportFunded \/ DropChunk \/ CompleteJob \/ StartClose \/ CoSignClose \/ DropClose
  <2>1. /\ UNCHANGED <<escrowVars, claim, clock, unaccepted, owing, books>>
        /\ status' \in {"draft", "open", "closed"} /\ closing' \in {"idle", "gate", "sent"}
        /\ dropped' \in 0..NChunks
    BY <1>2, SettlementAssumption DEF ReportFunded, DropChunk, CompleteJob, StartClose, CoSignClose, DropClose, jobVars, IInv, TypeOK
  <2>2. Budgeted' /\ \A w \in Workers : books'[w].cumulative >= books[w].cumulative
    BY <2>1 DEF IInv, TypeOK, Budgeted
  <2> QED
    BY <2>1, <2>2, BooksOnly DEF IInv, TypeOK
<1>3. CASE Tick
  BY <1>3, SettlementAssumption DEF Tick, IInv, TypeOK, EscrowInv, EscrowTypeOK,
       Solvent, ReplayPaysNothing, Covered, Budgeted, NeverOverpaid, escrowVars, jobVars
<1>4. ASSUME NEW q \in Requests, ClaimStep(q)
      PROVE  IInv'
  BY <1>4, VoucherKeeps, ClaimMovesKeep, LandKeeps, WriteKeeps DEF ClaimStep
<1>5. CASE LandClose
  BY <1>5, LandCloseKeeps
<1>6. ASSUME NEW budget \in 0..MaxBudget, Fund(budget)
      PROVE  IInv'
  BY <1>6, FundKeeps
<1>7. CASE UNCHANGED vars
  BY <1>7 DEF vars, escrowVars, jobVars, IInv, TypeOK, EscrowInv, EscrowTypeOK,
       Solvent, ReplayPaysNothing, Covered, Budgeted, NeverOverpaid
<1> QED
  BY <1>1, <1>2, <1>3, <1>4, <1>5, <1>6, <1>7 DEF Next

\* The settlement of a job always satisfies its invariant.
LEMMA IInvariance == Spec => []IInv
  BY IInvInit, IInvStep, PTL DEF Spec

\* Books, claims and accounts keep their types.
THEOREM TypeCorrect == Spec => []TypeOK
<1>1. IInv => TypeOK
  BY DEF IInv
<1> QED
  BY <1>1, IInvariance, PTL

\* Whatever is lost, repeated, overtaken or lands late, a worker is never paid
\* more than the coordinator credited.
THEOREM PaidWithinCredit == Spec => []NeverOverpaid
<1>1. IInv => NeverOverpaid
  BY DEF IInv
<1> QED
  BY <1>1, IInvariance, PTL
-----------------------------------------------------------------------------
(***************************************************************************)
(* The budget.  One worker's voucher competes with what all the others     *)
(* have claimed, so what covers it is a sum: what is credited and owed to  *)
(* all of them, with the chunks that are left, is what the budget that was *)
(* reported has room for, and what the escrow has paid is what they have   *)
(* had, as long as it is the first escrow of the job.                      *)
(***************************************************************************)

\* What a worker has or will have credit for.
Due == [w \in Workers |-> books[w].cumulative + owing[w]]

FundInv ==
    /\ Sum(Due, Workers) + unaccepted <= NChunks
    /\ status = "draft" => \A w \in Workers : Due[w] = 0
    /\ opened = 0 => ~escrow.open /\ status = "draft" /\ Sum(received, Workers) = 0
    /\ opened = 1 /\ escrow.open => escrow.paid = Sum(received, Workers)
    /\ opened = 1 /\ escrow.open /\ status # "draft" => escrow.budget >= NChunks

\* The types the sums need.
LEMMA FundTypes ==
  ASSUME IInv
  PROVE  /\ IsFiniteSet(Workers) /\ NChunks \in Nat /\ unaccepted \in Nat /\ opened \in Nat
         /\ received \in [Workers -> Nat]
         /\ owing \in [Workers -> Nat]
         /\ books \in [Workers -> [cumulative : Nat, claimed : Nat, nonce : Nat]]
         /\ \A w \in Workers : /\ Due[w] \in Nat /\ Due[w] = books[w].cumulative + owing[w]
                               /\ owing[w] \in Nat /\ books[w].cumulative \in Nat
         /\ Sum(Due, Workers) \in Int /\ Sum(received, Workers) \in Int
<1>1. /\ IsFiniteSet(Workers) /\ NChunks \in Nat /\ unaccepted \in Nat /\ opened \in Nat
      /\ received \in [Workers -> Nat]
      /\ owing \in [Workers -> Nat]
      /\ books \in [Workers -> [cumulative : Nat, claimed : Nat, nonce : Nat]]
  BY EscrowAssumption, SettlementAssumption DEF IInv, TypeOK, EscrowTypeOK
<1>2. \A w \in Workers : /\ Due[w] \in Nat /\ Due[w] = books[w].cumulative + owing[w]
                         /\ owing[w] \in Nat /\ books[w].cumulative \in Nat
  BY <1>1 DEF Due
<1>3. \A w \in Workers : Due[w] \in Int /\ received[w] \in Int
  BY <1>1, <1>2
<1>4. Sum(Due, Workers) \in Int /\ Sum(received, Workers) \in Int
  BY <1>1, <1>3, SumTakes
<1> QED
  BY <1>1, <1>2, <1>4

LEMMA FundInit == Init => FundInv
<1> SUFFICES ASSUME Init PROVE FundInv
  OBVIOUS
<1>1. \A w \in Workers : Due[w] = 0 /\ received[w] = 0
  BY DEF Init, EscrowInit, Due
<1>2. IsFiniteSet(Workers) /\ NChunks \in Nat
  BY EscrowAssumption, SettlementAssumption
<1>3. Sum(Due, Workers) = 0 /\ Sum(received, Workers) = 0
  BY <1>1, <1>2, SumZero
<1> QED
  BY <1>1, <1>2, <1>3 DEF FundInv, Init, EscrowInit, Closed

\* Steps that change neither what is due nor what the escrow paid.
LEMMA FundByParts ==
  ASSUME IInv, FundInv, UNCHANGED <<unaccepted, owing, received>>,
         \A w \in Workers : books'[w].cumulative = books[w].cumulative,
         \/ UNCHANGED <<opened, escrow, status>>
         \/ /\ UNCHANGED <<opened, escrow>> /\ status = "draft" /\ escrow.open
            /\ escrow.budget >= NChunks
         \/ UNCHANGED <<opened, escrow>> /\ status # "draft" /\ status' # "draft"
         \/ UNCHANGED <<opened, status>> /\ escrow.open /\ ~escrow'.open
         \/ /\ UNCHANGED status /\ ~escrow.open /\ opened' = opened + 1
            /\ escrow'.open /\ escrow'.paid = 0
  PROVE  FundInv'
<1>1. Due' = Due
  BY DEF Due
<1>2. opened \in Nat
  BY FundTypes
<1> QED
  BY <1>1, <1>2 DEF FundInv

\* Work accepted and earnings credited move what is due from one place to the
\* next.
LEMMA FundCredit ==
  ASSUME IInv, FundInv, NEW w \in Workers, AcceptChunk(w) \/ CreditEarnings(w)
  PROVE  FundInv'
<1>t. status # "draft" \/ CreditEarnings(w)
  BY DEF AcceptChunk
<1>0. UNCHANGED <<received, escrow, opened, status>>
  BY DEF AcceptChunk, CreditEarnings, escrowVars
<1>1. CASE AcceptChunk(w)
  <2>1. /\ unaccepted' = unaccepted - 1 /\ UNCHANGED books
        /\ \A v \in Workers : owing'[v] = IF v = w THEN owing[v] + 1 ELSE owing[v]
    BY <1>1, FundTypes DEF AcceptChunk
  <2> PICK g : g = Due'
    OBVIOUS
  <2>2. \A v \in Workers : g[v] = IF v = w THEN Due[v] + 1 ELSE Due[v]
    <3>1. \A v \in Workers : g[v] = books'[v].cumulative + owing'[v]
      BY DEF Due
    <3> QED
      BY <2>1, <3>1, FundTypes
  <2>3. /\ \A v \in Workers : Due[v] \in Int /\ g[v] \in Int
        /\ \A v \in Workers \ {w} : g[v] = Due[v]
        /\ g[w] = Due[w] + 1
    BY <2>2, FundTypes
  <2>4. Sum(g, Workers) = Sum(Due, Workers) + 1
    <3>1. IsFiniteSet(Workers)
      BY FundTypes
    <3> QED
      BY <2>3, <3>1, SumChanges
  <2>5. Sum(Due', Workers) + unaccepted' <= NChunks
    BY <2>1, <2>4, FundTypes DEF FundInv
  <2>6. status' # "draft"
    BY <1>0, <1>1 DEF AcceptChunk
  <2> QED
    BY <1>0, <2>5, <2>6 DEF FundInv
<1>2. CASE CreditEarnings(w)
  <2>1. /\ unaccepted' = unaccepted
        /\ \A v \in Workers :
             /\ owing'[v] = IF v = w THEN owing[v] - 1 ELSE owing[v]
             /\ books'[v].cumulative =
                  IF v = w THEN books[v].cumulative + 1 ELSE books[v].cumulative
    BY <1>2, FundTypes DEF CreditEarnings
  <2>2. Due' = Due
    BY <2>1, FundTypes DEF Due
  <2> QED
    BY <1>0, <2>1, <2>2 DEF FundInv
<1> QED
  BY <1>1, <1>2

\* A claim that lands is paid by the escrow and had by its worker.
LEMMA FundLand ==
  ASSUME IInv, FundInv, NEW q \in Requests, Land(q)
  PROVE  FundInv'
<1> DEFINE w == claim[q].worker
           d == Delta(w, claim[q].amount)
<1>1. Claim(w, claim[q].amount, claim[q].nonce) /\ UNCHANGED <<jobVars, books>>
  BY DEF Land
<1>2. w \in Workers /\ d \in Int
  <2>1. w \in Workers /\ claim[q].amount \in Nat
    BY DEF IInv, TypeOK
  <2>2. earned[w].claimed \in Int
    BY <2>1, EscrowAssumption DEF IInv, TypeOK, EscrowTypeOK, U64
  <2> QED
    BY <2>1, <2>2 DEF Delta
<1>3. /\ escrow.open /\ escrow' = [escrow EXCEPT !.paid = @ + d, !.lamports = @ - d]
      /\ received' = [received EXCEPT ![w] = @ + d] /\ UNCHANGED opened
  BY <1>1 DEF Claim, Authorized, Pay
<1> HIDE DEF d, w
<1>4. Sum(received', Workers) = Sum(received, Workers) + d
  BY <1>2, <1>3, ClaimBalances DEF IInv
<1>5. escrow'.open /\ escrow'.paid = escrow.paid + d /\ escrow'.budget = escrow.budget
  BY <1>3 DEF IInv, TypeOK, EscrowTypeOK
<1>6. Due' = Due /\ UNCHANGED <<unaccepted, status>>
  BY <1>1 DEF Due, jobVars
<1> QED
  BY <1>3, <1>4, <1>5, <1>6 DEF FundInv

LEMMA FundStep == IInv /\ FundInv /\ [Next]_vars => FundInv'
<1> SUFFICES ASSUME IInv, FundInv, [Next]_vars PROVE FundInv'
  OBVIOUS
<1>1. ASSUME NEW budget \in 0..MaxBudget, Fund(budget) PROVE FundInv'
  BY <1>1, FundByParts DEF Fund, InitializeJob, jobVars
<1>2. ASSUME NEW w \in Workers, AcceptChunk(w) \/ CreditEarnings(w) PROVE FundInv'
  BY <1>2, FundCredit
<1>3. CASE ReportFunded \/ DropChunk \/ CompleteJob
  BY <1>3, FundByParts DEF ReportFunded, DropChunk, CompleteJob, escrowVars
<1>4. CASE Tick \/ StartClose \/ CoSignClose \/ DropClose \/ UNCHANGED vars
  BY <1>4, FundByParts DEF Tick, StartClose, CoSignClose, DropClose, vars, escrowVars, jobVars
<1>5. CASE LandClose
  BY <1>5, FundByParts DEF LandClose, CloseJob, Closed, jobVars
<1>6. ASSUME NEW q \in Requests, ClaimStep(q) PROVE FundInv'
  <2>1. CASE Land(q)
    BY <2>1, FundLand
  <2>2. CASE \/ \E w \in Workers : Voucher(q, w)
             \/ CoSign(q) \/ LandFailed(q) \/ Drop(q) \/ GiveUp(q)
    BY <2>2, FundByParts DEF Voucher, CoSign, LandFailed, Drop, GiveUp, escrowVars, jobVars
  <2>3. CASE WriteBooks(q)
    <3>1. \A w \in Workers : books'[w].cumulative = books[w].cumulative
      BY <2>3, FundTypes DEF WriteBooks
    <3> QED
      BY <2>3, <3>1, FundByParts DEF WriteBooks, escrowVars, jobVars
  <2> QED
    BY <1>6, <2>1, <2>2, <2>3 DEF ClaimStep
<1> QED
  BY <1>1, <1>2, <1>3, <1>4, <1>5, <1>6 DEF Next

\* The budget an open job was reported with covers every lamport credited and not
\* yet paid, for any number of workers and of claims on their way: until the escrow
\* is reclaimed no voucher the coordinator gives out meets BudgetExhausted or
\* InsufficientEscrow (the /funded report and claim of lib.rs).
THEOREM VouchersAreCovered == Spec => []VoucherCovered
<1>1. IInv /\ FundInv => VoucherCovered
  <2> SUFFICES ASSUME IInv, FundInv, escrow.open, opened = 1, NEW w \in Workers,
                      books[w].cumulative >= earned[w].claimed
               PROVE  /\ escrow.paid + Delta(w, books[w].cumulative) <= escrow.budget
                      /\ KeepsRent(w, books[w].cumulative)
    BY DEF VoucherCovered
  <2> DEFINE b == books[w].cumulative
             d == b - earned[w].claimed
  <2>1. /\ Delta(w, b) = d /\ earned[w].claimed \in Nat /\ b \in Nat /\ received[w] \in Nat
        /\ escrow.paid \in Nat /\ escrow.budget \in Nat /\ escrow.lamports \in Nat /\ Rent \in Nat
    BY EscrowAssumption, FundTypes DEF Delta, IInv, TypeOK, EscrowTypeOK, U64
  <2>2. /\ received[w] = earned[w].claimed /\ escrow.paid <= escrow.budget
        /\ escrow.lamports = Rent + escrow.budget - escrow.paid
    BY DEF IInv, EscrowInv, Solvent, ReplayPaysNothing
  <2>3. escrow.paid + d <= escrow.budget
    <3>1. CASE status = "draft"
      <4>1. b = 0
        BY <3>1, FundTypes DEF FundInv
      <4> QED
        BY <2>1, <2>2, <4>1
    <3>2. CASE status # "draft"
      <4> PICK g : g = [received EXCEPT ![w] = b]
        OBVIOUS
      <4> PICK e \in Int : e = d
        BY <2>1
      <4>1. /\ \A v \in Workers : received[v] \in Int /\ g[v] \in Int
            /\ \A v \in Workers \ {w} : g[v] = received[v]
            /\ g[w] = received[w] + e
        BY <2>1, <2>2, FundTypes
      <4>2. Sum(g, Workers) = Sum(received, Workers) + e
        <5>1. IsFiniteSet(Workers)
          BY FundTypes
        <5> QED
          BY <4>1, <5>1, SumChanges
      <4>3. \A v \in Workers : g[v] \in Int /\ Due[v] \in Int /\ g[v] <= Due[v]
        <5> SUFFICES ASSUME NEW v \in Workers PROVE g[v] <= Due[v]
          BY <4>1, FundTypes
        <5>1. received[v] <= books[v].cumulative
          BY DEF IInv, NeverOverpaid
        <5>2. g[v] = IF v = w THEN b ELSE received[v]
          BY FundTypes
        <5> QED
          BY <5>1, <5>2, FundTypes
      <4>4. Sum(g, Workers) <= Sum(Due, Workers)
        BY <4>3, FundTypes, SumMonotone
      <4>5. escrow.paid = Sum(received, Workers) /\ escrow.budget >= NChunks
        BY <3>2 DEF FundInv
      <4>6. Sum(Due, Workers) + unaccepted <= NChunks
        BY DEF FundInv
      <4>7. escrow.paid + e = Sum(g, Workers)
        BY <4>2, <4>5
      <4> HIDE DEF d
      <4> QED
        BY <2>1, <4>4, <4>5, <4>6, <4>7, FundTypes
    <3> QED
      BY <3>1, <3>2
  <2> QED
    BY <2>1, <2>2, <2>3 DEF KeepsRent
<1> QED
  BY <1>1, IInvariance, FundInit, FundStep, PTL DEF Spec

\* The coordinator, its requests and the transactions adrift drive the escrow by
\* the program's instructions only: whatever is proved of EscrowSpec holds of the
\* settlement.
THEOREM DrivesTheEscrow == Spec => EscrowSpec
<1>1. Init => EscrowInit
  BY DEF Init
<1>2. IInv /\ [Next]_vars => [EscrowNext]_escrowVars
  <2> SUFFICES ASSUME IInv, [Next]_vars PROVE [EscrowNext]_escrowVars
    OBVIOUS
  <2>1. ASSUME NEW q \in Requests, Land(q) PROVE EscrowNext
    <3>1. /\ claim[q].worker \in Workers /\ claim[q].amount \in Nat /\ claim[q].nonce \in Nat
          /\ claim[q].nonce <= MaxClock
          /\ claim[q].amount <= books[claim[q].worker].cumulative
      BY DEF IInv, TypeOK, Covered
    <3>2. books[claim[q].worker].cumulative <= NChunks
      BY <3>1, FundTypes DEF IInv, Budgeted
    <3>3. claim[q].amount \in U64 /\ claim[q].nonce \in U64
      BY <3>1, <3>2, FundTypes, EscrowAssumption, SettlementAssumption DEF U64
    <3>4. Claim(claim[q].worker, claim[q].amount, claim[q].nonce)
      BY <2>1 DEF Land
    <3> QED
      BY <3>1, <3>3, <3>4 DEF EscrowNext
  <2>2. ASSUME NEW q \in Requests, ClaimStep(q), ~Land(q) PROVE UNCHANGED escrowVars
    BY <2>2 DEF ClaimStep, Voucher, CoSign, LandFailed, Drop, GiveUp, WriteBooks
  <2>3. ASSUME NEW budget \in 0..MaxBudget, Fund(budget) PROVE EscrowNext
    BY <2>3 DEF Fund, EscrowNext
  <2>4. CASE LandClose
    BY <2>4 DEF LandClose, EscrowNext
  <2>5. ASSUME NEW w \in Workers, AcceptChunk(w) \/ CreditEarnings(w)
        PROVE  UNCHANGED escrowVars
    BY <2>5 DEF AcceptChunk, CreditEarnings
  <2>6. CASE \/ ReportFunded \/ DropChunk \/ CompleteJob \/ Tick \/ StartClose \/ CoSignClose \/ DropClose
             \/ UNCHANGED vars
    BY <2>6 DEF ReportFunded, DropChunk, CompleteJob, Tick, StartClose, CoSignClose, DropClose, vars
  <2> QED
    BY <2>1, <2>2, <2>3, <2>4, <2>5, <2>6 DEF Next
<1> QED
  BY <1>1, <1>2, IInvariance, PTL DEF Spec, EscrowSpec

\* Hence no lamport is lost or made on the way of a job, its claims and its
\* reclaim, and the escrow can always pay what is left of its budget.
THEOREM SettlementBalances == Spec => [](Conserved /\ Solvent /\ ReplayPaysNothing)
BY DrivesTheEscrow, LamportsConserved, EscrowSolvent, ReplaysPayNothing, PTL
=============================================================================
