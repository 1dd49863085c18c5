----------------------------- MODULE WorkerBond -----------------------------
(***************************************************************************)
(* The bond of a worker: the stake account and its instructions (lib.rs    *)
(* stake, unstake, slash), the gates of the coordinator that read it       *)
(* (routes.ts: lease, submit, unstake), the slash after a proven cheat     *)
(* (verification.ts failResult), and the payout wallet that ties worker    *)
(* keys to bonds and to claims.  Bonds are in units of the required stake, *)
(* earnings in units of the price.                                         *)
(***************************************************************************)
EXTENDS Integers, FiniteSets, FiniteSetsExt

CONSTANTS
    Wallets, NoWallet,
    Keys, Chunks, NoKey, NoChunk,
    Results,           \* places for results in verification or being slashed
    UNSTAKE_COOLDOWN_SLOTS,
    MaxSlot, MaxStake  \* bounds on the slot and on a bond

\* A worker key is an address, which may sign in as a wallet too.
ASSUME BondAssumption ==
    /\ Keys \subseteq Wallets
    /\ NoWallet \notin Wallets /\ NoKey \notin Keys /\ NoChunk \notin Chunks
    /\ IsFiniteSet(Wallets)
    /\ UNSTAKE_COOLDOWN_SLOTS \in Nat /\ MaxSlot \in Nat /\ MaxStake \in Nat

VARIABLES
    stake, slot,  \* of each wallet: amount, state and slot of its stake account
    payout,       \* users.payout_address of each key, NoWallet when it is null
    request,      \* of each key: its lease or submit call, between two awaits
    chunk,        \* of each chunk: its state and leased_to
    result,       \* results not settled: state, key, chunk, the bond checked
    unstaking,    \* of each wallet: its withdrawal is between count and chain
    earned, paid, \* by key, and on chain by wallet
    since,        \* history: what was leased on a wallet's bond since the count
    excused,      \* history: chunks the withdrawal did not have to wait for
    overtaken,    \* history: chunks a submission reached after its lease had gone
    moved,        \* history: a key with work under way has changed its payout wallet
    claimants     \* history: the wallets that have claimed a key's earnings

books == <<payout, request, chunk, result, earned>>
chain == <<stake, slot, paid>>
seen  == <<since, excused, overtaken, moved, claimants>>
vars  == <<books, chain, unstaking, seen>>

NoBond    == [amount |-> 0, state |-> "none", at |-> 0]
NoRequest == [at |-> "idle", wallet |-> NoWallet, chunk |-> NoChunk]
NoResult  == [at |-> "none", key |-> NoKey, chunk |-> NoChunk, bond |-> NoWallet]
Free      == [state |-> "pending", by |-> NoKey]

Init ==
    /\ stake = [w \in Wallets |-> NoBond] /\ slot = 0
    /\ payout = [k \in Keys |-> NoWallet]
    /\ request = [k \in Keys |-> NoRequest]
    /\ chunk = [c \in Chunks |-> Free] /\ result = [r \in Results |-> NoResult]
    /\ unstaking = [w \in Wallets |-> FALSE]
    /\ earned = [k \in Keys |-> 0] /\ paid = [w \in Wallets |-> 0]
    /\ since = [w \in Wallets |-> {}] /\ excused = {} /\ overtaken = {}
    /\ moved = FALSE /\ claimants = [k \in Keys |-> {}]

\* The wallet whose bond answers for a key: the one it names, or else its own.
Staker(k) == IF payout[k] = NoWallet THEN k ELSE payout[k]
\* The keys' rows a signed-in wallet speaks for: its own, and those that name it.
Owns(w, k) == w = k \/ payout[k] = w

InVerification(r) == result[r].at \in {"submitted", "verifying"}
\* A key has work under way: a chunk in its name, or a result in verification.
Working(k) ==
    \/ \E c \in Chunks : chunk[c].state \in {"leased", "submitted", "verifying"} /\ chunk[c].by = k
    \/ \E r \in Results : InVerification(r) /\ result[r].key = k

\* Bonding and topping up: also after a withdrawal or a slash it is active again.
Stake(w) ==
    /\ stake[w].amount < MaxStake
    /\ stake' = [stake EXCEPT ![w] = [amount |-> @.amount + 1, state |-> "active", at |-> slot]]
    /\ UNCHANGED <<books, slot, paid, unstaking, seen>>

Tick ==
    /\ slot < MaxSlot /\ slot' = slot + 1
    /\ UNCHANGED <<books, stake, paid, unstaking, seen>>

Bonded(w) == stake[w].state = "active" /\ stake[w].amount >= 1
Call(k, from, to) == request[k].at = from /\ request' = [request EXCEPT ![k] = to]

\* A lease request stores the payout wallet it brings before it looks at the bond:
\* of that wallet, or, with none, of the key itself, whatever is stored.
LeaseUser(k) ==
    /\ \/ \E w \in Wallets :
            /\ Call(k, "idle", [NoRequest EXCEPT !.at = "lease", !.wallet = w])
            /\ payout' = [payout EXCEPT ![k] = w]
            /\ moved' = (moved \/ (payout[k] # w /\ Working(k)))
       \/ /\ Call(k, "idle", [NoRequest EXCEPT !.at = "lease", !.wallet = k])
          /\ UNCHANGED <<payout, moved>>
    /\ UNCHANGED <<chunk, result, earned, chain, unstaking, since, excused, overtaken, claimants>>

LeaseGate(k) ==
    /\ Call(k, "lease", IF Bonded(request[k].wallet) THEN [request[k] EXCEPT !.at = "grant"] ELSE NoRequest)
    /\ UNCHANGED <<payout, chunk, result, earned, chain, unstaking, seen>>

LeaseGrant(k) ==
    /\ Call(k, "grant", NoRequest)
    /\ \E c \in Chunks :
         /\ chunk[c].state = "pending"
         /\ chunk' = [chunk EXCEPT ![c] = [state |-> "leased", by |-> k]]
         /\ since' = [w \in Wallets |-> IF Owns(w, k) /\ unstaking[w] THEN since[w] \cup {c}
                                     ELSE since[w] \ {c}]
         /\ excused' = excused \ {c}
    /\ UNCHANGED <<payout, result, earned, chain, unstaking, overtaken, moved, claimants>>

LeaseExpires(c) ==
    /\ chunk[c].state = "leased"
    /\ chunk' = [chunk EXCEPT ![c] = Free]
    /\ UNCHANGED <<payout, request, result, earned, chain, unstaking, seen>>

\* A submission reads its row, then the bond of the staker in that row.
SubmitRead(k) ==
    /\ \E c \in Chunks :
         /\ chunk[c].state = "leased" /\ chunk[c].by = k
         /\ Call(k, "idle", [at |-> "submit", wallet |-> Staker(k), chunk |-> c])
    /\ UNCHANGED <<payout, chunk, result, earned, chain, unstaking, seen>>

\* Mutant: only the lease is gated.
SubmitGateOpen(k) ==
    /\ Call(k, "submit", [request[k] EXCEPT !.at = "insert"])
    /\ UNCHANGED <<payout, chunk, result, earned, chain, unstaking, seen>>

SubmitGate(k) ==
    /\ Call(k, "submit", IF Bonded(request[k].wallet) THEN [request[k] EXCEPT !.at = "insert"] ELSE NoRequest)
    /\ UNCHANGED <<payout, chunk, result, earned, chain, unstaking, seen>>

\* The result is in, and its chunk marked submitted by id alone: also when the
\* lease has expired since the row was read, or gone to another key.
SubmitInsert(k) ==
    LET c == request[k].chunk
    IN  /\ Call(k, "insert", NoRequest)
        /\ \E r \in Results :
             /\ result[r].at = "none"
             /\ result' = [result EXCEPT ![r] = [at |-> "submitted", key |-> k, chunk |-> c, bond |-> request[k].wallet]]
        /\ chunk' = [chunk EXCEPT ![c].state = "submitted"]
        /\ overtaken' = IF chunk[c] = [state |-> "leased", by |-> k] THEN overtaken ELSE overtaken \cup {c}
        /\ UNCHANGED <<payout, earned, chain, unstaking, since, excused, moved, claimants>>

\* A verdict, which writes the chunk by id too: accepted, challenged (or parked
\* under a training window), or rejected, of a cheat with a slash to follow.
Judge(r) ==
    /\ InVerification(r)
    /\ LET c == result[r].chunk
           k == result[r].key
       IN  \/ /\ result' = [result EXCEPT ![r] = NoResult]
              /\ chunk' = [chunk EXCEPT ![c].state = "accepted"]
              /\ earned' = [earned EXCEPT ![k] = @ + 1]
           \/ /\ result[r].at = "submitted"
              /\ result' = [result EXCEPT ![r].at = "verifying"]
              /\ chunk' = [chunk EXCEPT ![c].state = "verifying"] /\ UNCHANGED earned
           \/ /\ \/ result' = [result EXCEPT ![r].at = "slash"]
                 \/ result' = [result EXCEPT ![r] = NoResult]
              /\ chunk' = [chunk EXCEPT ![c] = Free] /\ UNCHANGED earned
    /\ UNCHANGED <<payout, request, chain, unstaking, seen>>

\* The slash goes to the staker of the key by then; a failure is only logged.
Slash(r) ==
    /\ result[r].at = "slash" /\ result' = [result EXCEPT ![r] = NoResult]
    /\ LET w == Staker(result[r].key)
       IN  \/ /\ stake[w].state # "none"
              /\ stake' = [stake EXCEPT ![w] = [NoBond EXCEPT !.state = "slashed",
                                                !.amount = IF stake[w].amount > 0 THEN stake[w].amount - 1 ELSE 0]]
           \/ UNCHANGED stake
    /\ UNCHANGED <<payout, request, chunk, earned, slot, paid, unstaking, seen>>
-----------------------------------------------------------------------------
Outstanding(w) ==
    {c \in Chunks : /\ chunk[c].state \in {"leased", "submitted"}
                    /\ chunk[c].by \in Keys /\ Owns(w, chunk[c].by)}

\* A withdrawal under the wallet's session: its work is counted, and with none the
\* transaction, if it is byte for byte the expected one, is co-signed and sent.
CountWork(w) ==
    /\ ~unstaking[w] /\ Outstanding(w) = {}
    /\ unstaking' = [unstaking EXCEPT ![w] = TRUE]
    /\ excused' = excused \cup {result[r].chunk : r \in {r \in Results : result[r].at = "verifying" /\ result[r].bond = w}}
    /\ UNCHANGED <<books, chain, since, overtaken, moved, claimants>>

\* The co-signed transaction lands, or fails on chain.
Unstake(w) ==
    /\ unstaking[w] /\ unstaking' = [unstaking EXCEPT ![w] = FALSE]
    /\ \/ /\ stake[w].state = "active" /\ slot - stake[w].at >= UNSTAKE_COOLDOWN_SLOTS
          /\ stake' = [stake EXCEPT ![w] = [NoBond EXCEPT !.state = "withdrawn"]]
          /\ excused' = excused \cup since[w]
       \/ UNCHANGED <<stake, excused>>
    /\ since' = [since EXCEPT ![w] = {}]
    /\ UNCHANGED <<books, slot, paid, overtaken, moved, claimants>>

\* Mutant: the earnings of every key.
CumulativeAll(w) == MapThenSumSet(LAMBDA k : earned[k], {k \in Keys : w \in Wallets})

\* A wallet claims what its rows have earned; the chain, which keeps a total for
\* each wallet, pays what is new to that one.
Cumulative(w) == MapThenSumSet(LAMBDA k : earned[k], {k \in Keys : Owns(w, k)})
Claim(w) ==
    /\ Cumulative(w) > paid[w]
    /\ paid' = [paid EXCEPT ![w] = Cumulative(w)]
    /\ claimants' = [k \in Keys |-> IF Owns(w, k) /\ earned[k] > 0 THEN claimants[k] \cup {w} ELSE claimants[k]]
    /\ UNCHANGED <<books, stake, slot, unstaking, since, excused, overtaken, moved>>

Next ==
    \/ Tick
    \/ \E w \in Wallets : Stake(w) \/ CountWork(w) \/ Unstake(w) \/ Claim(w)
    \/ \E k \in Keys :
         \/ LeaseUser(k) \/ LeaseGate(k) \/ LeaseGrant(k)
         \/ SubmitRead(k) \/ SubmitGate(k) \/ SubmitInsert(k)
    \/ \E c \in Chunks : LeaseExpires(c)
    \/ \E r \in Results : Judge(r) \/ Slash(r)

Spec == Init /\ [][Next]_vars
-----------------------------------------------------------------------------
\* A bond is not withdrawn under a result that may still prove a cheat, except
\* under a challenge that was already open when the work was counted, a lease
\* granted between the count and the chain, or a submission that came after its
\* lease had gone (routes.ts:839-847), whose chunk the count no longer finds: the
\* unstake-lock, as far as it goes.
LockHolds ==
    ~moved => \A r \in Results :
        InVerification(r) /\ stake[result[r].bond].state = "withdrawn"
            => result[r].chunk \in excused \cup overtaken

\* What routes.ts:281-283 says: no withdrawal with a chunk still in verification.
BondStays ==
    \A r \in Results : InVerification(r) => stake[result[r].bond].state # "withdrawn"

\* Work is paid once as long as the earnings of each key have been claimed by one
\* wallet.  The claim route says it without the condition (routes.ts:209-211), and
\* its query does not enforce it (routes.ts:203, 241): the same row backs the
\* vouchers of the key's own wallet and of every wallet it names.
PaidForWork ==
    (\A k \in Keys : \A v, w \in claimants[k] : v = w)
    => MapThenSumSet(LAMBDA w : paid[w], Wallets) <= MapThenSumSet(LAMBDA k : earned[k], Keys)
=============================================================================
