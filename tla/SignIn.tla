------------------------------- MODULE SignIn -------------------------------
(***************************************************************************)
(* Sign-In With Solana: a page that signs a server nonce for the connected *)
(* wallet and keeps the session (web/lib/auth.tsx), and the coordinator    *)
(* that issues one nonce per wallet and trades it for a session (auth.ts). *)
(* A session is named by the wallet it was minted for.                     *)
(***************************************************************************)
EXTENDS Integers, FiniteSets

CONSTANTS
    Wallets,
    NoWallet,
    MaxNonces    \* bound on the nonces issued

ASSUME SignInAssumption == NoWallet \notin Wallets /\ MaxNonces \in Nat

VARIABLES
    connected, token,  \* of the page: its wallet and its session, if any
    stored,            \* the wallets with a session in localStorage
    attempt,           \* of each wallet's signIn(): where it awaits, and its nonce
    nonce, issued,     \* auth_nonces: the live nonce of each wallet, 0 if none
    raced              \* history: the wallet changed during a signIn()

signIn == <<connected, token, stored, attempt, nonce, issued, raced>>

Idle == [at |-> "idle", nonce |-> 0]

SignInInit ==
    /\ connected = NoWallet /\ token = NoWallet /\ stored = {}
    /\ attempt = [w \in Wallets |-> Idle]
    /\ nonce = [w \in Wallets |-> 0] /\ issued = 0 /\ raced = FALSE

\* Mutant: the page keeps the session it has.
ConnectKeeping(w) ==
    /\ connected # w /\ connected' = w
    /\ raced' = (raced \/ \E v \in Wallets : attempt[v] # Idle)
    /\ UNCHANGED <<token, stored, attempt, nonce, issued>>

\* The wallet is connected or switched: the page takes up its stored session.
Connect(w) ==
    /\ connected # w /\ connected' = w
    /\ token' = IF w \in stored THEN w ELSE NoWallet
    /\ raced' = (raced \/ \E v \in Wallets : attempt[v] # Idle)
    /\ UNCHANGED <<stored, attempt, nonce, issued>>

SignOut ==
    /\ connected # NoWallet
    /\ stored' = stored \ {connected}
    /\ token' = NoWallet /\ connected' = NoWallet
    /\ raced' = (raced \/ \E v \in Wallets : attempt[v] # Idle)
    /\ UNCHANGED <<attempt, nonce, issued>>

At(w, from, to) == attempt[w].at = from /\ attempt' = [attempt EXCEPT ![w] = to]

StartSignIn ==
    /\ connected # NoWallet /\ At(connected, "idle", [at |-> "nonce", nonce |-> 0])
    /\ UNCHANGED <<connected, token, stored, nonce, issued, raced>>

\* A new nonce replaces the wallet's last one; the user signs or declines.
IssueNonce(w) ==
    /\ issued < MaxNonces /\ issued' = issued + 1
    /\ nonce' = [nonce EXCEPT ![w] = issued']
    /\ \E to \in {Idle, [at |-> "verify", nonce |-> issued']} : At(w, "nonce", to)
    /\ UNCHANGED <<connected, token, stored, raced>>

NonceExpires(w) ==
    /\ nonce[w] # 0 /\ nonce' = [nonce EXCEPT ![w] = 0]
    /\ UNCHANGED <<connected, token, stored, attempt, issued, raced>>

\* The signed message carries the live nonce, or the sign-in fails.
CheckNonce(w) ==
    /\ At(w, "verify", IF attempt[w].nonce = nonce[w] THEN [attempt[w] EXCEPT !.at = "delete"] ELSE Idle)
    /\ UNCHANGED <<connected, token, stored, nonce, issued, raced>>

\* Whatever nonce the wallet has by now is deleted, and the session answered.
DeleteNonce(w) ==
    /\ At(w, "delete", [attempt[w] EXCEPT !.at = "store"])
    /\ nonce' = [nonce EXCEPT ![w] = 0]
    /\ UNCHANGED <<connected, token, stored, issued, raced>>

\* The page keeps the session for the wallet it asked for, and shows it.
StoreSession(w) ==
    /\ At(w, "store", Idle)
    /\ stored' = stored \cup {w} /\ token' = w
    /\ UNCHANGED <<connected, nonce, issued, raced>>

SignInNext ==
    \/ StartSignIn \/ SignOut
    \/ \E w \in Wallets :
         \/ Connect(w) \/ IssueNonce(w) \/ NonceExpires(w)
         \/ CheckNonce(w) \/ DeleteNonce(w) \/ StoreSession(w)

\* The page's session is that of the connected wallet, which auth.tsx:11 says
\* without the condition: it holds until the wallet changes during a signIn().
TokenScoped == ~raced => token \in {NoWallet, connected}
=============================================================================
