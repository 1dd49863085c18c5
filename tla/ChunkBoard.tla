----------------------------- MODULE ChunkBoard -----------------------------
(***************************************************************************)
(* What the creator of a bounty is promised of its chunks, whatever goes   *)
(* on between the workers and the coordinator: a chunk is held by at most  *)
(* one worker at a time, a chunk that is done stays done and is never      *)
(* handed out again, it is paid for at most once and only when it is done, *)
(* and the bounty closes only when no chunk is left to work on.            *)
(*                                                                         *)
(* The promise is put together from SPEC.md section 7, the budget of       *)
(* apps/coordinator/src/jobs.ts (one price for each chunk) and the comment *)
(* on maybeCompleteJob (apps/coordinator/src/verification.ts).             *)
(***************************************************************************)
EXTENDS Naturals

CONSTANTS Chunks, Workers, Nobody

VARIABLES
    status,  \* "open" to be taken, "held", "done", "dropped"
    holder,  \* who holds, or last held, a chunk that is not open
    paid,    \* how often the price of a chunk was credited
    closed

board == <<status, holder, paid, closed>>

Init ==
    /\ status = [c \in Chunks |-> "open"]
    /\ holder = [c \in Chunks |-> Nobody]
    /\ paid = [c \in Chunks |-> 0]
    /\ closed = FALSE

Take(c, w) ==
    /\ status[c] = "open" /\ ~closed
    /\ status' = [status EXCEPT ![c] = "held"]
    /\ holder' = [holder EXCEPT ![c] = w]
    /\ UNCHANGED <<paid, closed>>

\* Leases ran out, the work was wrong, or its outputs never came.
Return(S) ==
    /\ \A c \in S : status[c] = "held"
    /\ status' = [c \in Chunks |-> IF c \in S THEN "open" ELSE status[c]]
    /\ holder' = [c \in Chunks |-> IF c \in S THEN Nobody ELSE holder[c]]
    /\ UNCHANGED <<paid, closed>>

\* Given up after too many attempts.
Drop(S) ==
    /\ \A c \in S : status[c] = "held"
    /\ status' = [c \in Chunks |-> IF c \in S THEN "dropped" ELSE status[c]]
    /\ holder' = [c \in Chunks |-> IF c \in S THEN Nobody ELSE holder[c]]
    /\ UNCHANGED <<paid, closed>>

Complete(c) ==
    /\ status[c] = "held"
    /\ status' = [status EXCEPT ![c] = "done"]
    /\ UNCHANGED <<holder, paid, closed>>

Pay(c) ==
    /\ status[c] = "done" /\ paid[c] = 0
    /\ paid' = [paid EXCEPT ![c] = 1]
    /\ UNCHANGED <<status, holder, closed>>

Close ==
    /\ \A c \in Chunks : status[c] \in {"done", "dropped"}
    /\ closed' = TRUE
    /\ UNCHANGED <<status, holder, paid>>

Next ==
    \/ \E c \in Chunks : \/ \E w \in Workers : Take(c, w)
                         \/ Complete(c) \/ Pay(c)
    \/ \E S \in SUBSET Chunks : Return(S) \/ Drop(S)
    \/ Close

Spec == Init /\ [][Next]_board
=============================================================================
