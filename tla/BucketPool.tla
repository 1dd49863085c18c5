----------------------------- MODULE BucketPool -----------------------------
(***************************************************************************)
(* The main thread's handle to a verification thread (bucketPool.ts,       *)
(* verifyThread.ts): requests matched to answers by number, a timer on     *)
(* each, and a thread that is terminated and replaced when one runs out.   *)
(*                                                                         *)
(* The continuations of several restarts that await the same thread run    *)
(* back to back when it is gone, so Respawn performs all of them.          *)
(***************************************************************************)
EXTENDS Integers, FiniteSets

CONSTANTS
    Requests,   \* 1..n
    Kinds,      \* how an evaluation ends: "ok", "wrong", "throws" or "hangs"
    MaxCrashes  \* bound on threads that die of an error of their own

ASSUME PoolAssumption ==
    /\ IsFiniteSet(Requests) /\ Requests = 1..Cardinality(Requests)
    /\ Kinds \subseteq {"ok", "wrong", "throws", "hangs"}
    /\ MaxCrashes \in Nat

VARIABLES
    nextId,
    pending,  \* the map, as a set of [id, req]
    worker,   \* the current thread
    thread,   \* of each thread: state, posted messages, main listens, stuck
    waits,    \* of each thread: the restarts that await its end
    settled,  \* of each request: how its promise was settled, and by whose answer
    crashes

pool == <<nextId, pending, worker, thread, waits, settled, crashes>>

Spawned == 0..Cardinality(Requests)
None    == [state |-> "none", posted |-> {}, listens |-> FALSE, stuck |-> FALSE]
Unsettled == [how |-> "no", by |-> 0]

PoolInit ==
    /\ nextId = 1 /\ pending = {} /\ worker = 0
    /\ thread = [t \in Spawned |-> IF t = 0 THEN [None EXCEPT !.state = "ready", !.listens = TRUE] ELSE None]
    /\ waits = [t \in Spawned |-> 0]
    /\ settled = [r \in Requests |-> Unsettled]
    /\ crashes = 0

\* A message posted to a thread that is gone is dropped; the timer runs anyway.
Dispatch(r) ==
    /\ pending' = pending \cup {[id |-> nextId, req |-> r]}
    /\ nextId' = nextId + 1
    /\ thread' = IF thread[worker].state = "dead" THEN thread
                 ELSE [thread EXCEPT ![worker].posted = @ \cup {[id |-> nextId, req |-> r]}]
    /\ UNCHANGED <<worker, waits, settled, crashes>>

\* Mutant: an answer is taken for the oldest request.
MatchOldest(m) == {p \in pending : \A q \in pending : p.id <= q.id}

Match(m) == {p \in pending : p.id = m.id}

Settle(ps, how, by) ==
    /\ pending' = pending \ ps
    /\ settled' = [r \in Requests |-> IF \E p \in ps : p.req = r THEN [how |-> how, by |-> by] ELSE settled[r]]

\* The handler of each message awaits its module first, so answers come in any order.
ThreadReply(t) ==
    /\ thread[t].state = "ready" /\ ~thread[t].stuck
    /\ \E m \in thread[t].posted, kind \in Kinds :
            IF kind = "hangs"
            THEN /\ thread' = [thread EXCEPT ![t].stuck = TRUE]
                 /\ UNCHANGED <<pending, settled>>
            ELSE /\ thread' = [thread EXCEPT ![t].posted = @ \ {m}]
                 /\ IF thread[t].listens THEN Settle(Match(m), kind, m.req) ELSE UNCHANGED <<pending, settled>>
    /\ UNCHANGED <<nextId, worker, waits, crashes>>

\* Mutant: the request is forgotten and its promise left as it is.
TimeoutSilent(r) ==
    /\ \E p \in pending : p.req = r
    /\ pending' = {p \in pending : p.req # r}
    /\ waits' = [waits EXCEPT ![worker] = @ + 1]
    /\ thread' = IF thread[worker].state = "dead" THEN thread ELSE [thread EXCEPT ![worker].state = "ending"]
    /\ UNCHANGED <<nextId, worker, settled, crashes>>

\* Eight seconds after its dispatch, whatever else was ahead of it.
Timeout(r) ==
    /\ \E p \in pending : p.req = r
    /\ Settle({p \in pending : p.req = r}, "timeout", r)
    /\ waits' = [waits EXCEPT ![worker] = @ + 1]
    /\ thread' = IF thread[worker].state = "dead" THEN thread ELSE [thread EXCEPT ![worker].state = "ending"]
    /\ UNCHANGED <<nextId, worker, crashes>>

ThreadEnds(t) ==
    /\ thread[t].state = "ending"
    /\ thread' = [thread EXCEPT ![t].state = "dead"]
    /\ UNCHANGED <<nextId, pending, worker, waits, settled, crashes>>

\* Mutant: what was posted while the thread was ending is left to its timers.
RespawnUnfailed(t) ==
    /\ thread[t].state = "dead" /\ waits[t] > 0
    /\ worker' = worker + waits[t]
    /\ thread' = [u \in Spawned |-> IF u \in worker + 1 .. worker' THEN [None EXCEPT !.state = "starting"] ELSE thread[u]]
    /\ waits' = [waits EXCEPT ![t] = 0]
    /\ UNCHANGED <<nextId, pending, settled, crashes>>

\* Each restart fails all that is pending and puts a thread of its own in place.
Respawn(t) ==
    /\ thread[t].state = "dead" /\ waits[t] > 0
    /\ Settle(pending, "restarted", 0)
    /\ worker' = worker + waits[t]
    /\ thread' = [u \in Spawned |-> IF u \in worker + 1 .. worker' THEN [None EXCEPT !.state = "starting"] ELSE thread[u]]
    /\ waits' = [waits EXCEPT ![t] = 0]
    /\ UNCHANGED <<nextId, crashes>>

\* The handlers go to the thread that is current by then.
ThreadReady(t) ==
    /\ thread[t].state = "starting"
    /\ thread' = [u \in Spawned |->
         [thread[u] EXCEPT !.state = IF u = t THEN "ready" ELSE @, !.listens = @ \/ u = worker]]
    /\ UNCHANGED <<nextId, pending, worker, waits, settled, crashes>>

\* An error outside the handlers: all that is pending fails, nothing is replaced.
ThreadCrash ==
    /\ thread[worker].state = "ready" /\ thread[worker].listens
    /\ crashes < MaxCrashes /\ crashes' = crashes + 1
    /\ Settle(pending, "error", 0)
    /\ thread' = [thread EXCEPT ![worker].state = "dead"]
    /\ UNCHANGED <<nextId, worker, waits>>

PoolStep ==
    \/ \E t \in Spawned : ThreadReply(t) \/ ThreadEnds(t) \/ Respawn(t) \/ ThreadReady(t)
    \/ \E r \in Requests : Timeout(r)
    \/ ThreadCrash

\* An answer settles the request it belongs to and no other, across restarts;
\* and whatever is pending was posted to the current thread, unless that one has
\* died, so no request waits for a thread that was replaced under it.
Matched ==
    /\ \A r \in Requests : settled[r].how \in {"ok", "wrong", "throws"} => settled[r].by = r
    /\ \A p \in pending : \/ thread[worker].state = "dead"
                          \/ \E m \in thread[worker].posted : m.id = p.id
=============================================================================
