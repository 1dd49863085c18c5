---------------------------- MODULE PrizeProofs ----------------------------
(***************************************************************************)
(* The properties of a prize bounty and of the pool that evaluates its     *)
(* candidates, for any number of submissions, workers, crashes and         *)
(* restarts.                                                               *)
(*                                                                         *)
(* PoolInv says why an answer finds its request: numbers are not reused    *)
(* while a thread that knows them lives (Numbered), and the thread that is *)
(* current always has the listener (Listening).  Spent bounds the threads  *)
(* that are ever started by the timeouts that started them.  Counted,      *)
(* Decided and Booked are what CountExact, BestWins and PrizeKept need.    *)
(***************************************************************************)
EXTENDS Prize, FiniteSetTheorems, TLAPS

Answers  == {"ok", "wrong", "throws"}
Messages == [id : Nat, req : Requests]
Endings  == Answers \cup {"no", "timeout", "restarted", "error"}
Threads  == [state : {"none", "starting", "ready", "ending", "dead"},
             posted : SUBSET Messages, listens : BOOLEAN, stuck : BOOLEAN]
Posted   == UNION {thread[t].posted : t \in Spawned}

PoolTypeOK ==
    /\ nextId \in Nat
    /\ pending \subseteq Messages
    /\ worker \in Spawned
    /\ thread \in [Spawned -> Threads]
    /\ waits \in [Spawned -> Nat]
    /\ settled \in [Requests -> [how : Endings, by : Nat]]
    /\ crashes \in Nat

\* Every number in use was given out, and to one request.
Numbered ==
    /\ \A m \in pending \cup Posted : m.id < nextId
    /\ \A m, n \in pending \cup Posted : m.id = n.id => m.req = n.req

\* A request is pending once, and only before it is settled.
PendingOnce ==
    /\ \A p \in pending : settled[p.req] = Unsettled
    /\ \A p, q \in pending : p.req = q.req => p = q

\* The current thread has the listener as soon as it runs.
Listening == thread[worker].state = "ready" => thread[worker].listens

TimedOut == {r \in Requests : settled[r].how = "timeout"}

\* Only the current thread is waited for, and a thread is started by a timeout.
Spent ==
    /\ \A t \in Spawned : waits[t] > 0 => t = worker
    /\ worker + waits[worker] <= Cardinality(TimedOut)

PoolInv == PoolTypeOK /\ Numbered /\ PendingOnce /\ Listening /\ Spent /\ Matched

-----------------------------------------------------------------------------
(* The pool.                                                               *)

\* There are as many requests as their numbers say, and threads 0..that.
LEMMA RequestsFinite ==
  /\ IsFiniteSet(Requests)
  /\ Cardinality(Requests) \in Nat
  /\ Requests = 1..Cardinality(Requests)
  /\ Spawned = 0..Cardinality(Requests)
  /\ Requests \subseteq Nat
  /\ 0 \in Spawned
<1>1. IsFiniteSet(Requests) /\ Requests = 1..Cardinality(Requests)
  BY PoolAssumption
<1>2. Cardinality(Requests) \in Nat
  BY <1>1, FS_CardinalityType
<1> QED
  BY <1>1, <1>2 DEF Spawned

\* Any set of requests is finite and no larger than all of them.
LEMMA SomeRequests ==
  ASSUME NEW S \in SUBSET Requests
  PROVE  IsFiniteSet(S) /\ Cardinality(S) \in Nat /\ Cardinality(S) <= Cardinality(Requests)
<1>1. IsFiniteSet(S) /\ Cardinality(S) <= Cardinality(Requests)
  BY RequestsFinite, FS_Subset
<1> QED
  BY <1>1, FS_CardinalityType

\* A thread that is not there yet, and one that has just been started.
LEMMA FreshThreads ==
  /\ None \in Threads
  /\ [None EXCEPT !.state = "starting"] \in Threads
  /\ [None EXCEPT !.state = "ready", !.listens = TRUE] \in Threads
  /\ Unsettled \in [how : Endings, by : Nat]
BY DEF None, Threads, Unsettled, Endings, Answers

\* A pool that has just been started, whatever was settled before.
LEMMA PoolStarts ==
  ASSUME nextId = 1, pending = {}, worker = 0,
         thread = [t \in Spawned |-> IF t = 0 THEN [None EXCEPT !.state = "ready", !.listens = TRUE] ELSE None],
         waits = [t \in Spawned |-> 0],
         settled \in [Requests -> [how : Endings, by : Nat]], crashes \in Nat,
         \A r \in Requests : settled[r].how \in Answers => settled[r].by = r
  PROVE  PoolInv
<1>1. PoolTypeOK
  BY RequestsFinite, FreshThreads DEF PoolTypeOK
<1>2. thread[0] = [None EXCEPT !.state = "ready", !.listens = TRUE]
  BY RequestsFinite
<1>3. Posted = {}
  BY DEF Posted, None
<1>4. Numbered /\ PendingOnce
  BY <1>3 DEF Numbered, PendingOnce
<1>5. Listening
  BY <1>2 DEF Listening, None
<1>6. Spent
  BY RequestsFinite, SomeRequests DEF Spent, TimedOut
<1> QED
  BY <1>1, <1>4, <1>5, <1>6 DEF PoolInv, Matched, Answers

\* What is posted is a message, and belongs to one of the threads.
LEMMA PostedType ==
  ASSUME PoolTypeOK
  PROVE  /\ Posted \subseteq Messages
         /\ \A t \in Spawned : thread[t].posted \subseteq Posted
         /\ \A t \in Spawned : thread[t] \in Threads
BY DEF PoolTypeOK, Posted, Threads

\* A request that is neither pending nor settled is handed to the pool.
LEMMA DispatchKeeps ==
  ASSUME PoolInv, NEW r \in Requests, Dispatch(r),
         settled[r] = Unsettled, \A p \in pending : p.req # r
  PROVE  PoolInv'
<1> DEFINE m == [id |-> nextId, req |-> r]
<1> USE RequestsFinite DEF PoolInv
<1>0. PoolTypeOK /\ worker \in Spawned /\ thread[worker] \in Threads /\ nextId \in Nat
  BY PostedType DEF PoolTypeOK
<1>1. m \in Messages /\ m.id = nextId /\ m.req = r
  BY <1>0 DEF Messages
<1>2. /\ pending' = pending \cup {m} /\ nextId' = nextId + 1
      /\ UNCHANGED <<worker, waits, settled, crashes>>
      /\ thread' = IF thread[worker].state = "dead" THEN thread
                   ELSE [thread EXCEPT ![worker].posted = @ \cup {m}]
  BY DEF Dispatch
<1>3. /\ thread' \in [Spawned -> Threads]
      /\ \A t \in Spawned : /\ thread'[t].posted \subseteq thread[t].posted \cup {m}
                            /\ thread'[t].state = thread[t].state
                            /\ thread'[t].listens = thread[t].listens
                            /\ thread[t].posted \subseteq thread'[t].posted
  BY <1>0, <1>1, <1>2 DEF PoolTypeOK, Threads
<1>4. PoolTypeOK'
  BY <1>0, <1>1, <1>2, <1>3 DEF PoolTypeOK
<1>5. Numbered'
  <2>1. (pending \cup Posted)' \subseteq pending \cup Posted \cup {m}
    BY <1>2, <1>3 DEF Posted
  <2>2. \A n \in pending \cup Posted : n.id < nextId /\ n.id \in Nat
    BY <1>0, PostedType DEF Numbered, Messages, PoolTypeOK
  <2> QED
    BY <1>0, <1>1, <1>2, <2>1, <2>2 DEF Numbered
<1>6. PendingOnce'
  BY <1>1, <1>2 DEF PendingOnce
<1>7. Listening' /\ Spent'
  BY <1>0, <1>2, <1>3 DEF Listening, Spent, TimedOut
<1>8. Matched'
  <2>1. ASSUME NEW p \in pending', thread'[worker].state # "dead"
        PROVE  \E n \in thread'[worker].posted : n.id = p.id
    <3>1. CASE p = m
      <4>1. thread[worker].state # "dead"
        BY <2>1, <1>0, <1>3
      <4>2. m \in thread'[worker].posted
        BY <4>1, <1>0, <1>2 DEF PoolTypeOK, Threads
      <4> QED
        BY <4>2, <3>1
    <3>2. CASE p \in pending
      BY <2>1, <3>2, <1>0, <1>3 DEF Matched
    <3> QED
      BY <1>2, <2>1, <3>1, <3>2
  <2> QED
    BY <1>2, <2>1 DEF Matched
<1> QED
  BY <1>4, <1>5, <1>6, <1>7, <1>8

\* Settling some of what is pending touches no other request, and counts as a
\* timeout only where it is one.
LEMMA SettleKeeps ==
  ASSUME PoolInv, NEW ps \in SUBSET pending, NEW how \in Endings \ {"no"}, NEW by \in Nat,
         Settle(ps, how, by), how \in Answers => \A p \in ps : p.req = by
  PROVE  /\ pending' = pending \ ps
         /\ settled' \in [Requests -> [how : Endings, by : Nat]]
         /\ PendingOnce'
         /\ \A r \in Requests : (\A p \in pending : p.req # r) => settled'[r] = settled[r]
         /\ \A r \in Requests : settled'[r].how \in Answers => settled'[r].by = r
         /\ TimedOut' = IF how = "timeout" THEN TimedOut \cup {p.req : p \in ps} ELSE TimedOut
<1> USE DEF PoolInv
<1>1. /\ pending' = pending \ ps
      /\ settled' = [r \in Requests |-> IF \E p \in ps : p.req = r THEN [how |-> how, by |-> by] ELSE settled[r]]
  BY DEF Settle
<1>2. settled' \in [Requests -> [how : Endings, by : Nat]]
  BY <1>1 DEF PoolTypeOK
<1>3. \A p \in pending : p.req \in Requests
  BY DEF PoolTypeOK, Messages
<1>4. PendingOnce'
  <2>1. ASSUME NEW p \in pending' PROVE settled'[p.req] = Unsettled
    <3>1. p \in pending /\ p \notin ps
      BY <1>1
    <3>2. ~ \E q \in ps : q.req = p.req
      BY <3>1 DEF PendingOnce
    <3> QED
      BY <1>1, <1>3, <3>1, <3>2 DEF PendingOnce
  <2> QED
    BY <1>1, <2>1 DEF PendingOnce
<1>5. \A r \in Requests : (\A p \in pending : p.req # r) => settled'[r] = settled[r]
  BY <1>1
<1>6. \A r \in Requests : settled'[r].how \in Answers => settled'[r].by = r
  BY <1>1 DEF Matched, Answers
<1>7. TimedOut' = IF how = "timeout" THEN TimedOut \cup {p.req : p \in ps} ELSE TimedOut
  <2>1. \A r \in Requests : (\E p \in ps : p.req = r) => settled[r].how = "no"
    BY DEF PendingOnce, Unsettled
  <2> QED
    BY <1>1, <1>3, <2>1 DEF TimedOut
<1> QED
  BY <1>1, <1>2, <1>4, <1>5, <1>6, <1>7

\* Numbers stay in order where nothing is posted and nothing becomes pending.
LEMMA NumberedKept ==
  ASSUME Numbered, UNCHANGED nextId, pending' \subseteq pending,
         \A u \in Spawned : thread'[u].posted \subseteq thread[u].posted
  PROVE  Numbered'
<1>1. Posted' \subseteq Posted
  BY DEF Posted
<1> QED
  BY <1>1 DEF Numbered

\* An answer removes from the pending requests the one it carries the number of.
LEMMA ReplyKeeps ==
  ASSUME PoolInv, NEW t \in Spawned, ThreadReply(t)
  PROVE  PoolInv'
<1> USE RequestsFinite DEF PoolInv
<1>0. /\ PoolTypeOK /\ worker \in Spawned /\ thread[t] \in Threads
      /\ UNCHANGED <<nextId, worker, waits, crashes>>
      /\ thread[t].state = "ready"
  BY PostedType DEF PoolTypeOK, ThreadReply
<1>1. PICK m \in thread[t].posted, kind \in Kinds :
        IF kind = "hangs"
        THEN /\ thread' = [thread EXCEPT ![t].stuck = TRUE]
             /\ UNCHANGED <<pending, settled>>
        ELSE /\ thread' = [thread EXCEPT ![t].posted = @ \ {m}]
             /\ IF thread[t].listens THEN Settle(Match(m), kind, m.req) ELSE UNCHANGED <<pending, settled>>
  BY DEF ThreadReply
<1>2. m \in Messages /\ m \in Posted /\ m.req \in Nat
  BY <1>0, PostedType DEF Messages
<1>3. /\ thread' \in [Spawned -> Threads]
      /\ \A u \in Spawned : /\ thread'[u].state = thread[u].state
                            /\ thread'[u].listens = thread[u].listens
                            /\ thread'[u].posted \subseteq thread[u].posted
                            /\ u # t => thread'[u].posted = thread[u].posted
                            /\ thread[u].posted \subseteq thread'[u].posted \cup {m}
  <2>1. CASE kind = "hangs"
    <3>1. thread' = [thread EXCEPT ![t].stuck = TRUE]
      BY <1>1, <2>1
    <3> QED
      BY <1>0, <3>1 DEF PoolTypeOK, Threads
  <2>2. CASE kind # "hangs"
    <3>1. thread' = [thread EXCEPT ![t].posted = @ \ {m}]
      BY <1>1, <2>2
    <3> QED
      BY <1>0, <3>1 DEF PoolTypeOK, Threads
  <2> QED
    BY <2>1, <2>2
<1>4. Posted' \subseteq Posted
  BY <1>3 DEF Posted
<1>5. CASE kind = "hangs" \/ ~thread[t].listens
  <2>1. UNCHANGED <<pending, settled>>
    BY <1>1, <1>5
  <2>2. thread[worker].state # "dead" => thread'[worker].posted = thread[worker].posted
    <3>1. CASE kind = "hangs"
      BY <1>0, <1>1, <3>1 DEF PoolTypeOK, Threads
    <3>2. CASE t # worker
      BY <1>0, <1>3, <3>2
    <3>3. CASE t = worker /\ ~thread[t].listens
      BY <1>0, <3>3 DEF Listening
    <3> QED
      BY <1>5, <3>1, <3>2, <3>3
  <2>3. PoolTypeOK' /\ Numbered' /\ PendingOnce' /\ Listening' /\ Spent'
    BY <1>0, <1>3, <1>4, <2>1 DEF PoolTypeOK, Numbered, PendingOnce, Listening, Spent, TimedOut
  <2>4. Matched'
    BY <1>0, <1>3, <2>1, <2>2 DEF Matched
  <2> QED
    BY <2>3, <2>4
<1>6. CASE kind # "hangs" /\ thread[t].listens
  <2>1. Settle(Match(m), kind, m.req) /\ kind \in Answers
    BY <1>1, <1>6, PoolAssumption DEF Answers
  <2>2. Match(m) \subseteq pending /\ \A p \in Match(m) : p.req = m.req
    BY <1>2 DEF Match, Numbered
  <2>3. kind \in Endings \ {"no"} /\ kind # "timeout"
    BY <2>1 DEF Endings, Answers
  <2>4. /\ pending' = pending \ Match(m)
        /\ settled' \in [Requests -> [how : Endings, by : Nat]]
        /\ PendingOnce'
        /\ \A r \in Requests : settled'[r].how \in Answers => settled'[r].by = r
        /\ TimedOut' = TimedOut
    BY <1>2, <2>1, <2>2, <2>3, SettleKeeps
  <2>5. PoolTypeOK' /\ Numbered' /\ Listening' /\ Spent'
    BY <1>0, <1>3, <1>4, <2>4 DEF PoolTypeOK, Numbered, Listening, Spent
  <2>6. Matched'
    BY <1>0, <1>3, <2>4 DEF Matched, Match, Answers
  <2> QED
    BY <2>4, <2>5, <2>6
<1> QED
  BY <1>5, <1>6

\* Eight seconds are over: the promise is rejected and the thread told to end.
LEMMA TimeoutKeeps ==
  ASSUME PoolInv, NEW r \in Requests, Timeout(r)
  PROVE  PoolInv'
<1> USE RequestsFinite DEF PoolInv
<1> DEFINE ps == {p \in pending : p.req = r}
<1>0. PoolTypeOK /\ worker \in Spawned /\ thread[worker] \in Threads /\ waits[worker] \in Nat
  BY PostedType DEF PoolTypeOK
<1>1. /\ \E p \in pending : p.req = r
      /\ Settle(ps, "timeout", r)
      /\ waits' = [waits EXCEPT ![worker] = @ + 1]
      /\ thread' = IF thread[worker].state = "dead" THEN thread ELSE [thread EXCEPT ![worker].state = "ending"]
      /\ UNCHANGED <<nextId, worker, crashes>>
  BY DEF Timeout
<1>2. /\ pending' = pending \ ps
      /\ settled' \in [Requests -> [how : Endings, by : Nat]]
      /\ PendingOnce'
      /\ \A q \in Requests : settled'[q].how \in Answers => settled'[q].by = q
      /\ TimedOut' = TimedOut \cup {p.req : p \in ps}
  BY <1>1, SettleKeeps DEF Endings, Answers
<1>3. TimedOut' = TimedOut \cup {r} /\ r \notin TimedOut
  BY <1>1, <1>2 DEF TimedOut, PendingOnce, Unsettled
<1>4. Cardinality(TimedOut') = Cardinality(TimedOut) + 1 /\ Cardinality(TimedOut) \in Nat
  <2>1. IsFiniteSet(TimedOut) /\ Cardinality(TimedOut) \in Nat
    BY SomeRequests DEF TimedOut
  <2> QED
    BY <1>3, <2>1, FS_AddElement
<1>5. /\ thread' \in [Spawned -> Threads]
      /\ \A u \in Spawned : /\ thread'[u].posted = thread[u].posted
                            /\ thread'[u].listens = thread[u].listens
                            /\ thread'[u].state = "ready" => thread[u].state = "ready"
                            /\ thread[u].state = "dead" <=> thread'[u].state = "dead"
  BY <1>0, <1>1 DEF PoolTypeOK, Threads
<1>6. PoolTypeOK' /\ Listening'
  BY <1>0, <1>1, <1>2, <1>5 DEF PoolTypeOK, Listening
<1>7. Numbered'
  BY <1>1, <1>2, <1>5 DEF Numbered, Posted
<1>8. Spent'
  BY <1>0, <1>1, <1>4 DEF Spent, PoolTypeOK
<1>9. Matched'
  BY <1>0, <1>1, <1>2, <1>5 DEF Matched, Answers
<1> QED
  BY <1>2, <1>6, <1>7, <1>8, <1>9

\* A restart whose thread has ended fails what is pending; there are threads
\* left, since every one was started by a timeout.
LEMMA RespawnKeeps ==
  ASSUME PoolInv, NEW t \in Spawned, Respawn(t)
  PROVE  PoolInv'
<1> USE RequestsFinite DEF PoolInv
<1>0. PoolTypeOK /\ worker \in Spawned /\ waits[t] \in Nat
  BY DEF PoolTypeOK
<1>1. /\ waits[t] > 0 /\ t = worker
      /\ Settle(pending, "restarted", 0)
      /\ worker' = worker + waits[t]
      /\ thread' = [u \in Spawned |-> IF u \in worker + 1 .. worker' THEN [None EXCEPT !.state = "starting"] ELSE thread[u]]
      /\ waits' = [waits EXCEPT ![t] = 0]
      /\ UNCHANGED <<nextId, crashes>>
  BY DEF Respawn, Spent
<1>2. /\ pending' = {}
      /\ settled' \in [Requests -> [how : Endings, by : Nat]]
      /\ PendingOnce'
      /\ \A r \in Requests : settled'[r].how \in Answers => settled'[r].by = r
      /\ TimedOut' = TimedOut
  <2>1. /\ pending' = pending \ pending
        /\ settled' \in [Requests -> [how : Endings, by : Nat]]
        /\ PendingOnce'
        /\ \A r \in Requests : settled'[r].how \in Answers => settled'[r].by = r
        /\ TimedOut' = TimedOut
    <3>1. "restarted" \in Endings \ {"no"} /\ "restarted" \notin Answers /\ pending \in SUBSET pending
      BY DEF Endings, Answers
    <3> HIDE DEF PoolInv
    <3> QED
      BY <1>1, <3>1, SettleKeeps
  <2> QED
    BY <2>1
<1>3. Cardinality(TimedOut) \in Nat /\ Cardinality(TimedOut) <= Cardinality(Requests)
  BY SomeRequests DEF TimedOut
<1>4. worker' \in Spawned /\ worker' > worker
  BY <1>0, <1>1, <1>3 DEF Spent
<1>5. /\ thread' \in [Spawned -> Threads]
      /\ thread'[worker'] = [None EXCEPT !.state = "starting"]
      /\ \A u \in Spawned : thread'[u].posted \subseteq thread[u].posted
  BY <1>0, <1>1, <1>4, FreshThreads DEF PoolTypeOK, None
<1>6. PoolTypeOK' /\ Listening'
  BY <1>0, <1>1, <1>2, <1>4, <1>5 DEF PoolTypeOK, Listening, None
<1>7. Numbered'
  BY <1>1, <1>2, <1>5, NumberedKept
<1>8. Spent'
  BY <1>0, <1>1, <1>2, <1>3, <1>4 DEF Spent, PoolTypeOK
<1>9. Matched'
  BY <1>2 DEF Matched, Answers
<1> QED
  BY <1>2, <1>6, <1>7, <1>8, <1>9

\* A thread that comes up gives the listener to the one that is current.
LEMMA ReadyKeeps ==
  ASSUME PoolInv, NEW t \in Spawned, ThreadReady(t)
  PROVE  PoolInv'
<1> USE RequestsFinite DEF PoolInv
<1>0. PoolTypeOK /\ worker \in Spawned /\ \A u \in Spawned : thread[u] \in Threads
  BY DEF PoolTypeOK
<1>1. /\ thread[t].state = "starting"
      /\ thread' = [u \in Spawned |->
           [thread[u] EXCEPT !.state = IF u = t THEN "ready" ELSE @, !.listens = @ \/ u = worker]]
      /\ UNCHANGED <<nextId, pending, worker, waits, settled, crashes>>
  BY DEF ThreadReady
<1>2. \A u \in Spawned : /\ thread'[u] = [thread[u] EXCEPT !.state = IF u = t THEN "ready" ELSE @,
                                                            !.listens = @ \/ u = worker]
                         /\ thread[u] \in Threads
  BY <1>0, <1>1
<1>3. \A u \in Spawned : /\ thread'[u] \in Threads
                         /\ thread'[u].posted = thread[u].posted
                         /\ thread'[u].state = IF u = t THEN "ready" ELSE thread[u].state
                         /\ u = worker => thread'[u].listens
  <2> SUFFICES ASSUME NEW u \in Spawned
               PROVE  /\ thread'[u] \in Threads
                      /\ thread'[u].posted = thread[u].posted
                      /\ thread'[u].state = IF u = t THEN "ready" ELSE thread[u].state
                      /\ u = worker => thread'[u].listens
    OBVIOUS
  <2> DEFINE st == IF u = t THEN "ready" ELSE thread[u].state
             li == thread[u].listens \/ u = worker
  <2>1. thread'[u] = [thread[u] EXCEPT !.state = st, !.listens = li] /\ thread[u] \in Threads
    BY <1>2
  <2>2. st \in {"none", "starting", "ready", "ending", "dead"} /\ li \in BOOLEAN /\ (u = worker => li = TRUE)
    BY <2>1 DEF Threads
  <2>3. st = IF u = t THEN "ready" ELSE thread[u].state
    OBVIOUS
  <2> HIDE DEF st, li
  <2> QED
    BY <2>1, <2>2, <2>3 DEF Threads
<1>4. PoolTypeOK' /\ PendingOnce' /\ Spent'
  BY <1>0, <1>1, <1>3 DEF PoolTypeOK, PendingOnce, Spent, TimedOut
<1>5. Numbered'
  BY <1>1, <1>3, NumberedKept
<1>6. Listening'
  BY <1>0, <1>1, <1>3 DEF Listening
<1>7. Matched'
  <2>1. thread[worker].state = "dead" => thread'[worker].state = "dead"
    BY <1>0, <1>1, <1>3
  <2>2. thread'[worker].posted = thread[worker].posted
    BY <1>0, <1>3
  <2> QED
    BY <1>1, <2>1, <2>2, Zenon DEF Matched
<1> QED
  BY <1>4, <1>5, <1>6, <1>7

\* A thread ends, told to or of an error that fails all that is pending.
LEMMA EndsKeeps ==
  ASSUME PoolInv, ThreadCrash \/ \E t \in Spawned : ThreadEnds(t)
  PROVE  PoolInv'
<1> USE RequestsFinite DEF PoolInv
<1>0. PoolTypeOK /\ worker \in Spawned /\ \A u \in Spawned : thread[u] \in Threads
  BY DEF PoolTypeOK
<1>1. ASSUME NEW t \in Spawned, thread' = [thread EXCEPT ![t].state = "dead"]
      PROVE  /\ thread' \in [Spawned -> Threads]
             /\ thread'[t].state = "dead"
             /\ \A u \in Spawned : /\ thread'[u].posted = thread[u].posted
                                   /\ thread'[u].listens = thread[u].listens
                                   /\ u # t => thread'[u].state = thread[u].state
  BY <1>0, <1>1 DEF PoolTypeOK, Threads
<1>2. ASSUME NEW t \in Spawned, ThreadEnds(t) PROVE PoolInv'
  <2>1. /\ thread' = [thread EXCEPT ![t].state = "dead"]
        /\ UNCHANGED <<nextId, pending, worker, waits, settled, crashes>>
    BY <1>2 DEF ThreadEnds
  <2>2. PoolTypeOK' /\ Numbered' /\ PendingOnce' /\ Spent'
    BY <1>1, <2>1, NumberedKept DEF PoolTypeOK, PendingOnce, Spent, TimedOut
  <2>3. Listening' /\ Matched'
    BY <1>0, <1>1, <2>1 DEF Listening, Matched
  <2> QED
    BY <2>2, <2>3
<1>3. CASE ThreadCrash
  <2>1. /\ Settle(pending, "error", 0)
        /\ thread' = [thread EXCEPT ![worker].state = "dead"]
        /\ crashes' = crashes + 1
        /\ UNCHANGED <<nextId, worker, waits>>
    BY <1>3 DEF ThreadCrash
  <2>2. /\ pending' = pending \ pending
        /\ settled' \in [Requests -> [how : Endings, by : Nat]]
        /\ PendingOnce'
        /\ \A r \in Requests : settled'[r].how \in Answers => settled'[r].by = r
        /\ TimedOut' = TimedOut
    BY <2>1, SettleKeeps DEF Endings, Answers
  <2>3. PoolTypeOK'
    <3>1. crashes' \in Nat /\ pending' = {}
      BY <2>1, <2>2 DEF PoolTypeOK
    <3>2. thread' \in [Spawned -> Threads]
      BY <1>0, <1>1, <2>1
    <3> QED
      BY <2>1, <2>2, <3>1, <3>2 DEF PoolTypeOK
  <2>5. Spent'
    BY <2>1, <2>2 DEF Spent
  <2>6. Numbered'
    BY <1>0, <1>1, <2>1, <2>2, NumberedKept
  <2>4. Listening' /\ Matched'
    BY <1>0, <1>1, <2>1, <2>2 DEF Listening, Matched, Answers
  <2> QED
    BY <2>2, <2>3, <2>4, <2>5, <2>6
<1> QED
  BY <1>2, <1>3

\* Whatever the pool does by itself keeps its invariant, settles only what was
\* pending and adds nothing to that.
LEMMA PoolStepKeeps ==
  ASSUME PoolInv, PoolStep
  PROVE  /\ PoolInv'
         /\ pending' \subseteq pending
         /\ \A r \in Requests : (\A p \in pending : p.req # r) => settled'[r] = settled[r]
<1>1. PoolInv'
  BY ReplyKeeps, TimeoutKeeps, RespawnKeeps, ReadyKeeps, EndsKeeps DEF PoolStep
<1>2. (UNCHANGED <<pending, settled>>) \/ \E ps, how, by : ps \subseteq pending /\ Settle(ps, how, by)
  <2>1. CASE \E t \in Spawned : ThreadReply(t)
    BY <2>1 DEF ThreadReply, Match
  <2>2. CASE ThreadCrash \/ \E t \in Spawned : Respawn(t)
    BY <2>2 DEF ThreadCrash, Respawn
  <2>3. CASE \E r \in Requests : Timeout(r)
    BY <2>3 DEF Timeout
  <2>4. CASE \E t \in Spawned : ThreadReady(t) \/ ThreadEnds(t)
    BY <2>4 DEF ThreadReady, ThreadEnds
  <2> QED
    BY <2>1, <2>2, <2>3, <2>4 DEF PoolStep
<1>3. /\ pending' \subseteq pending
      /\ \A r \in Requests : (\A p \in pending : p.req # r) => settled'[r] = settled[r]
  BY <1>2 DEF Settle
<1> QED
  BY <1>1, <1>3

-----------------------------------------------------------------------------
(* The bounty.                                                             *)

Rows == [sub : Requests, worker : Workers, score : Scores, state : {"verified", "rejected"}]

PrizeTypeOK ==
    /\ status \in {"draft", "open", "closed"} /\ due \in BOOLEAN
    /\ winner \in Workers \cup {NoOne} /\ pick \in Workers \cup {NoOne}
    /\ sub \in [Requests -> {"none", "refused", "read", "user", "eval", "insert", "answered", "lost"}]
    /\ rows \in Seq(Rows)
    /\ sweep \in {"idle", "pick", "credit", "close"}
    /\ earned \in [Workers -> {0, 1}] /\ claimed \in [Workers -> {0, 1}]
    /\ escrow \in {0, 1} /\ restarts \in Nat
    /\ reports \in Nat /\ reopened \in BOOLEAN

\* The pool hears of a submission only when its evaluation begins.
Unheard ==
    \A s \in Requests : sub[s] \in {"none", "refused", "read", "user"} =>
        settled[s] = Unsettled /\ \A p \in pending : p.req # s

\* Rows are answered submissions; an early one is verified.
Answered ==
    /\ \A i \in DOMAIN rows : sub[rows[i].sub] = "answered"
    /\ \A s \in early : s \in Requests /\ sub[s] = "answered"
    /\ \A i \in DOMAIN rows : rows[i].sub \in early => rows[i].state = "verified"

\* Among the rows that contend there is one the ORDER BY puts first.
Ranked ==
    LET contenders == {i \in DOMAIN rows : Contends(i)}
    IN  contenders # {} => \E i \in contenders : \A j \in contenders : Outranks(i, j)

\* w is a winner no early candidate can complain of.
WinsOver(w) ==
    \A i \in DOMAIN rows : rows[i].sub \in early /\ rows[i].score > Threshold =>
        \E j \in DOMAIN rows : /\ rows[j].worker = w /\ rows[j].state = "verified"
                               /\ rows[j].score > rows[i].score \/ (rows[j].score = rows[i].score /\ j <= i)

\* The sweep runs over a job that is open and due, so nothing early comes after.
Decided ==
    /\ sweep # "idle" => status = "open" /\ due
    /\ status = "closed" => due
    /\ sweep = "credit" => pick # NoOne
    /\ sweep \in {"credit", "close"} => WinsOver(pick)
    /\ status = "closed" => WinsOver(winner)

\* The earnings are there before the job says so, and are nobody else's; what
\* left the escrow of an open job went to the winner.
Booked ==
    /\ sweep = "close" /\ pick # NoOne => earned[pick] = 1
    /\ status = "closed" /\ winner # NoOne => earned[winner] = 1
    /\ restarts = 0 /\ ~reopened =>
         /\ \A w \in Workers : earned[w] = 1 => \/ sweep = "close" /\ pick = w
                                                \/ status = "closed" /\ winner = w
         /\ \A w \in Workers : claimed[w] <= earned[w]
         /\ status # "draft" /\ escrow = 0 => \/ \E w \in Workers : claimed[w] = 1
                                              \/ status = "closed" /\ winner = NoOne
         /\ status = "draft" /\ reports > 0 => escrow = 1

IInv ==
    /\ PoolInv /\ PrizeTypeOK /\ Unheard /\ CountExact
    /\ Answered /\ Ranked /\ Decided /\ Booked

Evaluating == {s \in Requests : sub[s] = "eval"}

\* The invariant of a bounty as it is created.
LEMMA IInvInit == Init => IInv
<1> SUFFICES ASSUME Init PROVE IInv
  OBVIOUS
<1> USE RequestsFinite DEF Init
<1>1. PoolInv
  <2>1. /\ settled \in [Requests -> [how : Endings, by : Nat]]
        /\ \A r \in Requests : settled[r].how \in Answers => settled[r].by = r
    BY FreshThreads DEF PoolInit, Unsettled, Answers
  <2> QED
    BY <2>1, PoolStarts DEF PoolInit
<1>2. PrizeTypeOK
  <2>1. rows \in Seq(Rows)
    OBVIOUS
  <2>2. /\ earned \in [Workers -> {0, 1}] /\ claimed \in [Workers -> {0, 1}]
        /\ sub \in [Requests -> {"none", "refused", "read", "user", "eval", "insert", "answered", "lost"}]
    OBVIOUS
  <2> QED
    BY <2>1, <2>2 DEF PrizeTypeOK
<1>3. Unheard
  BY DEF Unheard, PoolInit
<1>4. CountExact
  <2>1. {s \in Requests : sub[s] = "eval"} = {}
    OBVIOUS
  <2> QED
    BY <2>1, FS_EmptySet DEF CountExact
<1>5. Answered /\ Ranked /\ Decided /\ Booked
  BY DEF Answered, Ranked, Decided, Booked
<1> QED
  BY <1>1, <1>2, <1>3, <1>4, <1>5 DEF IInv

\* The pool by itself changes nothing a bounty looks at but what is settled.
LEMMA InPoolKeeps == IInv /\ InPool => IInv'
<1> SUFFICES ASSUME IInv, InPool PROVE IInv'
  OBVIOUS
<1>1. /\ PoolInv'
      /\ pending' \subseteq pending
      /\ \A r \in Requests : (\A p \in pending : p.req # r) => settled'[r] = settled[r]
      /\ UNCHANGED <<job, sub, inFlight, rows, early, sweep, pick, money, restarts>>
  BY PoolStepKeeps DEF IInv, InPool
<1>2. Unheard'
  BY <1>1 DEF IInv, Unheard
<1>3. PrizeTypeOK' /\ CountExact'
  BY <1>1 DEF IInv, PrizeTypeOK, CountExact, job, money
<1>4. Answered' /\ Ranked' /\ Decided' /\ Booked'
  BY <1>1 DEF IInv, Answered, Ranked, Contends, Outranks, Decided, WinsOver, Booked, job, money
<1> QED
  BY <1>1, <1>2, <1>3, <1>4 DEF IInv

\* A step of a submission up to its evaluation touches only its own stage.
LEMMA ReadKeeps ==
  ASSUME IInv, NEW s \in Requests, Post(s) \/ ReadJob(s)
  PROVE  IInv'
<1>1. /\ UNCHANGED <<pool, job, inFlight, rows, early, sweep, pick, money, restarts>>
      /\ sub[s] \in {"none", "read"}
      /\ \E st \in {"refused", "read", "user"} : sub' = [sub EXCEPT ![s] = st]
  BY DEF Post, ReadJob, Stage
<1>2. PICK st \in {"refused", "read", "user"} : sub' = [sub EXCEPT ![s] = st]
  BY <1>1
<1>3. PoolInv'
  BY <1>1 DEF IInv, PoolInv, PoolTypeOK, Numbered, Posted, PendingOnce, Listening, Spent, TimedOut, Matched, pool
<1>4. PrizeTypeOK'
  BY <1>1, <1>2 DEF IInv, PrizeTypeOK, job, money
<1>5. Unheard'
  BY <1>1, <1>2 DEF IInv, Unheard, PrizeTypeOK, pool
<1>6. CountExact'
  <2>1. Evaluating' = Evaluating
    BY <1>1, <1>2 DEF IInv, PrizeTypeOK, Evaluating
  <2> QED
    BY <1>1, <2>1 DEF IInv, CountExact, Evaluating
<1>7. Answered'
  BY <1>1, <1>2 DEF IInv, Answered, PrizeTypeOK
<1>8. Ranked' /\ Decided' /\ Booked'
  BY <1>1 DEF IInv, Ranked, Contends, Outranks, Decided, WinsOver, Booked, job, money
<1> QED
  BY <1>3, <1>4, <1>5, <1>6, <1>7, <1>8 DEF IInv

\* An evaluation begins: the count goes up, and the request is new to the pool.
LEMMA EvaluateKeeps ==
  ASSUME IInv, NEW s \in Requests, Evaluate(s)
  PROVE  IInv'
<1>1. /\ sub[s] = "user" /\ inFlight' = inFlight + 1 /\ Dispatch(s)
      /\ sub' = [sub EXCEPT ![s] = "eval"]
      /\ UNCHANGED <<job, rows, early, sweep, pick, money, restarts>>
  BY DEF Evaluate, Stage
<1>2. PoolInv'
  BY <1>1, DispatchKeeps DEF IInv, Unheard
<1>3. PrizeTypeOK'
  BY <1>1 DEF IInv, PrizeTypeOK, job, money
<1>4. Unheard'
  <2>1. pending' = pending \cup {[id |-> nextId, req |-> s]} /\ settled' = settled
    BY <1>1 DEF Dispatch
  <2> QED
    BY <1>1, <2>1 DEF IInv, Unheard, PrizeTypeOK
<1>5. CountExact'
  <2>1. Evaluating' = Evaluating \cup {s} /\ s \notin Evaluating
    BY <1>1 DEF IInv, PrizeTypeOK, Evaluating
  <2>2. Evaluating \in SUBSET Requests
    BY DEF Evaluating
  <2> QED
    BY <1>1, <2>1, <2>2, SomeRequests, FS_AddElement DEF IInv, CountExact, Evaluating
<1>6. Answered'
  BY <1>1 DEF IInv, Answered, PrizeTypeOK
<1>7. Ranked' /\ Decided' /\ Booked'
  BY <1>1 DEF IInv, Ranked, Contends, Outranks, Decided, WinsOver, Booked, job, money
<1> QED
  BY <1>2, <1>3, <1>4, <1>5, <1>6, <1>7 DEF IInv

\* It has ended, one way or another: the count goes down.
LEMMA EvaluatedKeeps ==
  ASSUME IInv, NEW s \in Requests, Evaluated(s)
  PROVE  IInv'
<1>1. /\ sub[s] = "eval" /\ inFlight' = inFlight - 1
      /\ sub' = [sub EXCEPT ![s] = "insert"]
      /\ UNCHANGED <<pool, job, rows, early, sweep, pick, money, restarts>>
  BY DEF Evaluated, Stage
<1>2. PoolInv'
  BY <1>1 DEF IInv, PoolInv, PoolTypeOK, Numbered, Posted, PendingOnce, Listening, Spent, TimedOut, Matched, pool
<1>3. PrizeTypeOK' /\ Unheard'
  BY <1>1 DEF IInv, PrizeTypeOK, Unheard, job, money, pool
<1>4. CountExact'
  <2>1. Evaluating' = Evaluating \ {s} /\ s \in Evaluating
    BY <1>1 DEF IInv, PrizeTypeOK, Evaluating
  <2>2. Evaluating \in SUBSET Requests
    BY DEF Evaluating
  <2> QED
    BY <1>1, <2>1, <2>2, SomeRequests, FS_RemoveElement DEF IInv, CountExact, Evaluating
<1>5. Answered'
  BY <1>1 DEF IInv, Answered, PrizeTypeOK
<1>6. Ranked' /\ Decided' /\ Booked'
  BY <1>1 DEF IInv, Ranked, Contends, Outranks, Decided, WinsOver, Booked, job, money
<1> QED
  BY <1>2, <1>3, <1>4, <1>5, <1>6 DEF IInv

\* A row is added at the end: it was verified if it is early, and the rows that
\* contend still have a first one.
LEMMA InsertKeeps ==
  ASSUME IInv, NEW s \in Requests, Insert(s)
  PROVE  IInv'
<1>1. /\ sub[s] = "insert" /\ sub' = [sub EXCEPT ![s] = "answered"]
      /\ early' = IF Verified(s) /\ ~due THEN early \cup {s} ELSE early
      /\ UNCHANGED <<pool, job, inFlight, sweep, pick, money, restarts>>
  BY DEF Insert, Stage
<1>2. PICK new \in Rows : /\ rows' = Append(rows, new)
                          /\ new.sub = s
                          /\ new.state = "verified" <=> Verified(s)
  BY DEF Insert, Rows
<1>3. PICK n \in Nat : n = Len(rows) + 1
  BY DEF IInv, PrizeTypeOK
<1>0. /\ rows' \in Seq(Rows) /\ rows \in Seq(Rows)
      /\ DOMAIN rows' = DOMAIN rows \cup {n} /\ n \notin DOMAIN rows
      /\ rows'[n] = new
      /\ \A i \in DOMAIN rows : /\ rows'[i] = rows[i] /\ i \in Nat /\ i < n
                                /\ rows[i] \in Rows
  BY <1>2, <1>3 DEF IInv, PrizeTypeOK
<1>4. PoolInv'
  BY <1>1 DEF IInv, PoolInv, PoolTypeOK, Numbered, Posted, PendingOnce, Listening, Spent, TimedOut, Matched, pool
<1>5. PrizeTypeOK'
  <2>1. sub' \in [Requests -> {"none", "refused", "read", "user", "eval", "insert", "answered", "lost"}]
    BY <1>1 DEF IInv, PrizeTypeOK
  <2> QED
    BY <1>1, <1>0, <2>1 DEF IInv, PrizeTypeOK, job, money
<1>6. Unheard'
  BY <1>1 DEF IInv, PrizeTypeOK, Unheard, pool
<1>7. CountExact'
  <2>1. Evaluating' = Evaluating
    BY <1>1 DEF IInv, PrizeTypeOK, Evaluating
  <2> QED
    BY <1>1, <2>1 DEF IInv, CountExact, Evaluating
<1>8. Answered'
  <2>1. \A i \in DOMAIN rows : rows[i].sub \in Requests /\ rows[i].sub # s
    BY <1>1, <1>0 DEF IInv, Answered, Rows
  <2>2. s \notin early
    BY <1>1 DEF IInv, Answered
  <2>3. \A i \in DOMAIN rows' : sub'[rows'[i].sub] = "answered"
    BY <1>1, <1>2, <1>0, <2>1 DEF IInv, Answered, PrizeTypeOK
  <2>4. \A r \in early' : r \in Requests /\ sub'[r] = "answered"
    BY <1>1 DEF IInv, Answered, PrizeTypeOK
  <2>5. \A i \in DOMAIN rows' : rows'[i].sub \in early' => rows'[i].state = "verified"
    BY <1>1, <1>2, <1>0, <2>1, <2>2 DEF IInv, Answered
  <2> QED
    BY <2>3, <2>4, <2>5 DEF Answered
<1>9. Ranked'
  <2> DEFINE cs  == {i \in DOMAIN rows : Contends(i)}
             cs2 == {i \in DOMAIN rows' : Contends(i)'}
  <2>1. \A i \in DOMAIN rows : /\ Contends(i)' <=> Contends(i)
                               /\ \A j \in DOMAIN rows : Outranks(i, j)' <=> Outranks(i, j)
    BY <1>0 DEF Contends, Outranks
  <2>2. cs \subseteq cs2 /\ cs2 \subseteq cs \cup {n}
    BY <1>0, <2>1
  <2>3. new.score \in Int /\ \A i \in DOMAIN rows : rows[i].score \in Int
    BY <1>2, <1>0, PrizeAssumption DEF Rows
  <2>4. Outranks(n, n)'
    BY <1>2, <1>0, <2>3 DEF Outranks
  <2>5. ASSUME cs2 # {} PROVE \E i \in cs2 : \A j \in cs2 : Outranks(i, j)'
    <3>1. CASE cs = {}
      BY <2>2, <2>4, <2>5, <3>1
    <3>2. CASE cs # {}
      <4>1. PICK b \in cs : \A j \in cs : Outranks(b, j)
        BY <3>2 DEF IInv, Ranked
      <4>2. CASE n \in cs2 /\ new.score > rows[b].score
        <5>1. \A j \in cs : Outranks(n, j)'
          BY <1>2, <1>0, <2>3, <4>1, <4>2 DEF Outranks
        <5> QED
          BY <2>2, <2>4, <4>2, <5>1
      <4>3. CASE ~(n \in cs2 /\ new.score > rows[b].score)
        <5>1. n \in cs2 => Outranks(b, n)'
          BY <1>2, <1>0, <2>3, <4>1, <4>3 DEF Outranks
        <5> QED
          BY <2>1, <2>2, <4>1, <5>1
      <4> QED
        BY <4>2, <4>3
    <3> QED
      BY <3>1, <3>2
  <2> QED
    BY <2>5 DEF Ranked
<1>10. Decided'
  <2>1. ASSUME NEW v, WinsOver(v), due PROVE WinsOver(v)'
    <3>1. early' = early /\ s \notin early
      BY <1>1, <2>1 DEF IInv, Answered
    <3>2. \A i \in DOMAIN rows' : rows'[i].sub \in early' => i \in DOMAIN rows
      BY <1>2, <1>0, <3>1
    <3> QED
      BY <1>0, <2>1, <3>1, <3>2 DEF WinsOver
  <2> QED
    BY <1>1, <2>1 DEF IInv, Decided, job
<1>11. Booked'
  BY <1>1 DEF IInv, Booked, job, money
<1> QED
  BY <1>4, <1>5, <1>6, <1>7, <1>8, <1>9, <1>10, <1>11 DEF IInv

\* What SELECT ... ORDER BY ... LIMIT 1 yields beats every early candidate.
LEMMA BestIsBest ==
  ASSUME IInv
  PROVE  WinsOver(Best) /\ Best \in Workers \cup {NoOne}
<1> DEFINE cs == {i \in DOMAIN rows : Contends(i)}
           c  == CHOOSE i \in cs : \A j \in cs : Outranks(i, j)
<1>1. \A i \in DOMAIN rows : rows[i].sub \in early /\ rows[i].score > Threshold => i \in cs
  BY DEF IInv, Answered, Contends
<1>2. \A i \in DOMAIN rows : rows[i].worker \in Workers
  <2>1. \A i \in DOMAIN rows : rows[i] \in Rows
    BY DEF IInv, PrizeTypeOK
  <2> QED
    BY <2>1 DEF Rows
<1>3. CASE cs = {}
  <2>1. Best = NoOne
    BY <1>3 DEF Best
  <2> QED
    BY <1>1, <1>3, <2>1 DEF WinsOver
<1>4. CASE cs # {}
  <2>1. \E i \in cs : \A j \in cs : Outranks(i, j)
    BY <1>4 DEF IInv, Ranked
  <2>2. c \in cs /\ \A j \in cs : Outranks(c, j)
    BY <2>1
  <2>3. Best = rows[c].worker
    BY <1>4 DEF Best
  <2> HIDE DEF c
  <2>4. c \in DOMAIN rows /\ rows[c].state = "verified"
    BY <2>2 DEF Contends
  <2>5. ASSUME NEW i \in DOMAIN rows, rows[i].sub \in early, rows[i].score > Threshold
        PROVE  rows[c].score > rows[i].score \/ (rows[c].score = rows[i].score /\ c <= i)
    BY <1>1, <2>2, <2>5 DEF Outranks
  <2> QED
    BY <1>2, <2>3, <2>4, <2>5 DEF WinsOver
<1> QED
  BY <1>3, <1>4

\* A step of the sweep.
LEMMA SweepKeeps == IInv /\ Sweep => IInv'
<1> SUFFICES ASSUME IInv, Sweep PROVE IInv'
  OBVIOUS
<1>1. UNCHANGED <<pool, due, sub, inFlight, rows, early, claimed, escrow, restarts>>
  BY DEF Sweep, Due, Pick, Credit, Close, job, money
<1>2. PoolInv'
  BY <1>1 DEF IInv, PoolInv, PoolTypeOK, Numbered, Posted, PendingOnce, Listening, Spent, TimedOut, Matched, pool
<1>3. Unheard' /\ CountExact' /\ Answered' /\ Ranked'
  BY <1>1 DEF IInv, Unheard, CountExact, Answered, Ranked, Contends, Outranks, pool
<1>4. \A w : WinsOver(w) => WinsOver(w)'
  BY <1>1 DEF WinsOver
<1>5. CASE Due
  <2>1. sweep = "idle" /\ status = "open" /\ due /\ sweep' = "pick" /\ UNCHANGED <<job, pick, money>>
    BY <1>5 DEF Due, SweepNext
  <2>2. PrizeTypeOK' /\ Booked'
    BY <1>1, <2>1 DEF IInv, PrizeTypeOK, Booked, job, money
  <2>3. Decided'
    BY <1>1, <1>4, <2>1 DEF IInv, Decided, job
  <2> QED
    BY <1>2, <1>3, <2>2, <2>3 DEF IInv
<1>6. CASE Pick
  <2>1. /\ sweep = "pick" /\ pick' = Best /\ UNCHANGED <<job, money>>
        /\ sweep' = IF Best = NoOne THEN "close" ELSE "credit"
    BY <1>6 DEF Pick, SweepNext
  <2>2. PICK b \in Workers \cup {NoOne} : b = Best /\ WinsOver(b)
    BY BestIsBest
  <2>3. PrizeTypeOK' /\ Booked'
    BY <1>1, <2>1, <2>2 DEF IInv, PrizeTypeOK, Booked, job, money
  <2>4. pick' = b /\ WinsOver(b)'
    BY <1>4, <2>1, <2>2
  <2>5. WinsOver(pick)'
    BY <2>4 DEF WinsOver
  <2>6. Decided'
    BY <1>1, <1>4, <2>1, <2>2, <2>4, <2>5 DEF IInv, Decided, job
  <2> QED
    BY <1>2, <1>3, <2>3, <2>6 DEF IInv
<1>7. CASE Credit
  <2>1. /\ sweep = "credit" /\ earned' = [earned EXCEPT ![pick] = 1] /\ sweep' = "close"
        /\ UNCHANGED <<job, pick>> /\ pick \in Workers /\ status = "open"
    BY <1>7 DEF Credit, SweepNext, IInv, Decided, PrizeTypeOK
  <2>2. PrizeTypeOK'
    BY <1>1, <2>1 DEF IInv, PrizeTypeOK, job
  <2>3. Booked'
    BY <1>1, <2>1 DEF IInv, PrizeTypeOK, Booked, job
  <2>4. Decided'
    BY <1>1, <1>4, <2>1 DEF IInv, Decided, job
  <2> QED
    BY <1>2, <1>3, <2>2, <2>3, <2>4 DEF IInv
<1>8. CASE Close
  <2>1. /\ sweep = "close" /\ status' = "closed" /\ winner' = pick /\ sweep' = "idle"
        /\ UNCHANGED <<pick, money, reports, reopened>> /\ status = "open" /\ due
    BY <1>8 DEF Close, SweepNext, IInv, Decided
  <2>2. PrizeTypeOK' /\ Booked'
    BY <1>1, <2>1 DEF IInv, PrizeTypeOK, Booked, money
  <2>3. Decided'
    BY <1>1, <1>4, <2>1 DEF IInv, Decided
  <2> QED
    BY <1>2, <1>3, <2>2, <2>3 DEF IInv
<1> QED
  BY <1>5, <1>6, <1>7, <1>8 DEF Sweep

\* The escrow is funded, pays a claim or gives back the rest, or the hour comes.
LEMMA MoneyKeeps ==
  ASSUME IInv, Deposit \/ Report \/ Deadline \/ Reclaim \/ \E w \in Workers : Claim(w)
  PROVE  IInv'
<1>1. UNCHANGED <<pool, winner, sub, inFlight, rows, early, sweep, pick, earned, restarts>>
  BY DEF Deposit, Report, CheckFunding, Funded, Deadline, Reclaim, Claim, job, money
<1>2. PoolInv'
  BY <1>1 DEF IInv, PoolInv, PoolTypeOK, Numbered, Posted, PendingOnce, Listening, Spent, TimedOut, Matched, pool
<1>3. Unheard' /\ CountExact' /\ Answered' /\ Ranked'
  BY <1>1 DEF IInv, Unheard, CountExact, Answered, Ranked, Contends, Outranks, pool
<1>4. \A w : WinsOver(w) => WinsOver(w)'
  BY <1>1 DEF WinsOver
<1>5. CASE Funded
  <2>1. /\ reports > 0 /\ status' = "open" /\ UNCHANGED <<due, money>>
        /\ reports' = reports - 1
        /\ reopened' = (reopened \/ status = "closed")
    BY <1>5 DEF Funded
  <2>2. PrizeTypeOK'
    BY <1>1, <2>1 DEF IInv, PrizeTypeOK, money
  <2>3. Decided'
    BY <1>1, <1>4, <2>1 DEF IInv, Decided
  <2>4. Booked'
    BY <1>1, <2>1 DEF IInv, PrizeTypeOK, Booked, Decided, money
  <2> QED
    BY <1>2, <1>3, <2>2, <2>3, <2>4 DEF IInv
<1>9. CASE Deposit \/ CheckFunding
  <2>1. /\ UNCHANGED <<status, due, reopened, claimed>> /\ escrow' \in {0, 1}
        /\ escrow = 1 => escrow' = 1
        /\ reports' \in Nat
        /\ reports' > 0 => reports > 0 \/ escrow = 1
        /\ escrow' = 0 => escrow = 0
    BY <1>9 DEF Deposit, CheckFunding, job, money, IInv, PrizeTypeOK
  <2>2. PrizeTypeOK'
    BY <1>1, <2>1 DEF IInv, PrizeTypeOK
  <2>3. Decided'
    BY <1>1, <1>4, <2>1 DEF IInv, Decided
  <2>4. Booked'
    BY <1>1, <2>1 DEF IInv, PrizeTypeOK, Booked
  <2> QED
    BY <1>2, <1>3, <2>2, <2>3, <2>4 DEF IInv
<1>6. CASE Deadline
  <2>1. due' = TRUE /\ UNCHANGED <<status, reports, reopened, money>>
    BY <1>6 DEF Deadline
  <2>2. PrizeTypeOK' /\ Booked'
    BY <1>1, <2>1 DEF IInv, PrizeTypeOK, Booked, money
  <2>3. Decided'
    BY <1>1, <1>4, <2>1 DEF IInv, Decided
  <2> QED
    BY <1>2, <1>3, <2>2, <2>3 DEF IInv
<1>7. CASE Reclaim
  <2>1. /\ status = "closed" /\ (winner # NoOne => \A w \in Workers : earned[w] <= claimed[w])
        /\ escrow' = 0 /\ UNCHANGED <<status, due, reports, reopened, claimed>>
    BY <1>7 DEF Reclaim, Reclaimable, job
  <2>2. PrizeTypeOK' /\ Decided'
    BY <1>1, <1>4, <2>1 DEF IInv, PrizeTypeOK, Decided
  <2>3. Booked'
    BY <1>1, <2>1 DEF IInv, PrizeTypeOK, Booked
  <2> QED
    BY <1>2, <1>3, <2>2, <2>3 DEF IInv
<1>8. ASSUME NEW w \in Workers, Claim(w) PROVE IInv'
  <2>1. /\ earned[w] > claimed[w] /\ escrow = 1 /\ escrow' = 0
        /\ claimed' = [claimed EXCEPT ![w] = 1]
        /\ UNCHANGED <<status, due, reports, reopened>>
    BY <1>8 DEF Claim, job, IInv, PrizeTypeOK
  <2>2. PrizeTypeOK' /\ Decided'
    BY <1>1, <1>4, <2>1 DEF IInv, PrizeTypeOK, Decided
  <2>4. earned[w] = 1
    BY <2>1 DEF IInv, PrizeTypeOK
  <2>5. restarts = 0 /\ ~reopened => status # "draft"
    BY <2>4 DEF IInv, Booked, Decided
  <2>3. Booked'
    BY <1>1, <2>1, <2>5 DEF IInv, PrizeTypeOK, Booked
  <2> QED
    BY <1>2, <1>3, <2>2, <2>3 DEF IInv
<1> QED
  BY <1>5, <1>6, <1>7, <1>8, <1>9 DEF Report

\* The coordinator starts anew: no evaluation is under way, and what is in the
\* database stays.
LEMMA RestartKeeps == IInv /\ Restart => IInv'
<1> SUFFICES ASSUME IInv, Restart PROVE IInv'
  OBVIOUS
<1>1. /\ restarts' = restarts + 1 /\ inFlight' = 0 /\ sweep' = "idle" /\ pick' = NoOne
      /\ nextId' = 1 /\ pending' = {} /\ worker' = 0
      /\ thread' = [t \in Spawned |-> IF t = 0 THEN [None EXCEPT !.state = "ready", !.listens = TRUE] ELSE None]
      /\ waits' = [t \in Spawned |-> 0]
      /\ sub' = [s \in Requests |->
           IF sub[s] \in {"read", "user", "eval", "insert"} THEN "lost" ELSE sub[s]]
      /\ reports' = 0
      /\ UNCHANGED <<settled, crashes, status, due, winner, reopened, rows, early, money>>
  BY DEF Restart
<1>2. PoolInv'
  <2>1. PoolTypeOK'
    BY <1>1, RequestsFinite, FreshThreads DEF IInv, PoolInv, PoolTypeOK
  <2>2. thread'[0] = [None EXCEPT !.state = "ready", !.listens = TRUE]
    BY <1>1, RequestsFinite
  <2>3. Posted' = {}
    BY <1>1 DEF Posted, None
  <2>4. Numbered' /\ PendingOnce' /\ Listening'
    BY <1>1, <2>2, <2>3 DEF Numbered, PendingOnce, Listening, None
  <2>5. Spent'
    <3>1. Cardinality(TimedOut') \in Nat
      BY <1>1, SomeRequests DEF TimedOut
    <3>2. /\ \A t \in Spawned : waits'[t] = 0
          /\ worker' = 0 /\ 0 \in Spawned
      BY <1>1, RequestsFinite
    <3> QED
      BY <3>1, <3>2 DEF Spent
  <2>6. Matched'
    BY <1>1 DEF IInv, PoolInv, Matched
  <2> QED
    BY <2>1, <2>4, <2>5, <2>6 DEF PoolInv
<1>3. PrizeTypeOK'
  BY <1>1 DEF IInv, PrizeTypeOK, money
<1>4. Unheard'
  BY <1>1 DEF IInv, Unheard, PrizeTypeOK
<1>5. CountExact'
  <2>1. {s \in Requests : sub[s] = "eval"}' = {}
    BY <1>1
  <2> QED
    BY <1>1, <2>1, FS_EmptySet DEF CountExact
<1>6. Answered' /\ Ranked'
  <2>1. \A s \in Requests : sub[s] = "answered" => sub'[s] = "answered"
    BY <1>1
  <2>2. \A i \in DOMAIN rows : rows[i] \in Rows
    BY DEF IInv, PrizeTypeOK
  <2>3. \A i \in DOMAIN rows : rows[i].sub \in Requests
    BY <2>2 DEF Rows
  <2>4. Answered'
    BY <1>1, <2>1, <2>3 DEF IInv, Answered
  <2>5. Ranked'
    BY <1>1 DEF IInv, Ranked, Contends, Outranks
  <2> QED
    BY <2>4, <2>5
<1>7. Decided'
  BY <1>1 DEF IInv, Decided, WinsOver
<1>8. Booked'
  BY <1>1 DEF IInv, PrizeTypeOK, Booked, money
<1> QED
  BY <1>2, <1>3, <1>4, <1>5, <1>6, <1>7, <1>8 DEF IInv

\* Every step keeps the invariant.
LEMMA IInvStep == IInv /\ [Next]_vars => IInv'
<1> SUFFICES ASSUME IInv, [Next]_vars PROVE IInv'
  OBVIOUS
<1>1. CASE Deposit \/ Report \/ Deadline \/ Reclaim \/ \E w \in Workers : Claim(w)
  BY <1>1, MoneyKeeps
<1>2. CASE Restart
  BY <1>2, RestartKeeps
<1>3. CASE InPool
  BY <1>3, InPoolKeeps
<1>4. CASE Sweep
  BY <1>4, SweepKeeps
<1>5. ASSUME NEW s \in Requests, Post(s) \/ Submission(s) PROVE IInv'
  BY <1>5, ReadKeeps, EvaluateKeeps, EvaluatedKeeps, InsertKeeps DEF Submission
<1>6. CASE UNCHANGED vars
  <2>1. PoolInv'
    BY <1>6 DEF IInv, PoolInv, PoolTypeOK, Numbered, Posted, PendingOnce, Listening, Spent, TimedOut, Matched, pool, vars
  <2>2. PrizeTypeOK' /\ Unheard' /\ CountExact' /\ Answered'
    BY <1>6 DEF IInv, PrizeTypeOK, Unheard, CountExact, Answered, vars, pool, job, money
  <2>3. Ranked' /\ Decided' /\ Booked'
    BY <1>6 DEF IInv, Ranked, Contends, Outranks, Decided, WinsOver, Booked, vars, pool, job, money
  <2> QED
    BY <2>1, <2>2, <2>3 DEF IInv
<1> QED
  BY <1>1, <1>2, <1>3, <1>4, <1>5, <1>6 DEF Next

\* A prize bounty always satisfies its invariant.
LEMMA IInvariance == Spec => []IInv
  BY IInvInit, IInvStep, PTL DEF Spec

\* The types of the pool and of the bounty: no thread is ever started beyond the
\* one there was and one for each request that timed out.
THEOREM TypeCorrect == Spec => [](PoolTypeOK /\ PrizeTypeOK)
<1>1. IInv => PoolTypeOK /\ PrizeTypeOK
  BY DEF IInv, PoolInv
<1> QED
  BY <1>1, IInvariance, PTL

\* An answer settles the request it belongs to and no other, and whatever is
\* pending was posted to the current thread (bucketPool.ts), however evaluations
\* end, time out and restart the thread, and however often the process dies.
THEOREM AnswersMatched == Spec => []Matched
<1>1. IInv => Matched
  BY DEF IInv, PoolInv
<1> QED
  BY <1>1, IInvariance, PTL

\* inFlight counts the evaluations under way exactly (candidates.ts), so the cap
\* neither leaks away nor lets more in.
THEOREM CountIsExact == Spec => []CountExact
<1>1. IInv => CountExact
  BY DEF IInv
<1> QED
  BY <1>1, IInvariance, PTL

\* Whoever was told in time that a candidate above the threshold is verified
\* loses only to a higher score or to an earlier equal one (finalizePrizes).
THEOREM AwardIsFair == Spec => []BestWins
<1>1. IInv => BestWins
  BY DEF IInv, Decided, WinsOver, BestWins
<1> QED
  BY <1>1, IInvariance, PTL

\* A closed bounty has credited its winner; and without a restart or a late
\* report in between it
\* credited nobody else and kept the prize for the winner.
THEOREM PrizeIsKept == Spec => []PrizeKept
<1>1. IInv => PrizeKept
  <2> SUFFICES ASSUME IInv PROVE PrizeKept
    OBVIOUS
  <2>1. restarts = 0 /\ ~reopened => AwardOnce
    <3> DEFINE
          paid == {w \in Workers : earned[w] > 0}
          one  == IF status = "closed" THEN winner ELSE pick
    <3>1. ASSUME restarts = 0, ~reopened PROVE paid \subseteq {one}
      <4>1. ASSUME NEW w \in Workers, earned[w] > 0 PROVE w = one
        <5>1. earned[w] = 1
          BY <4>1 DEF IInv, PrizeTypeOK
        <5> QED
          BY <3>1, <5>1 DEF IInv, Booked, Decided
      <4> QED
        BY <4>1
    <3> HIDE DEF one
    <3>2. ASSUME restarts = 0, ~reopened PROVE Cardinality(paid) \in {0, 1}
      <4>1. paid = {} \/ paid = {one}
        BY <3>1, <3>2
      <4>2. Cardinality({}) = 0 /\ Cardinality({one}) = 1
        BY FS_EmptySet, FS_Singleton
      <4> QED
        BY <4>1, <4>2
    <3> QED
      BY <3>2 DEF AwardOnce
  <2>2. status = "closed" /\ winner # NoOne => earned[winner] = 1
    BY DEF IInv, Booked
  <2>3. ASSUME restarts = 0, ~reopened, status = "closed"
        PROVE  /\ \A w \in Workers : earned[w] > 0 => w = winner
               /\ winner # NoOne /\ escrow = 0 => claimed[winner] = 1
    BY <2>3 DEF IInv, Booked, Decided, PrizeTypeOK
  <2> QED
    BY <2>1, <2>2, <2>3 DEF PrizeKept
<1> QED
  BY <1>1, IInvariance, PTL
=============================================================================
