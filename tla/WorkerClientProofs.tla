------------------------- MODULE WorkerClientProofs -------------------------
(***************************************************************************)
(* What is proved of the worker's software, for any number of loops,       *)
(* threads, chunks, stops and failures, and each of the seven clients.     *)
(*                                                                         *)
(* TypeInv and SessionInv hold of every behaviour: what is typed, what has *)
(* not been started has no thread, and no two loops have the same chunk.   *)
(* The others are of one session of the page, which shares its threads     *)
(* with the next.  ArrayInv says that the array holds all of a session's   *)
(* threads or, once it is stopped, none.  WorkInv, until a thread's task   *)
(* throws, that a thread's queue is empty or holds the one task of the     *)
(* chunk under evaluation that its handler waits for.  BondInv and         *)
(* ShareInv follow a chunk through its book while no call fails.           *)
(*                                                                         *)
(* The last part is about the commitment a chunk carries.  The loops of    *)
(* the tree and the folds over seeds are functions of the turn, unfolded   *)
(* once and then followed turn by turn, so the trees may have any number   *)
(* of leaves and the chunks any number of seeds, buckets and threads.      *)
(***************************************************************************)
EXTENDS MCWorkerClient, Sums, FiniteSetTheorems, SequenceTheorems, TLAPS

\* Where a loop has a chunk; where it is past the creation of its threads.
Holding == {"origin", "eval", "submit", "judge", "deliver"}
Working == Holding \cup {"lease", "sleep"}

Positions == {"none", "load", "spawn", "done", "dead"} \cup Working
Books     == {"open", "leased", "challenged", "awaiting", "paid", "slashed"}
Tasks     == [id : Nat, part : Parts]
Handlers  == {<< >>} \cup (Chunks \X Nat)
Machines  == [state : {"none", "loading", "ready", "dead"}, queue : Seq(Tasks), handler : Handlers]

EngineOK ==
    /\ client \in Clients
    /\ running \in BOOLEAN
    /\ status \in {"idle", "starting", "running", "stake_required"}
    /\ workers \in [Slots -> Loops \cup {0}]
    /\ thread \in [Threads -> Machines]
    /\ \A t \in Threads : thread[t].queue # << >> => thread[t].handler \in Chunks \X Nat

WorkOK ==
    /\ slices \in [Chunks -> [slots : SUBSET Slots, of : 0..Cardinality(Slots)]]
    /\ resolved \in [Chunks -> SUBSET Slots]
    /\ leaves \in [Chunks -> SUBSET Parts]
    /\ commit \in [Chunks -> SUBSET Parts]

LoopsOK ==
    /\ pc \in [Loops -> Positions]
    /\ chunk \in [Loops -> Chunks \cup {0}]
    /\ \A l \in Loops : pc[l] \in Holding => chunk[l] \in Chunks
    /\ book \in [Chunks -> Books]
    /\ erred \in BOOLEAN
    /\ starts \in Nat /\ stops \in Nat /\ failures \in Nat

TypeInv == EngineOK /\ WorkOK /\ LoopsOK
-----------------------------------------------------------------------------
\* A loop that has not come to its threads has none, and a process never has.
Early == {"none", "load"}

Unstarted ==
    /\ \A l \in Loops : l > starts => pc[l] = "none" /\ chunk[l] = 0
    /\ ~Web => \A l \in Loops : pc[l] \notin {"load", "spawn"}

Unspawned ==
    /\ \A t \in Threads : ~Web \/ pc[t[1]] \in Early => thread[t] = Idle
    /\ \A s \in Slots : workers[s] # 0 => Web /\ pc[workers[s]] \notin Early

OneLoopEach ==
    /\ \A l, m \in Loops : chunk[l] # 0 /\ chunk[l] = chunk[m] => l = m
    /\ \A l \in Loops : chunk[l] # 0 => book[chunk[l]] # "open"

SessionInv == Unstarted /\ Unspawned /\ OneLoopEach

\* The array and the threads of the loop that spawned them.
ArrayOf(l, s) ==
    LET state == thread[<<l, s>>].state
    IN  /\ pc[l] = "spawn" =>
             /\ state \in {"loading", "ready", "dead"}
             /\ workers[s] = IF state = "ready" THEN l ELSE 0
             /\ state = "dead" => ~running
        /\ pc[l] \in Working =>
             IF running THEN state = "ready" /\ workers[s] = l
                        ELSE state = "dead" /\ workers[s] = 0
        /\ pc[l] = "done" => state = "dead" /\ workers[s] = 0

ArrayInv == Web /\ starts <= 1 => \A l \in Loops, s \in Slots : ArrayOf(l, s)

\* The slots that a chunk of the page is cut for.
Crew == IF Training THEN {0} ELSE Slots

Untouched(c) == resolved[c] = {} /\ leaves[c] = {} /\ commit[c] = {}

\* A chunk under evaluation: each promise has brought its part.
Evaluating(c) ==
    /\ slices[c].slots = Crew
    /\ Crew = 0 .. slices[c].of - 1
    /\ resolved[c] \subseteq Crew
    /\ leaves[c] = {Part(c, s, slices[c].of) : s \in resolved[c]}

\* What a thread has queued is the one part its handler waits for.
Queued(t) ==
    thread[t].queue # << >> =>
        LET c == chunk[t[1]]
            n == thread[t].handler[2]
        IN  /\ pc[t[1]] = "eval"
            /\ t[2] \in Crew \ resolved[c]
            /\ thread[t].handler[1] = c
            /\ thread[t].queue = << [id |-> n, part |-> Part(c, t[2], slices[c].of)] >>

WorkAt(l) ==
    LET c == chunk[l]
    IN  /\ pc[l] = "origin" => Untouched(c)
        /\ pc[l] = "eval" => commit[c] = {} /\ (Web => Evaluating(c))
        /\ pc[l] \in {"submit", "judge", "deliver"} => Sound(c) /\ leaves[c] = commit[c]

Tidy ==
    /\ \A c \in Chunks : book[c] = "open" => Untouched(c)
    /\ \A c \in Chunks : commit[c] # {} => Sound(c)
    /\ \A l \in Loops : WorkAt(l)
    /\ \A t \in Threads : Queued(t)

WorkInv == OneSession /\ ~erred => Tidy

\* Until a call fails a challenge is being answered, and no bond is lost.
BondInv ==
    /\ erred => failures > 0
    /\ OneSession /\ failures = 0 =>
         \A c \in Chunks : /\ book[c] # "slashed"
                           /\ book[c] = "challenged" => \E l \in Loops : chunk[l] = c /\ pc[l] = "judge"

\* Until it is stopped the page is running as long as its loop is.
RunningInv ==
    Web /\ starts <= 1 /\ stops = 0 =>
        \A l \in Loops : pc[l] \in {"load", "spawn"} \cup Working => running

ShareInv == RunningInv /\ AbandonsNothing

IInv == TypeInv /\ SessionInv /\ ArrayInv /\ WorkInv /\ BondInv /\ ShareInv
-----------------------------------------------------------------------------
(***************************************************************************)
(* Slots, and where a loop goes.                                           *)
(***************************************************************************)

\* The slots are 0 to n - 1, and there is one.
LEMMA SlotsAre ==
  /\ Cardinality(Slots) \in Nat \ {0} /\ Slots = 0 .. Cardinality(Slots) - 1 /\ 0 \in Slots
  /\ Loops \subseteq Nat \ {0} /\ Chunks \subseteq Nat \ {0} /\ IsFiniteSet(Slots)
<1>1. Cardinality(Slots) \in Nat /\ Cardinality(Loops) \in Nat /\ Cardinality(Chunks) \in Nat
  BY ClientAssumption, FS_CardinalityType
<1>2. /\ Slots = 0 .. Cardinality(Slots) - 1 /\ Slots # {} /\ IsFiniteSet(Slots)
      /\ Loops = 1 .. Cardinality(Loops) /\ Chunks = 1 .. Cardinality(Chunks)
  BY ClientAssumption
<1> QED
  BY <1>1, <1>2

\* Every part of a chunk cut for the slots in the array is one.
LEMMA LengthIs ==
  ASSUME Present # {}
  PROVE  /\ Length \in 1 .. Cardinality(Slots)
         /\ \A s \in Present : s < Length
         /\ Present = Crew => Crew = 0 .. Length - 1
<1> DEFINE n == Cardinality(Slots)
           G == {n - 1 - s : s \in Present}
<1>s. n \in Nat \ {0} /\ Slots = 0 .. n - 1 /\ 0 \in Slots
  BY SlotsAre
<1>p. Present \subseteq Slots
  BY <1>s DEF Present
<1>1. CASE Training
  <2>1. Length = 1 /\ Present \subseteq {0} /\ Crew = {0}
    BY <1>1 DEF Length, Present, Crew
  <2> QED
    BY <2>1, <1>s
<1>2. CASE ~Training
  <2>1. \E s \in Present : \A u \in Present : u <= s
    <3>1. G \in SUBSET Nat /\ G # {}
      BY <1>s, <1>p
    <3>2. PICK g \in G : \A h \in G : g <= h
      <4> HIDE DEF G
      <4>1. PICK g \in G : \A h \in G : ~ <<h, g>> \in OpToRel(<, Nat)
        BY <3>1, NatLessThanWellFounded, WFMin
      <4>2. \A h \in G : ~(h < g)
        BY <3>1, <4>1 DEF OpToRel
      <4> QED
        BY <3>1, <4>2
    <3>3. PICK s \in Present : g = n - 1 - s
      BY <3>2
    <3>4. \A u \in Present : u <= s
      <4> SUFFICES ASSUME NEW u \in Present PROVE u <= s
        OBVIOUS
      <4>1. n - 1 - s <= n - 1 - u
        BY <3>2, <3>3
      <4> QED
        BY <4>1, <1>p, <1>s
    <3> QED
      BY <3>4
  <2> DEFINE m == CHOOSE s \in Present : \A u \in Present : u <= s
  <2>2. m \in Present /\ \A u \in Present : u <= m
    BY <2>1
  <2>3. Length = 1 + m /\ Crew = Slots
    BY <1>2 DEF Length, Crew
  <2> HIDE DEF m
  <2>4. Present = Crew => m = n - 1
    <3>1. n - 1 \in Slots
      BY <1>s
    <3> QED
      BY <2>2, <2>3, <3>1, <1>s
  <2> QED
    BY <2>2, <2>3, <2>4, <1>s, <1>p
<1> QED
  BY <1>1, <1>2

\* A task's number is a number.
LEMMA TaskIdIs ==
  ASSUME NEW s \in Slots
  PROVE  TaskId(s) \in Nat
<1>1. {u \in Present : u < s} \subseteq Slots
  BY SlotsAre DEF Present
<1>2. IsFiniteSet({u \in Present : u < s})
  BY <1>1, SlotsAre, FS_Subset
<1> QED
  BY <1>2, FS_CardinalityType DEF TaskId

\* Where each answer leads.
LEMMA AfterIs ==
  ASSUME EngineOK, NEW l \in Loops
  PROVE  /\ After(l, "leased") \in {"origin", "eval"} /\ (Web /\ Training => After(l, "leased") = "origin")
         /\ After(l, "drained") = "end"
         /\ After(l, "stake") \in {"end", "exit"}
         /\ After(l, "refused") \in {"sleep", "end", "exit", "loop"}
         /\ After(l, "thrown") \in {"sleep", "dead", "exit"} /\ (Web => After(l, "thrown") = "sleep")
         /\ After(l, "challenged") = "judge"
         /\ After(l, "rejected") \in {"loop", "end", "exit"}
         /\ After(l, "accepted") = IF Delivers THEN "deliver" ELSE "loop"
         /\ After(l, "delivered") = "loop"
<1>1. client \in {"web", "webRender", "webTraining", "desktop", "cli", "render", "train"}
  BY ClientAssumption DEF EngineOK
<1>2. CASE Web
  <2>1. /\ WebNext["leased"] = (IF Training THEN "origin" ELSE "eval")
        /\ WebNext["drained"] = "end" /\ WebNext["stake"] = "end"
        /\ WebNext["refused"] = "sleep" /\ WebNext["thrown"] = "sleep"
        /\ WebNext["challenged"] = "judge" /\ WebNext["rejected"] = "loop"
        /\ WebNext["accepted"] = (IF Delivers THEN "deliver" ELSE "loop")
        /\ WebNext["delivered"] = "loop"
    BY DEF WebNext
  <2>2. Turns = WebNext /\ client # "desktop"
    BY <1>2 DEF Turns, Web
  <2> QED
    BY <2>1, <2>2 DEF After
<1>3. CASE ~Web
  <2>1. /\ DesktopNext["leased"] = "eval" /\ DesktopNext["drained"] = "end" /\ DesktopNext["stake"] = "end"
        /\ DesktopNext["refused"] = "end" /\ DesktopNext["thrown"] = "dead"
        /\ DesktopNext["challenged"] = "judge" /\ DesktopNext["rejected"] = "end"
        /\ DesktopNext["accepted"] = "loop" /\ DesktopNext["delivered"] = "loop"
    BY DEF DesktopNext
  <2>2. /\ CliNext["leased"] = "eval" /\ CliNext["drained"] = "end" /\ CliNext["stake"] = "exit"
        /\ CliNext["refused"] = "exit" /\ CliNext["thrown"] = "exit"
        /\ CliNext["challenged"] = "judge" /\ CliNext["rejected"] = "exit"
        /\ CliNext["accepted"] = "loop" /\ CliNext["delivered"] = "loop"
    BY DEF CliNext
  <2>3. /\ RenderNext["leased"] = "eval" /\ RenderNext["drained"] = "end" /\ RenderNext["stake"] = "exit"
        /\ RenderNext["refused"] = "exit" /\ RenderNext["thrown"] = "exit"
        /\ RenderNext["challenged"] = "judge" /\ RenderNext["rejected"] = "exit"
        /\ RenderNext["accepted"] = "deliver" /\ RenderNext["delivered"] = "loop"
    BY DEF RenderNext, CliNext
  <2>4. /\ TrainNext["leased"] = "origin" /\ TrainNext["drained"] = "end" /\ TrainNext["stake"] = "exit"
        /\ TrainNext["refused"] = "exit" /\ TrainNext["thrown"] = "exit"
        /\ TrainNext["challenged"] = "judge" /\ TrainNext["rejected"] = "exit"
        /\ TrainNext["accepted"] = "deliver" /\ TrainNext["delivered"] = "loop"
    BY DEF TrainNext, CliNext
  <2>5. CASE client = "desktop"
    BY <1>3, <2>1, <2>5 DEF After, Turns, Web, Delivers
  <2>6. CASE client = "cli"
    BY <1>3, <2>2, <2>6 DEF After, Turns, Web, Delivers
  <2>7. CASE client = "render"
    BY <1>3, <2>3, <2>7 DEF After, Turns, Web, Delivers
  <2>8. CASE client = "train"
    BY <1>3, <2>4, <2>8 DEF After, Turns, Web, Delivers
  <2> QED
    BY <1>1, <1>3, <2>5, <2>6, <2>7, <2>8 DEF Web
<1> QED
  BY <1>2, <1>3

\* A loop goes on to its next await, or ends and stops the engine.
Goes(l, q) ==
    /\ pc' = [pc EXCEPT ![l] = q]
    /\ q = "done" => \E idle \in {"idle", "stake_required"} : Stopped(idle)
    /\ q # "done" => UNCHANGED engine

\* Where it has no chunk any more.
Onward == {"lease", "sleep", "done", "dead"}

LEMMA Entered ==
  ASSUME NEW l \in Loops, NEW p, p # "done", Enter(l, p)
  PROVE  \E q : /\ Goes(l, q)
                /\ p = "loop" => q = "done" \/ (q = "lease" /\ running)
                /\ p \in {"end", "exit"} => q = "done"
                /\ p \notin {"loop", "end", "exit"} => q = p
<1>1. CASE p \in {"end", "exit"} \/ (p = "loop" /\ ~running)
  BY <1>1 DEF Enter, Goes, Goto
<1>2. CASE ~(p \in {"end", "exit"} \/ (p = "loop" /\ ~running))
  BY <1>2 DEF Enter, Goes, Goto
<1> QED
  BY <1>1, <1>2

\* What all answers have in common: the loop goes on, and at most the book of its
\* chunk and the count of failures change.
Turn(l, q) ==
    /\ Goes(l, q)
    /\ q \in Onward \/ (q \in {"judge", "deliver"} /\ pc[l] \in {"submit", "judge"})
    /\ q = "lease" => running
    /\ q = "dead" => ~Web
    /\ pc[l] \in Working
    /\ UNCHANGED <<client, erred, chunk, chunkData, count>>
    /\ failures' \in {failures, failures + 1}
    /\ \/ book' = book
       \/ /\ pc[l] \in {"submit", "judge", "deliver"}
          /\ \E b \in Books \ {"open"} : book' = [book EXCEPT ![chunk[l]] = b]

LEMMA RetryTurns ==
  ASSUME TypeInv, NEW l \in Loops, Retry(l)
  PROVE  failures' = failures /\ book' = book /\ \E q \in {"lease", "done"} : Turn(l, q)
<1>1. pc[l] = "sleep" /\ Enter(l, "loop") /\ UNCHANGED <<client, erred, chunk, chunkData, book, count, failures>>
  BY DEF Retry
<1>2. PICK q : Goes(l, q) /\ (q = "done" \/ (q = "lease" /\ running))
  BY <1>1, Entered
<1> QED
  BY <1>1, <1>2 DEF Turn, Onward, Working

LEMMA DeniedTurns ==
  ASSUME TypeInv, NEW l \in Loops, LeaseDenied(l)
  PROVE  book' = book /\ \E q \in Onward : Turn(l, q)
<1>1. pc[l] = "lease" /\ UNCHANGED <<client, erred, chunk, chunkData, book, count>>
  BY DEF LeaseDenied
<1>2. \/ \E p \in {"end", "exit", "sleep", "loop"} : Enter(l, p) /\ failures' \in {failures, failures + 1}
      \/ \E p \in {"sleep", "dead", "exit"} : /\ Enter(l, p) /\ failures' \in {failures, failures + 1}
                                              /\ p = "dead" => ~Web
      \/ Goto(l, "done") /\ Stopped("stake_required") /\ failures' = failures
  BY AfterIs DEF LeaseDenied, Fail, TypeInv
<1>3. CASE Goto(l, "done") /\ Stopped("stake_required") /\ failures' = failures
  BY <1>1, <1>3 DEF Turn, Goes, Goto, Onward, Working
<1>4. ASSUME NEW p \in {"end", "exit", "sleep", "loop", "dead"}, Enter(l, p), p = "dead" => ~Web,
             failures' \in {failures, failures + 1}
      PROVE  \E q \in Onward : Turn(l, q)
  <2>1. PICK q : /\ Goes(l, q)
                 /\ p = "loop" => q = "done" \/ (q = "lease" /\ running)
                 /\ p \in {"end", "exit"} => q = "done"
                 /\ p \notin {"loop", "end", "exit"} => q = p
    BY <1>4, Entered
  <2> QED
    BY <1>1, <1>4, <2>1 DEF Turn, Onward, Working
<1>5. CASE \E p \in {"end", "exit", "sleep", "loop"} : Enter(l, p) /\ failures' \in {failures, failures + 1}
  <2>1. PICK p \in {"end", "exit", "sleep", "loop"} : Enter(l, p) /\ failures' \in {failures, failures + 1}
    BY <1>5
  <2> QED
    BY <1>1, <1>4, <2>1
<1>6. CASE \E p \in {"sleep", "dead", "exit"} : /\ Enter(l, p) /\ failures' \in {failures, failures + 1}
                                                /\ p = "dead" => ~Web
  <2>1. PICK p \in {"sleep", "dead", "exit"} : /\ Enter(l, p) /\ failures' \in {failures, failures + 1}
                                               /\ p = "dead" => ~Web
    BY <1>6
  <2>2. p \in {"end", "exit", "sleep", "loop", "dead"} /\ (p = "dead" => ~Web)
    BY <2>1
  <2> QED
    BY <1>1, <1>4, <2>1, <2>2
<1> QED
  BY <1>2, <1>3, <1>5, <1>6

\* What the coordinator books for a verdict.
Booked(v) == CASE v = "accepted" -> Passed [] v = "rejected" -> "slashed" [] v = "challenged" -> "challenged"

LEMMA VerdictTurns ==
  ASSUME TypeInv, NEW l \in Loops, NEW v \in {"accepted", "challenged", "rejected"}, Verdict(l, v),
         pc[l] \in {"submit", "judge"}, UNCHANGED <<client, erred, chunk, chunkData, count>>
  PROVE  \E q : /\ Turn(l, q)
                /\ failures' = failures =>
                     /\ book' = [book EXCEPT ![chunk[l]] = Booked(v)]
                     /\ v = "challenged" => q = "judge"
                     /\ v = "accepted" /\ Delivers => q = "deliver"
<1>1. Booked(v) \in Books \ {"open"}
  BY DEF Booked, Books, Passed
<1>2. \/ /\ book' = [book EXCEPT ![chunk[l]] = Booked(v)] /\ Enter(l, After(l, v)) /\ failures' = failures
      \/ /\ book' = [book EXCEPT ![chunk[l]] = Booked(v)] /\ Enter(l, After(l, "thrown")) /\ failures' = failures + 1
      \/ /\ book' = book /\ Enter(l, After(l, "refused")) /\ failures' = failures + 1
  BY DEF Verdict, Booked, Fail
<1>t. failures \in Nat
  BY DEF TypeInv, LoopsOK
<1>3. ASSUME NEW p \in {"end", "exit", "sleep", "loop", "dead", "judge", "deliver"}, Enter(l, p), p = "dead" => ~Web
      PROVE  \E q : /\ Goes(l, q) /\ q \in Onward \cup {"judge", "deliver"}
                    /\ q = "lease" => running
                    /\ q = "dead" => ~Web
                    /\ p \in {"judge", "deliver"} => q = p
  <2>1. PICK q : /\ Goes(l, q)
                 /\ p = "loop" => q = "done" \/ (q = "lease" /\ running)
                 /\ p \in {"end", "exit"} => q = "done"
                 /\ p \notin {"loop", "end", "exit"} => q = p
    BY <1>3, Entered
  <2> QED
    BY <1>3, <2>1 DEF Onward
<1>4. /\ After(l, v) \in {"end", "exit", "loop", "judge", "deliver"}
      /\ v = "challenged" => After(l, v) = "judge"
      /\ v = "accepted" /\ Delivers => After(l, v) = "deliver"
      /\ After(l, "thrown") \in {"end", "exit", "sleep", "loop", "dead"} /\ (After(l, "thrown") = "dead" => ~Web)
      /\ After(l, "refused") \in {"end", "exit", "sleep", "loop"}
  BY AfterIs DEF TypeInv
<1>5. CASE book' = [book EXCEPT ![chunk[l]] = Booked(v)] /\ Enter(l, After(l, v)) /\ failures' = failures
  <2>1. PICK p \in {"end", "exit", "sleep", "loop", "dead", "judge", "deliver"} : p = After(l, v)
    BY <1>4
  <2>2. PICK q : /\ Goes(l, q) /\ q \in Onward \cup {"judge", "deliver"}
                 /\ q = "lease" => running
                 /\ q = "dead" => ~Web
                 /\ p \in {"judge", "deliver"} => q = p
    BY <1>3, <1>4, <1>5, <2>1
  <2>3. Turn(l, q)
    BY <1>1, <1>5, <2>2 DEF Turn, Working, Holding
  <2> QED
    BY <1>4, <1>5, <2>1, <2>2, <2>3
<1>6. ASSUME NEW e \in {"thrown", "refused"}, Enter(l, After(l, e)), failures' = failures + 1,
             book' = book \/ book' = [book EXCEPT ![chunk[l]] = Booked(v)]
      PROVE  \E q : Turn(l, q)
  <2>1. PICK p \in {"end", "exit", "sleep", "loop", "dead", "judge", "deliver"} : p = After(l, e)
    BY <1>4
  <2>2. PICK q : /\ Goes(l, q) /\ q \in Onward \cup {"judge", "deliver"}
                 /\ q = "lease" => running
                 /\ q = "dead" => ~Web
    BY <1>3, <1>4, <1>6, <2>1
  <2> QED
    BY <1>1, <1>6, <2>2 DEF Turn, Working, Holding
<1> QED
  BY <1>t, <1>2, <1>5, <1>6

LEMMA DeliveredTurns ==
  ASSUME TypeInv, NEW l \in Loops, DeliverAnswered(l)
  PROVE  \E q \in Onward : /\ Turn(l, q)
                           /\ Sound(chunk[l]) /\ failures' = failures => book' = [book EXCEPT ![chunk[l]] = "paid"]
                           /\ \E b \in {book[chunk[l]], "paid"} : book' = [book EXCEPT ![chunk[l]] = b]
<1>1. pc[l] = "deliver" /\ UNCHANGED <<client, erred, chunk, chunkData, count>>
  BY DEF DeliverAnswered
<1>t. failures \in Nat /\ chunk[l] \in Chunks /\ book \in [Chunks -> Books]
  BY <1>1 DEF TypeInv, LoopsOK, Holding
<1>2. ASSUME NEW p \in {"end", "exit", "sleep", "loop", "dead"}, Enter(l, p), p = "dead" => ~Web
      PROVE  \E q \in Onward : Goes(l, q) /\ (q = "lease" => running) /\ (q = "dead" => ~Web)
  <2>1. PICK q : /\ Goes(l, q)
                 /\ p = "loop" => q = "done" \/ (q = "lease" /\ running)
                 /\ p \in {"end", "exit"} => q = "done"
                 /\ p \notin {"loop", "end", "exit"} => q = p
    BY <1>2, Entered
  <2> QED
    BY <1>2, <2>1 DEF Onward
<1>3. \E p \in {"end", "exit", "sleep", "loop", "dead"} : Enter(l, p) /\ (p = "dead" => ~Web)
  BY AfterIs DEF DeliverAnswered, TypeInv
<1>4. PICK q \in Onward : Goes(l, q) /\ (q = "lease" => running) /\ (q = "dead" => ~Web)
  BY <1>2, <1>3
<1>5. \/ Sound(chunk[l]) /\ book' = [book EXCEPT ![chunk[l]] = "paid"] /\ failures' = failures
      \/ ~Sound(chunk[l]) /\ book' = book /\ failures' = failures
      \/ book' = book /\ failures' = failures + 1
  BY DEF DeliverAnswered, Fail
<1>6. book' = [book EXCEPT ![chunk[l]] = book[chunk[l]]] \/ book' = [book EXCEPT ![chunk[l]] = "paid"]
  BY <1>t, <1>5
<1>7. Turn(l, q)
  BY <1>1, <1>4, <1>5 DEF Turn, Working, Holding, Books
<1> QED
  BY <1>t, <1>5, <1>6, <1>7

\* Every part of a native chunk is computed at once.
Computed(l) ==
    LET c == chunk[l]
    IN  /\ slices' = [slices EXCEPT ![c] = [slots |-> {0}, of |-> 1]]
        /\ leaves' = [leaves EXCEPT ![c] = {Part(c, 0, 1)}]
        /\ resolved' = [resolved EXCEPT ![c] = {0}]
        /\ commit' = [commit EXCEPT ![c] = {Part(c, 0, 1)}]
        /\ pc' = [pc EXCEPT ![l] = "submit"]
        /\ UNCHANGED <<engine, failures, client, erred, chunk, book, count>>

LEMMA NativeIs ==
  ASSUME TypeInv, NEW l \in Loops, NativeEval(l)
  PROVE  /\ pc[l] = "eval" /\ ~Web /\ chunk[l] \in Chunks
         /\ Computed(l) \/ (Turn(l, "done") /\ failures' = failures + 1 /\ book' = book)
<1>1. pc[l] = "eval" /\ ~Web /\ chunk[l] \in Chunks /\ UNCHANGED <<client, erred, chunk, book, count>>
  BY DEF NativeEval, TypeInv, LoopsOK, Holding
<1>2. Computed(l) \/ (/\ Fail /\ UNCHANGED chunkData
                      /\ \E p \in {"end", "exit"} : Enter(l, p))
  BY <1>1 DEF NativeEval, Computed, Goto
<1>3. ASSUME Fail, UNCHANGED chunkData, NEW p \in {"end", "exit"}, Enter(l, p)
      PROVE  Turn(l, "done") /\ failures' = failures + 1
  <2>1. Goes(l, "done")
    BY <1>3, Entered
  <2> QED
    BY <1>1, <1>3, <2>1 DEF Turn, Onward, Working, Holding, Fail
<1> QED
  BY <1>1, <1>2, <1>3

\* The origin is there, or the turn ends.
LEMMA OriginIs ==
  ASSUME TypeInv, NEW l \in Loops, OriginState(l)
  PROVE  /\ pc[l] = "origin" /\ chunk[l] \in Chunks
         /\ UNCHANGED <<client, erred, chunk, resolved, leaves, commit, book, count>>
         /\ \/ Web /\ FanOut(l, chunk[l]) /\ UNCHANGED <<running, status, workers, failures>>
            \/ ~Web /\ pc' = [pc EXCEPT ![l] = "eval"] /\ UNCHANGED <<engine, slices, failures>>
            \/ failures' = failures + 1 /\ \E q \in Onward : Turn(l, q)
<1>1. /\ pc[l] = "origin" /\ chunk[l] \in Chunks
      /\ UNCHANGED <<client, erred, chunk, resolved, leaves, commit, book, count>>
  BY DEF OriginState, TypeInv, LoopsOK, Holding
<1>2. \/ Web /\ FanOut(l, chunk[l]) /\ UNCHANGED <<running, status, workers, failures>>
      \/ ~Web /\ pc' = [pc EXCEPT ![l] = "eval"] /\ UNCHANGED <<engine, slices, failures>>
      \/ Fail /\ Enter(l, After(l, "thrown")) /\ UNCHANGED slices
  BY DEF OriginState, Goto, engine
<1>3. CASE Fail /\ Enter(l, After(l, "thrown")) /\ UNCHANGED slices
  <2>1. PICK p \in {"sleep", "dead", "exit"} : p = After(l, "thrown") /\ (Web => p = "sleep")
    BY AfterIs DEF TypeInv
  <2>2. PICK q : /\ Goes(l, q)
                 /\ p \in {"end", "exit"} => q = "done"
                 /\ p \notin {"loop", "end", "exit"} => q = p
    BY <1>3, <2>1, Entered
  <2>3. q \in Onward /\ Turn(l, q)
    BY <1>1, <1>3, <2>1, <2>2 DEF Turn, Onward, Working, Holding, Fail, chunkData
  <2>4. failures' = failures + 1 /\ \E r \in Onward : Turn(l, r)
    BY <1>3, <2>3 DEF Fail
  <2> QED
    BY <1>1, <2>4
<1> QED
  BY <1>1, <1>2, <1>3

LEMMA SubmitTurns ==
  ASSUME TypeInv, NEW l \in Loops, SubmitAnswered(l)
  PROVE  /\ pc[l] = "submit" /\ chunk[l] \in Chunks
         /\ \E v \in {"accepted", "challenged", "rejected"}, q \in Positions :
              /\ Turn(l, q)
              /\ v = "rejected" => ~Sound(chunk[l])
              /\ failures' = failures => /\ book' = [book EXCEPT ![chunk[l]] = Booked(v)]
                                         /\ v = "challenged" => q = "judge"
                                         /\ v = "accepted" /\ Delivers => q = "deliver"
<1>1. pc[l] = "submit" /\ chunk[l] \in Chunks /\ UNCHANGED <<client, erred, chunk, chunkData, count>>
  BY DEF SubmitAnswered, TypeInv, LoopsOK, Holding
<1>2. PICK v \in {"accepted", "challenged", "rejected"} : (v = "rejected" => ~Sound(chunk[l])) /\ Verdict(l, v)
  BY DEF SubmitAnswered
<1>3. PICK q : /\ Turn(l, q)
               /\ failures' = failures => /\ book' = [book EXCEPT ![chunk[l]] = Booked(v)]
                                          /\ v = "challenged" => q = "judge"
                                          /\ v = "accepted" /\ Delivers => q = "deliver"
  BY <1>1, <1>2, VerdictTurns
<1>4. q \in Positions
  BY <1>3 DEF Turn, Onward, Positions, Working, Holding
<1> QED
  BY <1>1, <1>2, <1>3, <1>4

LEMMA JudgeTurns ==
  ASSUME TypeInv, NEW l \in Loops, ChallengeAnswered(l)
  PROVE  /\ pc[l] = "judge" /\ chunk[l] \in Chunks
         /\ \E v \in {"accepted", "rejected"}, q \in Positions :
              /\ Turn(l, q)
              /\ v = "rejected" => ~(leaves[chunk[l]] = commit[chunk[l]] /\ Sound(chunk[l]))
              /\ failures' = failures => /\ book' = [book EXCEPT ![chunk[l]] = Booked(v)]
                                         /\ v = "accepted" /\ Delivers => q = "deliver"
<1>1. pc[l] = "judge" /\ chunk[l] \in Chunks /\ UNCHANGED <<client, erred, chunk, chunkData, count>>
  BY DEF ChallengeAnswered, TypeInv, LoopsOK, Holding
<1>2. PICK v \in {"accepted", "rejected"} :
         /\ v = "rejected" => ~(leaves[chunk[l]] = commit[chunk[l]] /\ Sound(chunk[l]))
         /\ Verdict(l, v)
  BY DEF ChallengeAnswered
<1>3. PICK q : /\ Turn(l, q)
               /\ failures' = failures => /\ book' = [book EXCEPT ![chunk[l]] = Booked(v)]
                                          /\ v = "accepted" /\ Delivers => q = "deliver"
  BY <1>1, <1>2, VerdictTurns
<1>4. q \in Positions
  BY <1>3 DEF Turn, Onward, Positions, Working, Holding
<1> QED
  BY <1>1, <1>2, <1>3, <1>4
-----------------------------------------------------------------------------
(***************************************************************************)
(* The types.                                                              *)
(***************************************************************************)

\* Stopping leaves threads that are dead or as they were.
LEMMA StopTypes ==
  ASSUME EngineOK, NEW idle \in {"idle", "stake_required"}, Stopped(idle), client' = client
  PROVE  EngineOK'
<1>1. running' = FALSE /\ status' = idle /\ workers' = [s \in Slots |-> 0]
  BY DEF Stopped
<1>2. \A t \in Threads : /\ thread'[t] \in Machines
                         /\ thread'[t].queue # << >> => thread'[t].handler \in Chunks \X Nat
  <2> SUFFICES ASSUME NEW t \in Threads
               PROVE  /\ thread'[t] \in Machines
                      /\ thread'[t].queue # << >> => thread'[t].handler \in Chunks \X Nat
    OBVIOUS
  <2>1. thread'[t] = thread[t] \/ thread'[t] = [Idle EXCEPT !.state = "dead"]
    BY DEF Stopped
  <2>2. << >> \in Seq(Tasks)
    OBVIOUS
  <2>3. [Idle EXCEPT !.state = "dead"] = [state |-> "dead", queue |-> << >>, handler |-> << >>]
    BY DEF Idle
  <2>4. [state |-> "dead", queue |-> << >>, handler |-> << >>] \in Machines
    BY <2>2 DEF Machines, Handlers
  <2>5. CASE thread'[t] = thread[t]
    BY <2>5 DEF EngineOK
  <2>6. CASE thread'[t] = [Idle EXCEPT !.state = "dead"]
    BY <2>3, <2>4, <2>6
  <2> QED
    BY <2>1, <2>5, <2>6
<1>3. thread' = [t \in Threads |-> thread'[t]]
  BY DEF Stopped
<1> QED
  BY <1>1, <1>2, <1>3 DEF EngineOK

\* The fan-out queues typed tasks.
LEMMA FanOutTypes ==
  ASSUME TypeInv, NEW l \in Loops, NEW c \in Chunks, FanOut(l, c),
         UNCHANGED <<client, running, status, workers>>
  PROVE  /\ EngineOK'
         /\ slices' \in [Chunks -> [slots : SUBSET Slots, of : 0..Cardinality(Slots)]]
         /\ pc' = [pc EXCEPT ![l] = "sleep"] \/ pc' = [pc EXCEPT ![l] = "eval"]
<1>1. CASE Present = {}
  BY <1>1 DEF FanOut, Goto, TypeInv, EngineOK, WorkOK
<1>2. CASE Present # {}
  <2>1. /\ pc' = [pc EXCEPT ![l] = "eval"]
        /\ slices' = [slices EXCEPT ![c] = [slots |-> Present, of |-> Length]]
        /\ thread' = [t \in Threads |->
              IF t[2] \in Present /\ workers[t[2]] = t[1]
              THEN [thread[t] EXCEPT
                      !.queue = Append(@, [id |-> TaskId(t[2]), part |-> Part(c, t[2], Length)]),
                      !.handler = <<c, TaskId(t[2])>>]
              ELSE thread[t]]
    BY <1>2 DEF FanOut, Goto
  <2>2. Length \in 1 .. Cardinality(Slots) /\ Present \subseteq Slots /\ Cardinality(Slots) \in Nat
    BY <1>2, LengthIs, SlotsAre DEF Present
  <2>3. slices' \in [Chunks -> [slots : SUBSET Slots, of : 0..Cardinality(Slots)]]
    <3> DEFINE cut == [slots |-> Present, of |-> Length]
    <3>1. cut \in [slots : SUBSET Slots, of : 0..Cardinality(Slots)]
      BY <2>2
    <3> HIDE DEF cut
    <3>2. slices' = [slices EXCEPT ![c] = cut]
      BY <2>1 DEF cut
    <3> QED
      BY <3>1, <3>2 DEF TypeInv, WorkOK
  <2>4. ASSUME NEW t \in Threads
        PROVE  /\ thread'[t] \in Machines
               /\ thread'[t].queue # << >> => thread'[t].handler \in Chunks \X Nat
    <3>1. CASE t[2] \in Present /\ workers[t[2]] = t[1]
      <4> DEFINE task == [id |-> TaskId(t[2]), part |-> Part(c, t[2], Length)]
                 h == <<c, TaskId(t[2])>>
      <4>1. thread'[t] = [thread[t] EXCEPT !.queue = Append(@, task), !.handler = h]
        BY <2>1, <3>1
      <4>2. TaskId(t[2]) \in Nat /\ t[2] \in Slots
        BY <3>1, <2>2, TaskIdIs
      <4>3. Part(c, t[2], Length) \in Parts
        BY <4>2, <2>2 DEF Part, Parts
      <4>4. task \in Tasks /\ h \in Chunks \X Nat
        BY <4>2, <4>3 DEF Tasks
      <4>5. thread[t] \in Machines
        BY DEF TypeInv, EngineOK
      <4> HIDE DEF task, h
      <4>6. Append(thread[t].queue, task) \in Seq(Tasks)
        BY <4>4, <4>5 DEF Machines
      <4>7. thread'[t] = [state |-> thread[t].state, queue |-> Append(thread[t].queue, task), handler |-> h]
        BY <4>1, <4>5 DEF Machines
      <4> QED
        BY <4>4, <4>5, <4>6, <4>7 DEF Machines, Handlers
    <3>2. CASE ~(t[2] \in Present /\ workers[t[2]] = t[1])
      BY <2>1, <3>2 DEF TypeInv, EngineOK
    <3> QED
      BY <3>1, <3>2
  <2>5. thread' \in [Threads -> Machines]
    <3>1. thread' = [t \in Threads |-> thread'[t]]
      BY <2>1, Zenon
    <3> QED
      BY <3>1, <2>4
  <2> QED
    BY <2>1, <2>3, <2>4, <2>5 DEF TypeInv, EngineOK
<1> QED
  BY <1>1, <1>2

\* A turn keeps the types.
LEMMA TurnTypes ==
  ASSUME TypeInv, NEW l \in Loops, NEW q, Turn(l, q)
  PROVE  TypeInv'
<1>t. LoopsOK /\ WorkOK /\ EngineOK
  BY DEF TypeInv
<1>1. /\ pc' = [pc EXCEPT ![l] = q] /\ UNCHANGED <<client, erred, chunk, chunkData, count>>
      /\ failures' \in {failures, failures + 1}
  BY DEF Turn, Goes
<1>2. /\ q \in Positions
      /\ q \in Holding => pc[l] \in Holding
  BY DEF Turn, Onward, Positions, Working, Holding
<1>3. EngineOK'
  <2>1. CASE q = "done"
    <3>1. PICK idle \in {"idle", "stake_required"} : Stopped(idle)
      BY <2>1 DEF Turn, Goes
    <3> QED
      BY <1>1, <1>t, <3>1, StopTypes
  <2>2. CASE q # "done"
    <3>1. UNCHANGED <<client, running, status, workers, thread>>
      BY <1>1, <2>2 DEF Turn, Goes, engine
    <3> QED
      BY <1>t, <3>1 DEF EngineOK
  <2> QED
    BY <2>1, <2>2
<1>4. WorkOK'
  BY <1>t, <1>1 DEF WorkOK, chunkData
<1>5. book' \in [Chunks -> Books]
  BY <1>t DEF Turn, LoopsOK
<1>6. pc' \in [Loops -> Positions] /\ \A m \in Loops : pc'[m] \in Holding => chunk'[m] \in Chunks
  BY <1>t, <1>1, <1>2 DEF LoopsOK
<1>7. LoopsOK'
  BY <1>t, <1>1, <1>5, <1>6 DEF LoopsOK, count
<1> QED
  BY <1>3, <1>4, <1>7 DEF TypeInv

LEMMA TypeInit == Init => TypeInv
<1> SUFFICES ASSUME Init PROVE TypeInv
  OBVIOUS
<1>1. << >> \in Seq(Tasks) /\ Cardinality(Slots) \in Nat
  BY SlotsAre
<1>2. Idle \in Machines /\ Idle.queue = << >>
  BY <1>1 DEF Idle, Machines, Handlers
<1>3. EngineOK
  BY <1>2 DEF Init, EngineOK
<1>4. WorkOK
  <2>1. [slots |-> {}, of |-> 0] \in [slots : SUBSET Slots, of : 0..Cardinality(Slots)]
    BY <1>1
  <2> QED
    BY <2>1 DEF Init, WorkOK
<1>5. LoopsOK
  BY DEF Init, LoopsOK, Positions, Working, Holding, Books
<1> QED
  BY <1>3, <1>4, <1>5 DEF TypeInv

\* The steps of the buttons and the threads.
Threading ==
    \/ StartButton \/ StopButton
    \/ \E l \in Loops : LoadModule(l) \/ ThreadsReady(l)
    \/ \E t \in Threads : ThreadReady(t) \/ ThreadAnswers(t) \/ ThreadErrs(t)

LEMMA EngineTypes ==
  ASSUME TypeInv, Threading
  PROVE  TypeInv'
<1> USE DEF TypeInv
<1>t. /\ pc \in [Loops -> Positions] /\ chunk \in [Loops -> Chunks \cup {0}]
      /\ \A m \in Loops : pc[m] \in Holding => chunk[m] \in Chunks
      /\ book \in [Chunks -> Books] /\ erred \in BOOLEAN
      /\ starts \in Nat /\ stops \in Nat /\ failures \in Nat
  BY DEF LoopsOK
<1>f. Fail => failures' \in Nat
  BY <1>t DEF Fail
<1>1. CASE StartButton
  <2> DEFINE p == IF Web THEN "load" ELSE "lease"
  <2>1. /\ starts + 1 \in Loops /\ starts' = starts + 1 /\ running' = TRUE
        /\ status' = IF Web THEN "starting" ELSE "running"
        /\ pc' = [pc EXCEPT ![starts + 1] = p]
        /\ UNCHANGED <<client, erred, workers, thread, chunk, chunkData, book, stops, failures>>
    BY <1>1 DEF StartButton, Goto
  <2>2. p \in Positions /\ p \notin Holding
    BY DEF Positions, Working, Holding
  <2>3. EngineOK'
    BY <2>1 DEF EngineOK
  <2>4. WorkOK'
    BY <2>1 DEF WorkOK, chunkData
  <2>5. LoopsOK'
    BY <2>1, <2>2, <1>t DEF LoopsOK
  <2> QED
    BY <2>3, <2>4, <2>5
<1>2. CASE StopButton
  <2>1. /\ Stopped("idle") /\ stops' = stops + 1
        /\ UNCHANGED <<client, erred, pc, chunk, chunkData, book, starts, failures>>
    BY <1>2 DEF StopButton
  <2>2. EngineOK'
    BY <2>1, StopTypes
  <2>3. WorkOK' /\ LoopsOK'
    BY <2>1, <1>t DEF WorkOK, chunkData, LoopsOK
  <2> QED
    BY <2>2, <2>3
<1>3. ASSUME NEW l \in Loops, LoadModule(l) PROVE TypeInv'
  <2>1. UNCHANGED <<client, erred, running, status, chunk, chunkData, book, count>>
    BY <1>3 DEF LoadModule
  <2>2. /\ pc' \in [Loops -> Positions] /\ failures' \in Nat
        /\ \A m \in Loops : pc'[m] \in Holding => chunk'[m] \in Chunks
    <3>1. \/ pc' = [pc EXCEPT ![l] = "spawn"] /\ failures' = failures
          \/ pc' = [pc EXCEPT ![l] = "dead"] /\ failures' \in Nat
      BY <1>3, <1>f DEF LoadModule, Goto
    <3> QED
      BY <3>1, <2>1, <1>t DEF Positions, Working, Holding
  <2>3. EngineOK'
    <3>1. CASE UNCHANGED <<workers, thread>>
      BY <2>1, <3>1 DEF EngineOK
    <3>2. CASE ~UNCHANGED <<workers, thread>>
      <4>1. /\ workers' = [s \in Slots |-> 0]
            /\ thread' = [t \in Threads |->
                            IF t[1] = l THEN [Idle EXCEPT !.state = "loading"] ELSE thread[t]]
        BY <1>3, <3>2 DEF LoadModule
      <4>2. [Idle EXCEPT !.state = "loading"] = [state |-> "loading", queue |-> << >>, handler |-> << >>]
        BY DEF Idle
      <4>3. << >> \in Seq(Tasks)
        OBVIOUS
      <4>4. [state |-> "loading", queue |-> << >>, handler |-> << >>] \in Machines
        BY <4>3 DEF Machines, Handlers
      <4> QED
        BY <2>1, <4>1, <4>2, <4>4 DEF EngineOK
    <3> QED
      BY <3>1, <3>2
  <2> QED
    BY <2>1, <2>2, <2>3, <1>t DEF WorkOK, LoopsOK, chunkData, count
<1>4. ASSUME NEW t \in Threads, ThreadReady(t) PROVE TypeInv'
  <2>1. UNCHANGED <<client, erred, running, status, chunk, chunkData, book, count>>
    BY <1>4 DEF ThreadReady
  <2>2. t[1] \in Loops /\ t[2] \in Slots
    BY DEF Threads
  <2>3. \/ /\ thread' = [thread EXCEPT ![t].state = "ready"]
           /\ workers' = [workers EXCEPT ![t[2]] = t[1]] /\ pc' = pc /\ failures' = failures
        \/ /\ thread' = [thread EXCEPT ![t].state = "dead"] /\ workers' = workers
           /\ (pc' = [pc EXCEPT ![t[1]] = "dead"] \/ pc' = pc) /\ failures' \in Nat
    BY <1>4, <1>f DEF ThreadReady, Goto
  <2>4. EngineOK'
    <3>a. PICK st \in {"ready", "dead"} : thread' = [thread EXCEPT ![t].state = st]
      BY <2>3
    <3>b. thread[t] \in Machines /\ [thread[t] EXCEPT !.state = st] \in Machines
      BY DEF EngineOK, Machines
    <3>1. thread' \in [Threads -> Machines]
      BY <3>a, <3>b DEF EngineOK
    <3>2. \A u \in Threads : thread'[u].queue = thread[u].queue /\ thread'[u].handler = thread[u].handler
      BY <3>a, <3>b DEF EngineOK, Machines
    <3>3. workers' \in [Slots -> Loops \cup {0}]
      BY <2>2, <2>3 DEF EngineOK
    <3> QED
      BY <2>1, <3>1, <3>2, <3>3 DEF EngineOK
  <2>5. LoopsOK'
    BY <2>1, <2>2, <2>3, <1>t DEF LoopsOK, count, Positions, Holding, Working
  <2> QED
    BY <2>1, <2>4, <2>5 DEF WorkOK, chunkData
<1>5. ASSUME NEW l \in Loops, ThreadsReady(l) PROVE TypeInv'
  <2>1. UNCHANGED <<client, erred, chunk, chunkData, book, count, failures>>
    BY <1>5 DEF ThreadsReady
  <2>2. pc' = [pc EXCEPT ![l] = IF running THEN "lease" ELSE "done"]
    BY <1>5 DEF ThreadsReady, Goto
  <2>3. EngineOK'
    <3>1. CASE running
      BY <1>5, <3>1 DEF ThreadsReady, EngineOK
    <3>2. CASE ~running
      BY <1>5, <3>2, StopTypes DEF ThreadsReady
    <3> QED
      BY <3>1, <3>2
  <2> QED
    BY <2>1, <2>2, <2>3, <1>t DEF LoopsOK, WorkOK, count, chunkData, Positions, Holding, Working
<1>6. ASSUME NEW t \in Threads, thread[t].queue # << >>, thread' = [thread EXCEPT ![t].queue = Tail(@)],
             UNCHANGED <<client, running, status, workers>>
      PROVE  EngineOK'
  <2>1. thread[t] \in Machines /\ thread[t].handler \in Chunks \X Nat
    BY <1>6 DEF EngineOK
  <2>2. Tail(thread[t].queue) \in Seq(Tasks)
    BY <1>6, <2>1 DEF Machines
  <2>3. thread' \in [Threads -> Machines]
    BY <1>6, <2>1, <2>2 DEF EngineOK, Machines
  <2>4. \A u \in Threads : /\ thread'[u].handler = thread[u].handler
                           /\ u # t => thread'[u].queue = thread[u].queue
    BY <1>6, <2>1 DEF EngineOK, Machines
  <2> QED
    BY <1>6, <2>1, <2>3, <2>4 DEF EngineOK
<1>7. ASSUME NEW t \in Threads, ThreadAnswers(t) PROVE TypeInv'
  <2> DEFINE task == Head(thread[t].queue)
             c == thread[t].handler[1]
  <2>1. /\ thread[t].queue # << >> /\ thread' = [thread EXCEPT ![t].queue = Tail(@)]
        /\ UNCHANGED <<client, erred, running, status, workers, pc, chunk, slices, commit, book, count, failures>>
        /\ \/ UNCHANGED <<leaves, resolved>>
           \/ /\ leaves' = [leaves EXCEPT ![c] = @ \cup {task.part}]
              /\ resolved' = [resolved EXCEPT ![c] = @ \cup {t[2]}]
    BY <1>7, Zenon DEF ThreadAnswers
  <2>2. thread[t].queue \in Seq(Tasks) /\ c \in Chunks /\ t[2] \in Slots
    BY <2>1 DEF EngineOK, Machines, Threads
  <2>3. task \in Tasks
    BY <2>1, <2>2
  <2>4. WorkOK'
    <3> DEFINE p == task.part
    <3>1. p \in Parts
      BY <2>3 DEF Tasks
    <3> HIDE DEF c, p
    <3>2. CASE UNCHANGED <<leaves, resolved>>
      BY <2>1, <3>2 DEF WorkOK
    <3>3. CASE /\ leaves' = [leaves EXCEPT ![c] = @ \cup {p}]
               /\ resolved' = [resolved EXCEPT ![c] = @ \cup {t[2]}]
      BY <2>1, <2>2, <3>1, <3>3 DEF WorkOK
    <3> QED
      BY <2>1, <3>2, <3>3 DEF p
  <2> QED
    BY <1>6, <2>1, <2>4, <1>t DEF LoopsOK, count
<1>8. ASSUME NEW t \in Threads, ThreadErrs(t) PROVE TypeInv'
  <2>1. /\ thread[t].queue # << >> /\ thread' = [thread EXCEPT ![t].queue = Tail(@)]
        /\ UNCHANGED <<client, running, status, workers, chunk, chunkData, book, count>>
        /\ erred' = TRUE /\ failures' \in Nat
    BY <1>8, <1>f DEF ThreadErrs
  <2>2. /\ pc' = [m \in Loops |-> pc'[m]]
        /\ \A m \in Loops : pc'[m] \in {pc[m], "sleep"}
    BY <1>8 DEF ThreadErrs
  <2>3. pc' \in [Loops -> Positions] /\ \A m \in Loops : pc'[m] \in Holding => chunk'[m] \in Chunks
    BY <2>1, <2>2, <1>t DEF Positions, Working, Holding
  <2> QED
    BY <1>6, <2>1, <2>3, <1>t DEF LoopsOK, WorkOK, count, chunkData
<1> QED
  BY <1>1, <1>2, <1>3, <1>4, <1>5, <1>7, <1>8 DEF Threading

\* A chunk is leased, and fanned out at once unless its origin is awaited first.
LEMMA LeasedIs ==
  ASSUME TypeInv, NEW l \in Loops, LeaseGranted(l)
  PROVE  /\ pc[l] = "lease"
         /\ UNCHANGED <<client, erred, running, status, workers, resolved, leaves, commit, count, failures>>
         /\ \E c \in Chunks :
              /\ book[c] = "open" /\ book' = [book EXCEPT ![c] = "leased"]
              /\ chunk' = [chunk EXCEPT ![l] = c]
              /\ \/ Web /\ ~Training /\ FanOut(l, c)
                 \/ /\ UNCHANGED <<thread, slices>>
                    /\ \E q \in {"origin", "eval"} : /\ pc' = [pc EXCEPT ![l] = q]
                                                     /\ Web => q = "origin"
<1>1. /\ pc[l] = "lease"
      /\ UNCHANGED <<client, erred, running, status, workers, resolved, leaves, commit, count, failures>>
  BY DEF LeaseGranted
<1>2. PICK c \in Chunks :
         /\ book[c] = "open" /\ book' = [book EXCEPT ![c] = "leased"]
         /\ chunk' = [chunk EXCEPT ![l] = c]
         /\ IF Web /\ ~Training THEN FanOut(l, c)
            ELSE Goto(l, After(l, "leased")) /\ UNCHANGED <<thread, slices>>
  BY DEF LeaseGranted
<1>3. CASE Web /\ ~Training
  BY <1>1, <1>2, <1>3
<1>4. CASE ~(Web /\ ~Training)
  <2>1. PICK q \in {"origin", "eval"} : q = After(l, "leased") /\ (Web => q = "origin")
    BY <1>4, AfterIs DEF TypeInv
  <2> QED
    BY <1>1, <1>2, <1>4, <2>1 DEF Goto
<1> QED
  BY <1>3, <1>4

LEMMA LoopTypes ==
  ASSUME TypeInv, NEW l \in Loops, Submit(l) \/ NativeEval(l) \/ LeaseGranted(l) \/ OriginState(l)
  PROVE  TypeInv'
<1>t. EngineOK /\ WorkOK /\ LoopsOK
  BY DEF TypeInv
<1>e. ASSUME UNCHANGED <<client, engine>> PROVE EngineOK'
  BY <1>t, <1>e DEF EngineOK, engine
<1>p. ASSUME NEW q \in {"origin", "eval", "submit", "sleep"}, pc' = [pc EXCEPT ![l] = q],
             NEW c \in Chunks, chunk' = [chunk EXCEPT ![l] = c]
      PROVE  /\ pc' \in [Loops -> Positions] /\ chunk' \in [Loops -> Chunks \cup {0}]
             /\ \A m \in Loops : pc'[m] \in Holding => chunk'[m] \in Chunks
  <2>1. q \in Positions
    BY DEF Positions, Working, Holding
  <2> QED
    BY <1>p, <1>t, <2>1 DEF LoopsOK
<1>1. CASE Submit(l)
  <2>1. /\ pc[l] = "eval" /\ commit' = [commit EXCEPT ![chunk[l]] = leaves[chunk[l]]]
        /\ pc' = [pc EXCEPT ![l] = "submit"]
        /\ UNCHANGED <<client, erred, engine, chunk, slices, resolved, leaves, book, count, failures>>
    BY <1>1 DEF Submit, Goto
  <2>2. chunk[l] \in Chunks /\ chunk' = [chunk EXCEPT ![l] = chunk[l]]
    BY <2>1, <1>t DEF LoopsOK, Holding
  <2>3. WorkOK'
    BY <2>1, <2>2, <1>t DEF WorkOK
  <2>4. LoopsOK'
    BY <2>1, <2>2, <1>p, <1>t DEF LoopsOK, count
  <2> QED
    BY <2>1, <2>3, <2>4, <1>e DEF TypeInv
<1>2. CASE NativeEval(l)
  <2>1. pc[l] = "eval" /\ chunk[l] \in Chunks
    BY <1>2, NativeIs
  <2>2. CASE Turn(l, "done")
    BY <2>2, TurnTypes
  <2>3. CASE Computed(l)
    <3> DEFINE c == chunk[l]
    <3>1. /\ slices' = [slices EXCEPT ![c] = [slots |-> {0}, of |-> 1]]
          /\ leaves' = [leaves EXCEPT ![c] = {Part(c, 0, 1)}]
          /\ resolved' = [resolved EXCEPT ![c] = {0}]
          /\ commit' = [commit EXCEPT ![c] = {Part(c, 0, 1)}]
          /\ pc' = [pc EXCEPT ![l] = "submit"]
          /\ UNCHANGED <<engine, failures, client, erred, chunk, book, count>>
      BY <2>3 DEF Computed
    <3>2. Cardinality(Slots) \in Nat \ {0} /\ 0 \in Slots
      BY SlotsAre
    <3>3. Part(c, 0, 1) \in Parts
      BY <2>1, <3>2 DEF Part, Parts
    <3>4. [slots |-> {0}, of |-> 1] \in [slots : SUBSET Slots, of : 0..Cardinality(Slots)]
      BY <3>2
    <3>5. WorkOK'
      BY <1>t, <2>1, <3>1, <3>2, <3>3, <3>4 DEF WorkOK
    <3>6. LoopsOK'
      <4>1. chunk' = [chunk EXCEPT ![l] = chunk[l]]
        BY <3>1, <1>t DEF LoopsOK
      <4> QED
        BY <2>1, <3>1, <4>1, <1>p, <1>t DEF LoopsOK, count
    <3> QED
      BY <3>1, <3>5, <3>6, <1>e DEF TypeInv
  <2> QED
    BY <1>2, <2>2, <2>3, NativeIs
<1>3. CASE LeaseGranted(l)
  <2>1. UNCHANGED <<client, erred, running, status, workers, resolved, leaves, commit, count, failures>>
    BY <1>3, LeasedIs
  <2>2. PICK c \in Chunks :
              /\ book' = [book EXCEPT ![c] = "leased"]
              /\ chunk' = [chunk EXCEPT ![l] = c]
              /\ \/ FanOut(l, c)
                 \/ /\ UNCHANGED <<thread, slices>>
                    /\ \E q \in {"origin", "eval"} : pc' = [pc EXCEPT ![l] = q]
    BY <1>3, LeasedIs
  <2>3. /\ EngineOK' /\ \E q \in {"origin", "eval", "sleep"} : pc' = [pc EXCEPT ![l] = q]
        /\ slices' \in [Chunks -> [slots : SUBSET Slots, of : 0..Cardinality(Slots)]]
    <3>1. CASE FanOut(l, c)
      BY <2>1, <3>1, FanOutTypes
    <3>2. CASE UNCHANGED <<thread, slices>> /\ \E q \in {"origin", "eval"} : pc' = [pc EXCEPT ![l] = q]
      BY <2>1, <3>2, <1>t DEF WorkOK, EngineOK
    <3> QED
      BY <2>2, <3>1, <3>2
  <2>4. LoopsOK'
    <3>1. book' \in [Chunks -> Books]
      BY <2>2, <1>t DEF LoopsOK, Books
    <3>2. /\ pc' \in [Loops -> Positions] /\ chunk' \in [Loops -> Chunks \cup {0}]
          /\ \A m \in Loops : pc'[m] \in Holding => chunk'[m] \in Chunks
      BY <2>2, <2>3, <1>p
    <3> QED
      BY <2>1, <3>1, <3>2, <1>t DEF LoopsOK, count
  <2> QED
    BY <2>1, <2>3, <2>4, <1>t DEF TypeInv, WorkOK
<1>4. CASE OriginState(l)
  <2>1. /\ UNCHANGED <<client, erred, chunk, resolved, leaves, commit, book, count>>
        /\ chunk[l] \in Chunks /\ chunk' = [chunk EXCEPT ![l] = chunk[l]]
    BY <1>4, <1>t, OriginIs DEF LoopsOK
  <2>2. CASE \E q \in Onward : Turn(l, q)
    BY <2>2, TurnTypes
  <2>3. CASE UNCHANGED <<running, status, workers, failures>> /\ FanOut(l, chunk[l])
    <3>1. /\ EngineOK' /\ \E q \in {"eval", "sleep"} : pc' = [pc EXCEPT ![l] = q]
          /\ slices' \in [Chunks -> [slots : SUBSET Slots, of : 0..Cardinality(Slots)]]
      BY <2>1, <2>3, FanOutTypes
    <3>2. LoopsOK'
      BY <2>1, <2>3, <3>1, <1>p, <1>t DEF LoopsOK, count
    <3> QED
      BY <2>1, <3>1, <3>2, <1>t DEF TypeInv, WorkOK
  <2>4. CASE UNCHANGED <<engine, slices, failures>> /\ pc' = [pc EXCEPT ![l] = "eval"]
    <3>1. LoopsOK'
      BY <2>1, <2>4, <1>p, <1>t DEF LoopsOK, count
    <3> QED
      BY <2>1, <2>4, <3>1, <1>e, <1>t DEF TypeInv, WorkOK
  <2> QED
    BY <1>4, <2>2, <2>3, <2>4, OriginIs
<1> QED
  BY <1>1, <1>2, <1>3, <1>4

\* The actions that are turns and nothing else.
Turning(l) == Retry(l) \/ LeaseDenied(l) \/ SubmitAnswered(l) \/ ChallengeAnswered(l) \/ DeliverAnswered(l)

LEMMA TurningIs ==
  ASSUME TypeInv, NEW l \in Loops, Turning(l)
  PROVE  \E q \in Onward \cup {"judge", "deliver"} : Turn(l, q)
<1>1. \E q : Turn(l, q)
  <2>1. CASE Retry(l)
    BY <2>1, RetryTurns
  <2>2. CASE LeaseDenied(l)
    BY <2>2, DeniedTurns
  <2>3. CASE SubmitAnswered(l)
    BY <2>3, SubmitTurns
  <2>4. CASE ChallengeAnswered(l)
    BY <2>4, JudgeTurns
  <2>5. CASE DeliverAnswered(l)
    BY <2>5, DeliveredTurns
  <2> QED
    BY <2>1, <2>2, <2>3, <2>4, <2>5 DEF Turning
<1>2. PICK q : Turn(l, q)
  BY <1>1
<1> QED
  BY <1>2 DEF Turn

LEMMA NextIs ==
  ASSUME [Next]_vars
  PROVE  \/ Threading
         \/ \E l \in Loops : Submit(l) \/ NativeEval(l) \/ LeaseGranted(l) \/ OriginState(l)
         \/ \E l \in Loops : Turning(l)
         \/ \E c \in Chunks : ChallengeExpires(c)
         \/ UNCHANGED vars
  BY DEF Next, Answer, Turning, Threading

LEMMA TypeStep ==
  ASSUME TypeInv, [Next]_vars
  PROVE  TypeInv'
<1>1. CASE Threading
  BY <1>1, EngineTypes
<1>2. CASE \E l \in Loops : Submit(l) \/ NativeEval(l) \/ LeaseGranted(l) \/ OriginState(l)
  BY <1>2, LoopTypes
<1>3. CASE \E l \in Loops : Turning(l)
  BY <1>3, TurningIs, TurnTypes
<1>4. CASE \E c \in Chunks : ChallengeExpires(c)
  <2>1. PICK c \in Chunks : ChallengeExpires(c)
    BY <1>4
  <2>2. book' \in [Chunks -> Books]
    BY <2>1 DEF ChallengeExpires, TypeInv, LoopsOK, Books
  <2> QED
    BY <2>1, <2>2 DEF ChallengeExpires, TypeInv, EngineOK, WorkOK, LoopsOK, engine, chunkData, count
<1>5. CASE UNCHANGED vars
  BY <1>5 DEF vars, TypeInv, EngineOK, WorkOK, LoopsOK, engine, chunkData, count
<1> QED
  BY <1>1, <1>2, <1>3, <1>4, <1>5, NextIs
-----------------------------------------------------------------------------
(***************************************************************************)
(* The session: what a step does to the counts and to each loop.           *)
(***************************************************************************)

\* The client stays what it is, and what has happened has happened.
LEMMA Counts ==
  ASSUME TypeInv, [Next]_vars
  PROVE  /\ client' = client /\ (erred => erred')
         /\ \/ starts' = starts
            \/ StartButton /\ starts' = starts + 1
         /\ stops' \in {stops, stops + 1} /\ failures' \in {failures, failures + 1}
<1>1. CASE Threading
  BY <1>1 DEF Threading, StartButton, StopButton, LoadModule, ThreadsReady, ThreadReady, ThreadAnswers,
     ThreadErrs, Fail, count
<1>2. ASSUME NEW l \in Loops, Submit(l) \/ NativeEval(l) \/ LeaseGranted(l) \/ OriginState(l)
      PROVE  /\ UNCHANGED <<client, erred, count>> /\ failures' \in {failures, failures + 1}
  BY <1>2 DEF Submit, NativeEval, LeaseGranted, OriginState, Fail
<1>3. CASE \E l \in Loops : Turning(l)
  BY <1>3, TurningIs DEF Turn, count
<1>4. CASE \E c \in Chunks : ChallengeExpires(c)
  BY <1>4 DEF ChallengeExpires, count
<1>5. CASE UNCHANGED vars
  BY <1>5 DEF vars, count
<1> QED
  BY <1>1, <1>2, <1>3, <1>4, <1>5, NextIs DEF count

\* What no step makes a loop do.
Moved(m) ==
    /\ pc[m] = "none" => pc'[m] = "none" \/ (StartButton /\ m = starts + 1)
    /\ pc'[m] = "none" => pc[m] = "none"
    /\ pc'[m] = "load" => pc[m] = "load" \/ (StartButton /\ Web /\ m = starts + 1)
    /\ pc'[m] = "spawn" => pc[m] \in {"load", "spawn"}
    /\ pc[m] # "lease" => chunk'[m] = chunk[m]

LEMMA Moves ==
  ASSUME TypeInv, NEW m \in Loops, [Next]_vars
  PROVE  Moved(m)
<1>t. pc \in [Loops -> Positions] /\ chunk \in [Loops -> Chunks \cup {0}]
  BY DEF TypeInv, LoopsOK
<1>1. CASE StartButton
  <2>1. \/ Web /\ pc' = [pc EXCEPT ![starts + 1] = "load"]
        \/ pc' = [pc EXCEPT ![starts + 1] = "lease"]
    BY <1>1 DEF StartButton, Goto
  <2> QED
    BY <1>1, <1>t, <2>1 DEF StartButton, Moved
<1>2. ASSUME NEW l \in Loops,
             NEW q \in {"spawn", "lease", "origin", "eval", "submit", "judge", "deliver", "sleep", "done", "dead"},
             pc' = [pc EXCEPT ![l] = q], pc[l] # "none", q = "spawn" => pc[l] = "load",
             chunk' = chunk \/ (\E c \in Chunks : pc[l] = "lease" /\ chunk' = [chunk EXCEPT ![l] = c])
      PROVE  Moved(m)
  BY <1>2, <1>t DEF Moved
<1>3. ASSUME pc'[m] = pc[m] \/ (pc[m] = "eval" /\ pc'[m] = "sleep"), chunk' = chunk
      PROVE  Moved(m)
  BY <1>3 DEF Moved
<1>4. CASE StopButton
  BY <1>3, <1>4 DEF StopButton
<1>5. ASSUME NEW l \in Loops, LoadModule(l)
      PROVE  Moved(m)
  <2>1. PICK q \in {"spawn", "dead"} : pc' = [pc EXCEPT ![l] = q] /\ pc[l] = "load" /\ chunk' = chunk
    BY <1>5 DEF LoadModule, Goto
  <2> QED
    BY <1>2, <2>1
<1>6. ASSUME NEW l \in Loops, ThreadsReady(l)
      PROVE  Moved(m)
  <2>1. PICK q \in {"lease", "done"} : pc' = [pc EXCEPT ![l] = q] /\ pc[l] = "spawn" /\ chunk' = chunk
    BY <1>6 DEF ThreadsReady, Goto
  <2> QED
    BY <1>2, <2>1
<1>7. ASSUME NEW t \in Threads, ThreadReady(t)
      PROVE  Moved(m)
  <2>1. /\ chunk' = chunk
        /\ pc' = pc \/ (\E l \in Loops : pc' = [pc EXCEPT ![l] = "dead"] /\ pc[l] = "spawn")
    BY <1>7 DEF ThreadReady, Goto, Threads
  <2>2. CASE pc' = pc
    BY <1>3, <2>1, <2>2
  <2>3. CASE \E l \in Loops : pc' = [pc EXCEPT ![l] = "dead"] /\ pc[l] = "spawn"
    BY <1>2, <2>1, <2>3
  <2> QED
    BY <2>1, <2>2, <2>3
<1>8. ASSUME NEW t \in Threads, ThreadAnswers(t) \/ ThreadErrs(t)
      PROVE  Moved(m)
  BY <1>3, <1>8, <1>t DEF ThreadAnswers, ThreadErrs
<1>9. ASSUME NEW l \in Loops, Submit(l) \/ NativeEval(l) \/ LeaseGranted(l) \/ OriginState(l)
      PROVE  Moved(m)
  <2>1. \E q \in {"origin", "eval", "submit", "sleep", "lease", "done", "dead", "judge", "deliver"} :
           /\ pc' = [pc EXCEPT ![l] = q]
           /\ pc[l] # "none"
           /\ chunk' = chunk \/ (\E c \in Chunks : pc[l] = "lease" /\ chunk' = [chunk EXCEPT ![l] = c])
    <3>1. CASE Submit(l)
      BY <3>1 DEF Submit, Goto
    <3>2. CASE NativeEval(l)
      BY <3>2, NativeIs DEF Computed, Turn, Goes
    <3>3. CASE LeaseGranted(l)
      BY <3>3, LeasedIs DEF FanOut, Goto
    <3>4. CASE OriginState(l)
      BY <3>4, OriginIs DEF FanOut, Goto, Turn, Goes, Onward
    <3> QED
      BY <1>9, <3>1, <3>2, <3>3, <3>4
  <2>2. PICK q \in {"origin", "eval", "submit", "sleep", "lease", "done", "dead", "judge", "deliver"} :
           /\ pc' = [pc EXCEPT ![l] = q]
           /\ pc[l] # "none"
           /\ chunk' = chunk \/ (\E c \in Chunks : pc[l] = "lease" /\ chunk' = [chunk EXCEPT ![l] = c])
    BY <2>1
  <2> QED
    BY <1>2, <2>2
<1>10. ASSUME NEW l \in Loops, Turning(l)
       PROVE  Moved(m)
  <2>1. PICK q \in Onward \cup {"judge", "deliver"} : Turn(l, q)
    BY <1>10, TurningIs
  <2>2. /\ pc' = [pc EXCEPT ![l] = q] /\ pc[l] # "none" /\ chunk' = chunk
        /\ q \in {"sleep", "lease", "done", "dead", "judge", "deliver"}
    BY <2>1 DEF Turn, Goes, Onward, Working, Holding
  <2> QED
    BY <1>2, <2>2
<1>11. CASE \E c \in Chunks : ChallengeExpires(c)
  BY <1>3, <1>11 DEF ChallengeExpires
<1>12. CASE UNCHANGED vars
  BY <1>3, <1>12 DEF vars
<1> QED
  BY <1>1, <1>4, <1>5, <1>6, <1>7, <1>8, <1>9, <1>10, <1>11, <1>12, NextIs DEF Threading

\* Nothing goes back to before its threads.
LEMMA EarlyBefore ==
  ASSUME TypeInv, SessionInv, [Next]_vars, NEW m \in Loops, pc'[m] \in Early
  PROVE  pc[m] \in Early
<1>1. Moved(m)
  BY Moves
<1>2. StartButton /\ m = starts + 1 => pc[m] = "none"
  BY DEF SessionInv, Unstarted, TypeInv, LoopsOK
<1> QED
  BY <1>1, <1>2 DEF Moved, Early

LEMMA UnstartedStep ==
  ASSUME TypeInv, SessionInv, [Next]_vars
  PROVE  Unstarted'
<1>1. starts \in Nat /\ Loops \subseteq Nat /\ client' = client
  BY Counts, SlotsAre DEF TypeInv, LoopsOK
<1>2. ASSUME NEW m \in Loops, m > starts' PROVE pc'[m] = "none" /\ chunk'[m] = 0
  <2>1. starts' = starts \/ (StartButton /\ starts' = starts + 1)
    BY Counts
  <2>2. StartButton => starts' = starts + 1
    BY DEF StartButton
  <2>3. m \in Nat /\ m > starts /\ ~(StartButton /\ m = starts + 1)
    BY <1>1, <1>2, <2>1, <2>2
  <2> QED
    BY <2>3, Moves DEF Moved, SessionInv, Unstarted
<1>3. ASSUME ~Web, NEW m \in Loops PROVE pc'[m] \notin {"load", "spawn"}
  BY <1>3, Moves DEF Moved, SessionInv, Unstarted
<1> QED
  BY <1>1, <1>2, <1>3 DEF Unstarted, Web

\* Only the threads of a page past its module change, and only they come into the array.
LEMMA UnspawnedIf ==
  ASSUME TypeInv, SessionInv, [Next]_vars,
         \A t \in Threads : thread'[t] = thread[t] \/ (Web /\ pc'[t[1]] \notin Early),
         \A s \in Slots : \/ workers'[s] \in {0, workers[s]}
                          \/ Web /\ workers'[s] \in Loops /\ pc'[workers'[s]] \notin Early
  PROVE  Unspawned'
<1>1. client' = client /\ Unspawned /\ EngineOK
  BY Counts DEF SessionInv, TypeInv
<1>2. ASSUME NEW t \in Threads, ~Web \/ pc'[t[1]] \in Early PROVE thread'[t] = Idle
  <2>1. ~Web \/ pc[t[1]] \in Early
    BY <1>2, EarlyBefore DEF Threads
  <2> QED
    BY <1>1, <1>2, <2>1 DEF Unspawned
<1>3. ASSUME NEW s \in Slots, workers'[s] # 0 PROVE Web /\ pc'[workers'[s]] \notin Early
  <2>1. CASE workers'[s] = workers[s]
    <3>1. workers[s] \in Loops /\ Web /\ pc[workers[s]] \notin Early
      BY <1>1, <1>3, <2>1 DEF EngineOK, Unspawned
    <3> QED
      BY <2>1, <3>1, EarlyBefore
  <2> QED
    BY <1>3, <2>1
<1> QED
  BY <1>1, <1>2, <1>3 DEF Unspawned, Web

LEMMA UnspawnedStep ==
  ASSUME TypeInv, SessionInv, [Next]_vars
  PROVE  Unspawned'
<1>u. Unspawned /\ EngineOK /\ LoopsOK /\ Unstarted
  BY DEF SessionInv, TypeInv
<1>s. ASSUME NEW idle, Stopped(idle) PROVE Unspawned'
  <2>1. ASSUME NEW t \in Threads, thread'[t] # thread[t] PROVE Web /\ pc'[t[1]] \notin Early
    <3>1. t[1] \in Loops /\ t[2] \in Slots /\ workers[t[2]] = t[1] /\ 0 \notin Loops
      BY <1>s, <2>1, SlotsAre DEF Stopped, Threads
    <3>2. Web /\ pc[t[1]] \notin Early
      BY <3>1, <1>u DEF Unspawned
    <3> QED
      BY <3>1, <3>2, EarlyBefore
  <2>2. \A s \in Slots : workers'[s] = 0
    BY <1>s DEF Stopped
  <2> QED
    BY <2>1, <2>2, UnspawnedIf
<1>w. ASSUME UNCHANGED <<workers, thread>> PROVE Unspawned'
  BY <1>w, UnspawnedIf
<1>t. ASSUME workers' = workers,
             \A t \in Threads : thread'[t] # thread[t] => Web /\ pc[t[1]] \notin Early
      PROVE  Unspawned'
  <2>1. ASSUME NEW t \in Threads, thread'[t] # thread[t] PROVE pc'[t[1]] \notin Early
    BY <1>t, <2>1, EarlyBefore DEF Threads
  <2> QED
    BY <1>t, <2>1, UnspawnedIf
<1>f. ASSUME NEW l, NEW c, FanOut(l, c), workers' = workers PROVE Unspawned'
  <2>1. ASSUME NEW t \in Threads, thread'[t] # thread[t] PROVE Web /\ pc[t[1]] \notin Early
    <3>1. t[1] \in Loops /\ t[2] \in Slots /\ workers[t[2]] = t[1] /\ 0 \notin Loops
      BY <1>f, <2>1, SlotsAre DEF FanOut, Threads
    <3> QED
      BY <3>1, <1>u DEF Unspawned
  <2> QED
    BY <1>f, <1>t, <2>1
<1>r. ASSUME NEW l \in Loops, NEW q, Turn(l, q) PROVE Unspawned'
  BY <1>r, <1>s, <1>w DEF Turn, Goes, engine
<1>1. CASE StartButton
  BY <1>1, <1>w DEF StartButton
<1>2. CASE StopButton
  BY <1>2, <1>s DEF StopButton
<1>3. ASSUME NEW l \in Loops, LoadModule(l) PROVE Unspawned'
  <2>1. CASE UNCHANGED <<workers, thread>>
    BY <2>1, <1>w
  <2>2. CASE ~UNCHANGED <<workers, thread>>
    <3>1. /\ pc[l] = "load" /\ workers' = [s \in Slots |-> 0] /\ pc' = [pc EXCEPT ![l] = "spawn"]
          /\ \A t \in Threads : t[1] # l => thread'[t] = thread[t]
      BY <1>3, <2>2 DEF LoadModule, Goto
    <3>2. Web /\ pc'[l] = "spawn"
      BY <3>1, <1>u DEF Unstarted, LoopsOK
    <3> QED
      BY <3>1, <3>2, UnspawnedIf DEF Early
  <2> QED
    BY <2>1, <2>2
<1>4. ASSUME NEW t \in Threads, ThreadReady(t) PROVE Unspawned'
  <2>1. t[1] \in Loops /\ t[2] \in Slots /\ Web /\ pc[t[1]] \notin Early
    BY <1>4, <1>u DEF ThreadReady, Threads, Unspawned, Idle
  <2>2. pc'[t[1]] \notin Early
    BY <2>1, EarlyBefore
  <2>3. \A u \in Threads : u # t => thread'[u] = thread[u]
    BY <1>4, <1>u DEF ThreadReady, EngineOK
  <2>4. \A s \in Slots : workers'[s] = workers[s] \/ workers'[s] = t[1]
    BY <1>4, <1>u DEF ThreadReady, EngineOK
  <2> QED
    BY <2>1, <2>2, <2>3, <2>4, UnspawnedIf
<1>5. ASSUME NEW l \in Loops, ThreadsReady(l) PROVE Unspawned'
  BY <1>5, <1>s, <1>w DEF ThreadsReady
<1>6. ASSUME NEW t \in Threads, ThreadAnswers(t) \/ ThreadErrs(t) PROVE Unspawned'
  <2>1. t[1] \in Loops /\ Web /\ pc[t[1]] \notin Early
    BY <1>6, <1>u DEF ThreadAnswers, ThreadErrs, Threads, Unspawned, Idle
  <2>2. (\A u \in Threads : u # t => thread'[u] = thread[u]) /\ workers' = workers
    BY <1>6, <1>u DEF ThreadAnswers, ThreadErrs, EngineOK
  <2> QED
    BY <2>1, <2>2, <1>t
<1>7. ASSUME NEW l \in Loops, Submit(l) \/ NativeEval(l) \/ LeaseGranted(l) \/ OriginState(l) PROVE Unspawned'
  <2>1. CASE Submit(l)
    BY <2>1, <1>w DEF Submit, engine
  <2>2. CASE NativeEval(l)
    BY <2>2, <1>w, <1>r, NativeIs DEF Computed, engine
  <2>3. CASE LeaseGranted(l)
    BY <2>3, <1>f, <1>w, LeasedIs
  <2>4. CASE OriginState(l)
    BY <2>4, <1>f, <1>w, <1>r, OriginIs DEF engine
  <2> QED
    BY <1>7, <2>1, <2>2, <2>3, <2>4
<1>8. CASE \E l \in Loops : Turning(l)
  BY <1>8, <1>r, TurningIs
<1>9. CASE \E c \in Chunks : ChallengeExpires(c)
  BY <1>9, <1>w DEF ChallengeExpires, engine
<1>10. CASE UNCHANGED vars
  BY <1>10, <1>w DEF vars, engine
<1> QED
  BY <1>1, <1>2, <1>3, <1>4, <1>5, <1>6, <1>7, <1>8, <1>9, <1>10, NextIs DEF Threading

\* A chunk is leased once: the book of no other chunk opens again.
LEMMA Leases ==
  ASSUME TypeInv, [Next]_vars
  PROVE  \/ chunk' = chunk /\ \A c \in Chunks : book'[c] = "open" => book[c] = "open"
         \/ \E l \in Loops : LeaseGranted(l)
<1>t. book \in [Chunks -> Books] /\ LoopsOK
  BY DEF TypeInv, LoopsOK
<1>r. ASSUME NEW l \in Loops, NEW q, Turn(l, q)
      PROVE  chunk' = chunk /\ \A c \in Chunks : book'[c] = "open" => book[c] = "open"
  BY <1>r, <1>t DEF Turn
<1>1. CASE Threading
  BY <1>1 DEF Threading, StartButton, StopButton, LoadModule, ThreadsReady, ThreadReady, ThreadAnswers, ThreadErrs
<1>2. ASSUME NEW l \in Loops, Submit(l) \/ NativeEval(l) \/ LeaseGranted(l) \/ OriginState(l)
      PROVE  \/ UNCHANGED <<chunk, book>>
             \/ \E m \in Loops : LeaseGranted(m)
  BY <1>2 DEF Submit, NativeEval, OriginState
<1>3. CASE \E l \in Loops : Turning(l)
  BY <1>3, <1>r, TurningIs
<1>4. CASE \E c \in Chunks : ChallengeExpires(c)
  BY <1>4, <1>t DEF ChallengeExpires
<1>5. CASE UNCHANGED vars
  BY <1>5 DEF vars
<1> QED
  BY <1>1, <1>2, <1>3, <1>4, <1>5, NextIs

LEMMA OneLoopEachStep ==
  ASSUME TypeInv, SessionInv, [Next]_vars
  PROVE  OneLoopEach'
<1>t. chunk \in [Loops -> Chunks \cup {0}] /\ book \in [Chunks -> Books] /\ OneLoopEach /\ 0 \notin Chunks
  BY SlotsAre DEF TypeInv, LoopsOK, SessionInv
<1>1. CASE chunk' = chunk /\ \A c \in Chunks : book'[c] = "open" => book[c] = "open"
  BY <1>1, <1>t DEF OneLoopEach
<1>2. ASSUME NEW l \in Loops, LeaseGranted(l) PROVE OneLoopEach'
  <2>1. PICK c \in Chunks : /\ book[c] = "open" /\ book' = [book EXCEPT ![c] = "leased"]
                            /\ chunk' = [chunk EXCEPT ![l] = c]
    BY <1>2, LeasedIs
  <2>2. \A m \in Loops : chunk[m] # c
    BY <1>t, <2>1 DEF OneLoopEach
  <2> QED
    BY <1>t, <2>1, <2>2 DEF OneLoopEach
<1> QED
  BY <1>1, <1>2, Leases

LEMMA SessionInit == Init => SessionInv
  BY SlotsAre DEF Init, SessionInv, Unstarted, Unspawned, OneLoopEach, Threads

LEMMA SessionStep ==
  ASSUME TypeInv, SessionInv, [Next]_vars
  PROVE  SessionInv'
  BY UnstartedStep, UnspawnedStep, OneLoopEachStep DEF SessionInv
-----------------------------------------------------------------------------
(***************************************************************************)
(* The array of one session's threads.                                     *)
(***************************************************************************)

\* With one start there is one loop at most.
LEMMA Alone ==
  ASSUME TypeInv, SessionInv, starts <= 1, NEW m \in Loops, m # 1
  PROVE  pc[m] = "none" /\ chunk[m] = 0
  BY SlotsAre DEF TypeInv, LoopsOK, SessionInv, Unstarted

\* Stopping kills what is in the array, and a thread on its way stays on it.
LEMMA StopArray ==
  ASSUME TypeInv, NEW idle, Stopped(idle), NEW l \in Loops, NEW s \in Slots, ArrayOf(l, s)
  PROVE  /\ running' = FALSE /\ workers'[s] = 0
         /\ pc[l] = "spawn" => thread'[<<l, s>>].state \in {"loading", "dead"}
         /\ \/ pc[l] \in Working \cup {"done"}
            \/ pc[l] = "spawn" /\ thread[<<l, s>>].state # "loading"
            => thread'[<<l, s>>].state = "dead"
<1>1. /\ running' = FALSE /\ workers'[s] = 0
      /\ thread'[<<l, s>>] = IF workers[s] = l THEN [Idle EXCEPT !.state = "dead"] ELSE thread[<<l, s>>]
  BY DEF Stopped, Threads
<1>2. [Idle EXCEPT !.state = "dead"].state = "dead"
  BY DEF Idle
<1>3. thread'[<<l, s>>].state = IF workers[s] = l THEN "dead" ELSE thread[<<l, s>>].state
  BY <1>1, <1>2
<1>4. l # 0
  BY SlotsAre
<1> QED
  BY <1>1, <1>3, <1>4 DEF ArrayOf

\* The array stays right while no thread comes to it or leaves it.
LEMMA SameArray ==
  ASSUME NEW l \in Loops, NEW s \in Slots, ArrayOf(l, s),
         UNCHANGED <<running, workers>>, thread'[<<l, s>>].state = thread[<<l, s>>].state,
         pc'[l] = pc[l] \/ {pc[l], pc'[l]} \subseteq Working
  PROVE  ArrayOf(l, s)'
<1>1. CASE pc'[l] = pc[l]
  BY <1>1 DEF ArrayOf
<1>2. CASE pc[l] \in Working /\ pc'[l] \in Working
  <2>1. pc'[l] # "spawn" /\ pc'[l] # "done"
    BY <1>2 DEF Working, Holding
  <2> QED
    BY <1>2, <2>1 DEF ArrayOf
<1> QED
  BY <1>1, <1>2

\* The fan-out leaves a thread in its state.
LEMMA FanOutStates ==
  ASSUME TypeInv, NEW l, NEW c, FanOut(l, c), NEW t \in Threads
  PROVE  thread'[t].state = thread[t].state
<1>1. CASE Present = {}
  BY <1>1 DEF FanOut
<1>2. CASE Present # {}
  <2> DEFINE task == [id |-> TaskId(t[2]), part |-> Part(c, t[2], Length)]
             h == <<c, TaskId(t[2])>>
  <2>1. thread'[t] = IF t[2] \in Present /\ workers[t[2]] = t[1]
                     THEN [thread[t] EXCEPT !.queue = Append(@, task), !.handler = h]
                     ELSE thread[t]
    BY <1>2 DEF FanOut
  <2>2. thread[t] \in Machines
    BY DEF TypeInv, EngineOK
  <2> HIDE DEF task, h
  <2> QED
    BY <2>1, <2>2 DEF Machines
<1> QED
  BY <1>1, <1>2

LEMMA ArrayStep ==
  ASSUME TypeInv, SessionInv, ArrayInv, [Next]_vars
  PROVE  ArrayInv'
<1> SUFFICES ASSUME Web, starts' <= 1, NEW l \in Loops, NEW s \in Slots
             PROVE  ArrayOf(l, s)'
  BY Counts DEF ArrayInv, Web
<1>t. TypeInv' /\ SessionInv' /\ pc \in [Loops -> Positions] /\ thread \in [Threads -> Machines] /\ starts \in Nat
      /\ workers \in [Slots -> Loops \cup {0}]
  BY TypeStep, SessionStep DEF TypeInv, LoopsOK, EngineOK
<1>a. starts <= 1 /\ ArrayOf(l, s)
  <2>1. starts <= 1
    BY <1>t, Counts
  <2> QED
    BY <2>1 DEF ArrayInv
<1>p. <<l, s>> \in Threads
  BY DEF Threads
<1>o. l # 0
  BY SlotsAre
<1>n. ASSUME pc'[l] \notin Working \cup {"spawn", "done"} PROVE ArrayOf(l, s)'
  BY <1>n DEF ArrayOf
<1>m. ASSUME l # 1 PROVE ArrayOf(l, s)'
  <2>1. pc'[l] = "none"
    BY <1>m, <1>t, SlotsAre DEF TypeInv, LoopsOK, SessionInv, Unstarted
  <2> QED
    BY <1>n, <2>1 DEF Working, Holding
<1>r. ASSUME NEW m \in Loops, NEW q, Turn(m, q) PROVE ArrayOf(l, s)'
  <2>1. pc[m] \in Working /\ pc' = [pc EXCEPT ![m] = q] /\ q # "dead"
    BY <1>r DEF Turn, Goes
  <2>2. CASE m # l
    BY <1>a, <1>m, <2>1, <2>2, Alone DEF Working, Holding
  <2>3. CASE m = l /\ q = "done"
    <3>1. PICK idle : Stopped(idle)
      BY <1>r, <2>3 DEF Turn, Goes
    <3>2. workers'[s] = 0 /\ thread'[<<l, s>>].state = "dead"
      BY <1>a, <2>1, <2>3, <3>1, StopArray
    <3>3. pc'[l] = "done"
      BY <1>t, <2>1, <2>3
    <3> QED
      BY <3>2, <3>3 DEF ArrayOf, Working, Holding
  <2>4. CASE m = l /\ q # "done"
    <3>1. UNCHANGED <<running, workers, thread>> /\ q \in Working
      BY <1>r, <2>1, <2>4 DEF Turn, Goes, engine, Onward, Working, Holding
    <3>2. pc'[l] = q
      BY <1>t, <2>1, <2>4
    <3> QED
      BY <1>a, <2>1, <2>4, <3>1, <3>2, SameArray
  <2> QED
    BY <2>2, <2>3, <2>4
<1>f. ASSUME NEW m \in Loops, NEW c, FanOut(m, c), UNCHANGED <<running, workers>>, pc[m] \in Working
      PROVE  ArrayOf(l, s)'
  <2>1. \E q \in {"sleep", "eval"} : pc' = [pc EXCEPT ![m] = q]
    BY <1>f DEF FanOut, Goto
  <2>2. pc'[l] = pc[l] \/ {pc[l], pc'[l]} \subseteq Working
    BY <1>t, <1>f, <2>1 DEF Working, Holding
  <2> QED
    BY <1>a, <1>f, <1>p, <2>2, FanOutStates, SameArray
<1>w. ASSUME UNCHANGED engine, NEW m \in Loops, NEW q \in Working, pc[m] \in Working, pc' = [pc EXCEPT ![m] = q]
      PROVE  ArrayOf(l, s)'
  <2>1. pc'[l] = pc[l] \/ {pc[l], pc'[l]} \subseteq Working
    BY <1>t, <1>w
  <2> QED
    BY <1>a, <1>w, <2>1, SameArray DEF engine
<1>1. CASE StartButton
  <2>1. pc' = [pc EXCEPT ![starts + 1] = "load"] /\ starts' = starts + 1
    BY <1>1 DEF StartButton, Goto
  <2>2. CASE l = 1
    <3>1. pc'[l] = "load"
      BY <1>t, <2>1, <2>2
    <3> QED
      BY <1>n, <3>1 DEF Working, Holding
  <2> QED
    BY <1>m, <2>2
<1>2. CASE StopButton
  <2>1. Stopped("idle") /\ pc' = pc
    BY <1>2 DEF StopButton
  <2>2. /\ running' = FALSE /\ workers'[s] = 0
        /\ pc[l] = "spawn" => thread'[<<l, s>>].state \in {"loading", "dead"}
        /\ pc[l] \in Working \cup {"done"} => thread'[<<l, s>>].state = "dead"
    BY <1>a, <2>1, StopArray
  <2> QED
    BY <2>1, <2>2 DEF ArrayOf
<1>3. ASSUME NEW m \in Loops, LoadModule(m) PROVE ArrayOf(l, s)'
  <2>1. CASE m # l
    BY <1>3, <1>a, <1>m, <2>1, Alone DEF LoadModule
  <2>2. CASE m = l /\ pc' = [pc EXCEPT ![m] = "dead"]
    <3>1. pc'[l] = "dead"
      BY <1>t, <2>2
    <3> QED
      BY <1>n, <3>1 DEF Working, Holding
  <2>3. CASE m = l /\ pc' # [pc EXCEPT ![m] = "dead"]
    <3>1. /\ workers' = [u \in Slots |-> 0]
          /\ thread' = [t \in Threads |->
                          IF t[1] = l THEN [Idle EXCEPT !.state = "loading"] ELSE thread[t]]
          /\ pc' = [pc EXCEPT ![l] = "spawn"]
      BY <1>3, <2>3 DEF LoadModule, Goto
    <3>2. [Idle EXCEPT !.state = "loading"].state = "loading"
      BY DEF Idle
    <3>3. thread'[<<l, s>>].state = "loading" /\ workers'[s] = 0 /\ pc'[l] = "spawn"
      BY <1>p, <1>t, <3>1, <3>2
    <3> QED
      BY <3>3 DEF ArrayOf, Working, Holding
  <2> QED
    BY <2>1, <2>2, <2>3
<1>4. ASSUME NEW t \in Threads, ThreadReady(t) PROVE ArrayOf(l, s)'
  <2>1. t[1] \in Loops /\ t[2] \in Slots /\ thread[t].state = "loading" /\ t = <<t[1], t[2]>>
        /\ running' = running
    BY <1>4 DEF ThreadReady, Threads
  <2>2. pc[t[1]] \notin Early
    BY <2>1 DEF SessionInv, Unspawned, Idle
  <2>3. t[1] = 1
    BY <1>a, <2>1, <2>2, Alone DEF Early
  <2>4. CASE l # 1
    BY <1>m, <2>4
  <2>5. CASE l = 1 /\ t[2] = s
    <3>1. t = <<l, s>>
      BY <2>1, <2>3, <2>5
    <3>2. pc[l] \in {"spawn", "dead"}
      BY <1>t, <1>a, <2>1, <2>2, <2>3, <2>5, <3>1 DEF ArrayOf, Positions, Early
    <3>3. \/ /\ thread'[t].state = "ready" /\ workers'[s] = l /\ pc' = pc
          \/ pc'[l] = "dead"
      BY <1>4, <1>t, <2>1, <2>3, <2>5, <3>1, <3>2 DEF ThreadReady, Goto, Machines
    <3>4. CASE pc'[l] = "dead"
      BY <1>n, <3>4 DEF Working, Holding
    <3>5. CASE thread'[t].state = "ready" /\ workers'[s] = l /\ pc' = pc
      BY <3>1, <3>2, <3>5 DEF ArrayOf, Working, Holding
    <3> QED
      BY <3>3, <3>4, <3>5
  <2>6. CASE l = 1 /\ t[2] # s
    <3>1. thread'[<<l, s>>] = thread[<<l, s>>] /\ workers'[s] = workers[s]
      BY <1>4, <1>t, <1>p, <2>1, <2>6 DEF ThreadReady
    <3>2. pc'[l] = pc[l] \/ pc'[l] = "dead"
      BY <1>4, <1>t, <2>1 DEF ThreadReady, Goto
    <3>3. CASE pc'[l] = "dead"
      BY <1>n, <3>3 DEF Working, Holding
    <3>4. CASE pc'[l] = pc[l]
      BY <1>a, <2>1, <3>1, <3>4 DEF ArrayOf
    <3> QED
      BY <3>2, <3>3, <3>4
  <2> QED
    BY <2>4, <2>5, <2>6
<1>5. ASSUME NEW m \in Loops, ThreadsReady(m) PROVE ArrayOf(l, s)'
  <2>1. pc[m] = "spawn" /\ pc' = [pc EXCEPT ![m] = IF running THEN "lease" ELSE "done"]
    BY <1>5 DEF ThreadsReady, Goto
  <2>2. CASE m # l
    BY <1>a, <1>m, <2>1, <2>2, Alone
  <2>3. CASE m = l /\ running
    <3>1. UNCHANGED <<running, workers, thread>> /\ pc'[l] = "lease" /\ thread[<<l, s>>].state # "loading"
      BY <1>5, <1>t, <2>1, <2>3 DEF ThreadsReady
    <3> QED
      BY <1>a, <2>1, <2>3, <3>1 DEF ArrayOf, Working, Holding
  <2>4. CASE m = l /\ ~running
    <3>1. Stopped("idle") /\ pc'[l] = "done" /\ thread[<<l, s>>].state # "loading"
      BY <1>5, <1>t, <2>1, <2>4 DEF ThreadsReady
    <3>2. workers'[s] = 0 /\ thread'[<<l, s>>].state = "dead"
      BY <1>a, <2>1, <2>4, <3>1, StopArray
    <3> QED
      BY <3>1, <3>2 DEF ArrayOf, Working, Holding
  <2> QED
    BY <2>2, <2>3, <2>4
<1>6. ASSUME NEW t \in Threads, ThreadAnswers(t) \/ ThreadErrs(t) PROVE ArrayOf(l, s)'
  <2>1. thread' = [thread EXCEPT ![t].queue = Tail(@)] /\ UNCHANGED <<running, workers>>
    BY <1>6 DEF ThreadAnswers, ThreadErrs
  <2>2. thread'[<<l, s>>].state = thread[<<l, s>>].state
    BY <1>t, <1>p, <2>1 DEF Machines
  <2>3. pc'[l] = pc[l] \/ (pc[l] = "eval" /\ pc'[l] = "sleep")
    BY <1>6 DEF ThreadAnswers, ThreadErrs
  <2>4. pc'[l] = pc[l] \/ {pc[l], pc'[l]} \subseteq Working
    BY <2>3 DEF Working, Holding
  <2> QED
    BY <1>a, <2>1, <2>2, <2>4, SameArray
<1>7. ASSUME NEW m \in Loops, Submit(m) \/ NativeEval(m) \/ LeaseGranted(m) \/ OriginState(m)
      PROVE  ArrayOf(l, s)'
  <2>1. CASE Submit(m)
    BY <2>1, <1>w DEF Submit, Goto, Working, Holding
  <2>2. CASE NativeEval(m)
    BY <2>2 DEF NativeEval
  <2>3. CASE LeaseGranted(m)
    <3>1. pc[m] \in Working /\ UNCHANGED <<running, workers, status>>
      BY <2>3, LeasedIs DEF Working
    <3>2. (\E c \in Chunks : FanOut(m, c)) \/ (thread' = thread /\ \E q \in {"origin", "eval"} : pc' = [pc EXCEPT ![m] = q])
      BY <2>3, LeasedIs
    <3>3. CASE \E c \in Chunks : FanOut(m, c)
      BY <1>f, <3>1, <3>3
    <3>4. CASE thread' = thread /\ \E q \in {"origin", "eval"} : pc' = [pc EXCEPT ![m] = q]
      BY <1>w, <3>1, <3>4 DEF engine, Working, Holding
    <3> QED
      BY <3>2, <3>3, <3>4
  <2>4. CASE OriginState(m)
    <3>1. pc[m] \in Working
      BY <2>4, OriginIs DEF Working, Holding
    <3> QED
      BY <2>4, <3>1, <1>f, <1>r, OriginIs
  <2> QED
    BY <1>7, <2>1, <2>2, <2>3, <2>4
<1>8. CASE \E m \in Loops : Turning(m)
  BY <1>8, <1>r, TurningIs
<1>9. CASE \E c \in Chunks : ChallengeExpires(c)
  BY <1>9, <1>a, SameArray DEF ChallengeExpires, engine
<1>10. CASE UNCHANGED vars
  BY <1>10, <1>a, SameArray DEF vars, engine
<1> QED
  BY <1>1, <1>2, <1>3, <1>4, <1>5, <1>6, <1>7, <1>8, <1>9, <1>10, NextIs DEF Threading

LEMMA ArrayInit == Init => ArrayInv
  BY DEF Init, ArrayInv, ArrayOf, Working, Holding
-----------------------------------------------------------------------------
(***************************************************************************)
(* The work: what is put under a root.                                     *)
(***************************************************************************)

\* What is on a chunk is what it was.
SameChunk(c) ==
    slices'[c] = slices[c] /\ resolved'[c] = resolved[c] /\ leaves'[c] = leaves[c] /\ commit'[c] = commit[c]

LEMMA SameWork ==
  ASSUME NEW m \in Loops, WorkAt(m), client' = client, chunk'[m] = chunk[m],
         pc'[m] \in Holding => SameChunk(chunk[m]),
         \/ pc'[m] = pc[m]
         \/ pc'[m] \notin Holding
         \/ {pc[m], pc'[m]} \subseteq {"submit", "judge", "deliver"}
  PROVE  WorkAt(m)'
<1>1. CASE pc'[m] \notin Holding
  BY <1>1 DEF WorkAt, Holding
<1>2. CASE pc'[m] \in Holding
  <2>1. SameChunk(chunk[m])
    BY <1>2
  <2> DEFINE c == chunk[m]
  <2>2. /\ Untouched(c) => Untouched(c)'
        /\ Sound(c) => Sound(c)'
        /\ Evaluating(c) => Evaluating(c)'
    BY <2>1 DEF SameChunk, Untouched, Sound, Whole, Evaluating, Part, Crew, Training
  <2>3. Web' = Web
    BY DEF Web
  <2>4. pc'[m] = pc[m] \/ (pc[m] \in {"submit", "judge", "deliver"} /\ pc'[m] \in {"submit", "judge", "deliver"})
    BY <1>2
  <2> QED
    BY <2>1, <2>2, <2>3, <2>4 DEF WorkAt, SameChunk
<1> QED
  BY <1>1, <1>2

\* A step that brings no work, where no thread's task is left without its loop.
LEMMA StillTidy ==
  ASSUME TypeInv, SessionInv, Tidy, client' = client, chunk' = chunk, UNCHANGED chunkData,
         \A c \in Chunks : book'[c] = "open" => book[c] = "open",
         \A t \in Threads : \/ thread'[t].queue = << >>
                            \/ thread'[t].queue = thread[t].queue /\ thread'[t].handler = thread[t].handler,
         \A m \in Loops : \/ pc'[m] = pc[m]
                          \/ pc'[m] \notin Holding /\ (pc[m] = "eval" => ~Web)
                          \/ {pc[m], pc'[m]} \subseteq {"submit", "judge", "deliver"}
  PROVE  Tidy'
<1>1. ASSUME NEW c PROVE SameChunk(c)
  BY DEF chunkData, SameChunk
<1>2. ASSUME NEW c \in Chunks
      PROVE  /\ book'[c] = "open" => Untouched(c)'
             /\ commit'[c] # {} => Sound(c)'
  BY DEF Tidy, Untouched, Sound, Whole, Part, chunkData
<1>3. ASSUME NEW m \in Loops PROVE WorkAt(m)'
  <2>1. WorkAt(m) /\ SameChunk(chunk[m])
    BY <1>1 DEF Tidy
  <2> QED
    BY <2>1, SameWork
<1>4. ASSUME NEW t \in Threads PROVE Queued(t)'
  <2> SUFFICES ASSUME thread'[t].queue # << >> PROVE Queued(t)'
    BY DEF Queued
  <2>1. t[1] \in Loops /\ thread'[t].queue = thread[t].queue /\ thread'[t].handler = thread[t].handler
    BY DEF Threads
  <2>2. Web
    BY <2>1 DEF SessionInv, Unspawned, Idle
  <2>3. pc[t[1]] = "eval"
    BY <2>1 DEF Tidy, Queued
  <2>4. pc'[t[1]] = "eval"
    BY <2>1, <2>2, <2>3
  <2>5. Queued(t)
    BY DEF Tidy
  <2>6. Crew' = Crew
    BY DEF Crew, Training
  <2> QED
    BY <2>1, <2>4, <2>5, <2>6 DEF Queued, Part, chunkData
<1> QED
  BY <1>2, <1>3, <1>4 DEF Tidy

\* A session's array holds its crew, or nothing.
LEMMA PresentIs ==
  ASSUME TypeInv, SessionInv, ArrayInv, Web, starts <= 1, NEW l \in Loops, pc[l] \in Working
  PROVE  /\ l = 1
         /\ Present \in {{}, Crew}
         /\ Present # {} => \A s \in Slots : workers[s] = l
<1>1. l = 1 /\ l # 0 /\ 0 \in Slots
  BY Alone, SlotsAre DEF Working, Holding
<1>2. \A s \in Slots : IF running THEN workers[s] = l ELSE workers[s] = 0
  BY DEF ArrayInv, ArrayOf
<1>3. CASE running
  BY <1>1, <1>2, <1>3 DEF Present, Crew
<1>4. CASE ~running
  BY <1>1, <1>2, <1>4 DEF Present, Crew
<1> QED
  BY <1>1, <1>3, <1>4

\* A thread with a task is one of the session's loop, which evaluates.
LEMMA BusyThread ==
  ASSUME TypeInv, SessionInv, Tidy, starts <= 1 \/ ~Web, NEW t \in Threads, thread[t].queue # << >>
  PROVE  /\ Web /\ starts <= 1 /\ 1 \in Loops /\ t[1] = 1 /\ t[2] \in Slots /\ t = <<1, t[2]>> /\ pc[1] = "eval"
         /\ Queued(t)
<1>1. t[1] \in Loops /\ t[2] \in Slots /\ t = <<t[1], t[2]>>
  BY DEF Threads
<1>2. Web
  BY DEF SessionInv, Unspawned, Idle
<1>3. Queued(t) /\ pc[t[1]] = "eval"
  BY DEF Tidy, Queued
<1>4. t[1] = 1
  BY <1>1, <1>2, <1>3, Alone
<1> QED
  BY <1>1, <1>2, <1>3, <1>4

\* A chunk is fanned out to the whole crew, or to nobody.
LEMMA FanOutTidy ==
  ASSUME TypeInv, SessionInv, ArrayInv, Tidy, Web, starts <= 1,
         NEW l \in Loops, pc[l] \in {"lease", "origin"}, NEW c \in Chunks, FanOut(l, c), Untouched(c),
         chunk' = [chunk EXCEPT ![l] = c], \A d \in Chunks : book'[d] = "open" => book[d] = "open",
         UNCHANGED <<client, running, status, workers, resolved, leaves, commit>>
  PROVE  Tidy'
<1>t. /\ pc \in [Loops -> Positions] /\ chunk \in [Loops -> Chunks \cup {0}]
      /\ slices \in [Chunks -> [slots : SUBSET Slots, of : 0..Cardinality(Slots)]]
      /\ thread \in [Threads -> Machines]
  BY DEF TypeInv, LoopsOK, WorkOK, EngineOK
<1>p. /\ l = 1
      /\ Present \in {{}, Crew}
      /\ Present # {} => \A s \in Slots : workers[s] = l
  BY PresentIs DEF Working, Holding
<1>l. chunk'[l] = c
  BY <1>t
<1>o. ASSUME NEW m \in Loops, m # l PROVE pc'[m] = "none" /\ pc[m] = "none"
  BY <1>o, <1>p, <1>t, Alone DEF FanOut, Goto
<1>q. ASSUME NEW t \in Threads PROVE thread[t].queue = << >> /\ t[1] \in Loops /\ t[2] \in Slots
  BY BusyThread, <1>p DEF Threads
<1>1. ASSUME NEW d \in Chunks, book'[d] = "open" PROVE Untouched(d)'
  BY <1>1 DEF Tidy, Untouched
<1>2. ASSUME NEW d \in Chunks, commit'[d] # {} PROVE Sound(d)'
  <2>1. d # c /\ commit[d] # {} /\ Sound(d)
    BY <1>2 DEF Untouched, Tidy
  <2>2. slices'[d] = slices[d]
    BY <2>1, <1>t DEF FanOut
  <2> QED
    BY <2>1, <2>2 DEF Sound, Whole, Part
<1>3. CASE Present = {}
  <2>1. pc'[l] = "sleep" /\ thread' = thread
    BY <1>3, <1>t DEF FanOut, Goto
  <2>2. \A m \in Loops : WorkAt(m)'
    BY <2>1, <1>o DEF WorkAt
  <2>3. \A t \in Threads : Queued(t)'
    BY <2>1, <1>q DEF Queued
  <2> QED
    BY <1>1, <1>2, <2>2, <2>3 DEF Tidy
<1>4. CASE Present # {}
  <2>1. /\ pc'[l] = "eval" /\ slices'[c] = [slots |-> Present, of |-> Length]
        /\ thread' = [t \in Threads |->
              IF t[2] \in Present /\ workers[t[2]] = t[1]
              THEN [thread[t] EXCEPT
                      !.queue = Append(@, [id |-> TaskId(t[2]), part |-> Part(c, t[2], Length)]),
                      !.handler = <<c, TaskId(t[2])>>]
              ELSE thread[t]]
    BY <1>4, <1>t DEF FanOut, Goto
  <2>2. Present = Crew /\ Crew = 0 .. Length - 1
    BY <1>4, <1>p, LengthIs
  <2>c. slices'[c].slots = Crew /\ slices'[c].of = Length
    <3> DEFINE cut == [slots |-> Present, of |-> Length]
    <3>1. slices'[c] = cut /\ cut.slots = Present /\ cut.of = Length
      BY <2>1
    <3> HIDE DEF cut
    <3> QED
      BY <3>1, <2>2
  <2>3. WorkAt(l)'
    <3>a. Crew' = Crew /\ resolved'[c] = {} /\ leaves'[c] = {}
      BY DEF Crew, Training, Untouched
    <3>1. Evaluating(c)'
      BY <2>2, <2>c, <3>a DEF Evaluating
    <3>2. commit'[c] = {}
      BY DEF Untouched
    <3> QED
      BY <1>l, <2>1, <3>1, <3>2 DEF WorkAt
  <2>4. \A m \in Loops : WorkAt(m)'
    BY <2>3, <1>o DEF WorkAt
  <2>5. ASSUME NEW t \in Threads PROVE Queued(t)'
    <3>1. CASE t[2] \in Present /\ workers[t[2]] = t[1]
      <4> DEFINE n == TaskId(t[2])
                 task == [id |-> n, part |-> Part(c, t[2], Length)]
      <4>1. t[1] = l
        BY <3>1, <1>p, <1>q
      <4>2. thread[t].queue = << >> /\ thread[t] \in Machines
        BY <1>q, <1>t
      <4>3. thread'[t] = [thread[t] EXCEPT !.queue = Append(@, task), !.handler = <<c, n>>]
        BY <2>1, <3>1
      <4> HIDE DEF task, n
      <4>4. thread'[t].queue = Append(thread[t].queue, task) /\ thread'[t].handler = <<c, n>>
        BY <4>2, <4>3 DEF Machines
      <4>5. thread'[t].queue = <<task>> /\ thread'[t].handler[1] = c /\ thread'[t].handler[2] = n
        BY <4>2, <4>4
      <4>6. task = [id |-> n, part |-> Part(c, t[2], slices'[c].of)]
        BY <2>c DEF task
      <4>7. t[2] \in Crew' \ resolved'[c]
        BY <3>1, <2>2 DEF Untouched, Crew, Training
      <4> QED
        BY <4>1, <4>5, <4>6, <4>7, <2>1, <1>l DEF Queued, Part
    <3>2. CASE ~(t[2] \in Present /\ workers[t[2]] = t[1])
      <4>1. thread'[t] = thread[t]
        BY <2>1, <3>2
      <4> QED
        BY <4>1, <1>q DEF Queued
    <3> QED
      BY <3>1, <3>2
  <2> QED
    BY <1>1, <1>2, <2>4, <2>5 DEF Tidy
<1> QED
  BY <1>3, <1>4

\* A lease without a fan-out: the origin comes first, or a native core computes.
LEMMA LeaseTidy ==
  ASSUME TypeInv, SessionInv, Tidy, starts <= 1 \/ ~Web,
         NEW l \in Loops, pc[l] = "lease", NEW c \in Chunks, Untouched(c), book[c] = "open",
         chunk' = [chunk EXCEPT ![l] = c], \A d \in Chunks : book'[d] = "open" => book[d] = "open",
         NEW q \in {"origin", "eval"}, pc' = [pc EXCEPT ![l] = q], Web => q = "origin",
         UNCHANGED <<client, thread, chunkData>>
  PROVE  Tidy'
<1>t. pc \in [Loops -> Positions] /\ chunk \in [Loops -> Chunks \cup {0}]
  BY DEF TypeInv, LoopsOK
<1>1. ASSUME NEW d \in Chunks
      PROVE  /\ book'[d] = "open" => Untouched(d)'
             /\ commit'[d] # {} => Sound(d)'
  BY DEF Tidy, Untouched, Sound, Whole, Part, chunkData
<1>2. ASSUME NEW m \in Loops, m # l PROVE WorkAt(m)'
  <2>1. pc'[m] = pc[m] /\ chunk'[m] = chunk[m] /\ WorkAt(m) /\ SameChunk(chunk[m])
    BY <1>2, <1>t DEF Tidy, SameChunk, chunkData
  <2> QED
    BY <2>1, SameWork
<1>3. WorkAt(l)'
  <2>1. chunk'[l] = c /\ pc'[l] = q /\ Web' = Web
    BY <1>t DEF Web
  <2>2. Untouched(c)' /\ commit'[c] = {}
    BY DEF Untouched, chunkData
  <2> QED
    BY <2>1, <2>2 DEF WorkAt
<1>4. ASSUME NEW t \in Threads PROVE Queued(t)'
  <2> SUFFICES ASSUME thread[t].queue # << >> PROVE Queued(t)'
    BY DEF Queued
  <2>1. t[1] = 1 /\ pc[1] = "eval" /\ Queued(t) /\ 1 \in Loops
    BY BusyThread
  <2>2. pc'[1] = pc[1] /\ chunk'[1] = chunk[1] /\ Crew' = Crew
    BY <2>1, <1>t DEF Crew, Training
  <2> QED
    BY <2>1, <2>2 DEF Queued, Part, chunkData
<1> QED
  BY <1>1, <1>2, <1>3, <1>4 DEF Tidy

\* A thread's answer brings the part its slot owes.
LEMMA AnswerTidy ==
  ASSUME TypeInv, SessionInv, Tidy, starts <= 1 \/ ~Web, NEW t \in Threads, ThreadAnswers(t)
  PROVE  Tidy'
<1>q. thread[t].queue # << >> /\ thread[t].handler \in Chunks \X Nat
  BY DEF ThreadAnswers, TypeInv, EngineOK
<1>c. PICK c \in Chunks : c = thread[t].handler[1]
  BY <1>q
<1> DEFINE task == Head(thread[t].queue)
<1>t. /\ thread \in [Threads -> Machines] /\ leaves \in [Chunks -> SUBSET Parts] /\ resolved \in [Chunks -> SUBSET Slots]
      /\ chunk \in [Loops -> Chunks \cup {0}]
  BY DEF TypeInv, EngineOK, WorkOK, LoopsOK
<1>1. /\ thread[t].queue # << >> /\ thread' = [thread EXCEPT ![t].queue = Tail(@)]
      /\ UNCHANGED <<client, erred, running, status, workers, pc, chunk, slices, commit, book, count, failures>>
  BY DEF ThreadAnswers
<1>2. Web /\ starts <= 1 /\ 1 \in Loops /\ t[1] = 1 /\ t[2] \in Slots /\ t = <<1, t[2]>> /\ pc[1] = "eval" /\ Queued(t)
  BY <1>1, BusyThread
<1>3. /\ c = chunk[1] /\ c \in Chunks /\ t[2] \in Crew \ resolved[c]
      /\ thread[t].queue = << [id |-> thread[t].handler[2], part |-> Part(c, t[2], slices[c].of)] >>
  BY <1>1, <1>2, <1>c DEF Queued
<1>4. /\ task.id = thread[t].handler[2] /\ task.part = Part(c, t[2], slices[c].of)
      /\ Tail(thread[t].queue) = << >>
  <2> DEFINE it == [id |-> thread[t].handler[2], part |-> Part(c, t[2], slices[c].of)]
  <2>1. it.id = thread[t].handler[2] /\ it.part = Part(c, t[2], slices[c].of)
    OBVIOUS
  <2> HIDE DEF it
  <2>2. thread[t].queue = <<it>>
    BY <1>3 DEF it
  <2>3. Head(<<it>>) = it /\ Tail(<<it>>) = << >>
    OBVIOUS
  <2> QED
    BY <2>1, <2>2, <2>3
<1>5. commit[c] = {} /\ Evaluating(c)
  BY <1>2, <1>3 DEF Tidy, WorkAt
<1>6. Training => resolved[c] = {}
  BY <1>3, <1>5 DEF Evaluating, Crew
<1>7. /\ leaves' = [leaves EXCEPT ![c] = @ \cup {Part(c, t[2], slices[c].of)}]
      /\ resolved' = [resolved EXCEPT ![c] = @ \cup {t[2]}]
  BY <1>c, <1>4, <1>6 DEF ThreadAnswers, Accepts
<1> HIDE DEF task
<1>8. /\ leaves'[c] = leaves[c] \cup {Part(c, t[2], slices[c].of)} /\ resolved'[c] = resolved[c] \cup {t[2]}
      /\ \A d \in Chunks : d # c => leaves'[d] = leaves[d] /\ resolved'[d] = resolved[d]
  BY <1>3, <1>7, <1>t
<1>9. Crew' = Crew /\ Web' = Web
  BY <1>1 DEF Crew, Training, Web
<1>10. ASSUME NEW d \in Chunks
       PROVE  /\ book'[d] = "open" => Untouched(d)'
              /\ commit'[d] # {} => Sound(d)'
  <2>1. book[c] # "open"
    BY <1>2, <1>3, SlotsAre DEF SessionInv, OneLoopEach
  <2> QED
    BY <2>1, <1>1, <1>8 DEF Tidy, Untouched, Sound, Whole, Part
<1>11. ASSUME NEW m \in Loops PROVE WorkAt(m)'
  <2>1. CASE m = 1
    <3>1. Evaluating(c)'
      <4>1. resolved'[c] \subseteq Crew
        BY <1>3, <1>5, <1>8 DEF Evaluating
      <4>2. leaves'[c] = {Part(c, s, slices[c].of) : s \in resolved'[c]}
        BY <1>5, <1>8 DEF Evaluating
      <4> QED
        BY <4>1, <4>2, <1>1, <1>5, <1>9 DEF Evaluating, Part
    <3> QED
      BY <3>1, <2>1, <1>1, <1>2, <1>3, <1>5 DEF WorkAt
  <2>2. CASE m # 1
    BY <2>2, <1>1, <1>2, Alone DEF WorkAt
  <2> QED
    BY <2>1, <2>2
<1>12. ASSUME NEW u \in Threads PROVE Queued(u)'
  <2>1. CASE u = t
    <3>1. thread'[t].queue = << >>
      BY <1>1, <1>4, <1>t DEF Machines
    <3> QED
      BY <2>1, <3>1 DEF Queued
  <2>2. CASE u # t
    <3>1. thread'[u] = thread[u]
      BY <1>1, <1>t, <2>2
    <3> SUFFICES ASSUME thread[u].queue # << >> PROVE Queued(u)'
      BY <3>1 DEF Queued
    <3>2. u[1] = 1 /\ u = <<1, u[2]>> /\ Queued(u) /\ pc[1] = "eval"
      BY BusyThread
    <3>3. u[2] # t[2]
      BY <2>2, <3>2, <1>2
    <3>4. u[2] \in Crew \ resolved'[c]
      BY <3>2, <3>3, <1>3, <1>8 DEF Queued
    <3> QED
      BY <3>1, <3>2, <3>4, <1>1, <1>3, <1>9 DEF Queued, Part
  <2> QED
    BY <2>1, <2>2
<1> QED
  BY <1>10, <1>11, <1>12 DEF Tidy

\* When every promise is in, what is there is the whole.
LEMMA SubmitTidy ==
  ASSUME TypeInv, SessionInv, Tidy, starts <= 1 \/ ~Web, NEW l \in Loops, Submit(l)
  PROVE  Tidy'
<1>c. PICK c \in Chunks : c = chunk[l]
  BY DEF TypeInv, LoopsOK, Submit, Holding
<1>t. commit \in [Chunks -> SUBSET Parts] /\ pc \in [Loops -> Positions]
  BY DEF TypeInv, WorkOK, LoopsOK
<1>1. /\ pc[l] = "eval" /\ Web /\ resolved[c] = slices[c].slots /\ starts <= 1
      /\ commit' = [commit EXCEPT ![c] = leaves[c]] /\ pc' = [pc EXCEPT ![l] = "submit"]
      /\ UNCHANGED <<client, erred, engine, chunk, slices, resolved, leaves, book, count, failures>>
  BY <1>c DEF Submit, Goto
<1>2. Evaluating(c) /\ l = 1
  BY <1>1, <1>c, Alone DEF Tidy, WorkAt
<1>3. leaves[c] = Whole(c)
  BY <1>1, <1>2 DEF Evaluating, Whole
<1>4. Sound(c)' /\ leaves'[c] = commit'[c]
  BY <1>1, <1>3, <1>t DEF Sound, Whole, Part
<1>5. ASSUME NEW d \in Chunks
      PROVE  /\ book'[d] = "open" => Untouched(d)'
             /\ commit'[d] # {} => Sound(d)'
  <2>1. book[c] # "open"
    BY <1>c, SlotsAre DEF SessionInv, OneLoopEach
  <2>2. CASE d = c
    BY <2>1, <2>2, <1>1, <1>4
  <2>3. CASE d # c
    BY <2>3, <1>1, <1>t DEF Tidy, Untouched, Sound, Whole, Part
  <2> QED
    BY <2>2, <2>3
<1>6. ASSUME NEW m \in Loops PROVE WorkAt(m)'
  <2>1. CASE m = l
    BY <2>1, <1>1, <1>4, <1>c, <1>t DEF WorkAt
  <2>2. CASE m # l
    BY <2>2, <1>1, <1>2, <1>t, Alone DEF WorkAt
  <2> QED
    BY <2>1, <2>2
<1>7. ASSUME NEW t \in Threads PROVE Queued(t)'
  <2>1. thread' = thread
    BY <1>1 DEF engine
  <2>2. thread[t].queue = << >>
    <3> SUFFICES ASSUME thread[t].queue # << >> PROVE FALSE
      OBVIOUS
    <3>1. t[1] = 1 /\ Queued(t)
      BY BusyThread
    <3>2. t[2] \in Crew \ resolved[c]
      BY <3>1, <1>2, <1>c DEF Queued
    <3> QED
      BY <3>2, <1>1, <1>2 DEF Evaluating
  <2> QED
    BY <2>1, <2>2 DEF Queued
<1> QED
  BY <1>5, <1>6, <1>7 DEF Tidy

\* A native core's one part is the whole.
LEMMA ComputedTidy ==
  ASSUME TypeInv, SessionInv, Tidy, ~Web, NEW l \in Loops, pc[l] = "eval", Computed(l)
  PROVE  Tidy'
<1>c. PICK c \in Chunks : c = chunk[l]
  BY DEF TypeInv, LoopsOK, Holding
<1>t. /\ commit \in [Chunks -> SUBSET Parts] /\ leaves \in [Chunks -> SUBSET Parts] /\ resolved \in [Chunks -> SUBSET Slots]
      /\ slices \in [Chunks -> [slots : SUBSET Slots, of : 0..Cardinality(Slots)]]
      /\ pc \in [Loops -> Positions]
  BY DEF TypeInv, WorkOK, LoopsOK
<1>1. /\ slices' = [slices EXCEPT ![c] = [slots |-> {0}, of |-> 1]]
      /\ leaves' = [leaves EXCEPT ![c] = {Part(c, 0, 1)}]
      /\ resolved' = [resolved EXCEPT ![c] = {0}]
      /\ commit' = [commit EXCEPT ![c] = {Part(c, 0, 1)}]
      /\ pc' = [pc EXCEPT ![l] = "submit"]
      /\ UNCHANGED <<engine, failures, client, erred, chunk, book, count>>
  BY <1>c DEF Computed
<1>2. \A d \in Chunks : d # c => SameChunk(d)
  BY <1>1, <1>t DEF SameChunk
<1>3. Sound(c)' /\ leaves'[c] = commit'[c]
  <2>1. slices'[c].of = 1 /\ commit'[c] = {Part(c, 0, 1)} /\ leaves'[c] = {Part(c, 0, 1)}
    BY <1>1, <1>t
  <2>2. {Part(c, k, 1) : k \in 0 .. 1 - 1} = {Part(c, 0, 1)}
    OBVIOUS
  <2>3. Whole(c)' = {Part(c, k, slices'[c].of) : k \in 0 .. slices'[c].of - 1}
    BY DEF Whole, Part
  <2> QED
    BY <2>1, <2>2, <2>3 DEF Sound
<1>4. ASSUME NEW d \in Chunks
      PROVE  /\ book'[d] = "open" => Untouched(d)'
             /\ commit'[d] # {} => Sound(d)'
  <2>1. book[c] # "open"
    BY <1>c, SlotsAre DEF SessionInv, OneLoopEach
  <2>2. CASE d = c
    BY <2>1, <2>2, <1>1, <1>3
  <2>3. CASE d # c
    BY <2>3, <1>1, <1>2 DEF Tidy, Untouched, Sound, Whole, Part, SameChunk
  <2> QED
    BY <2>2, <2>3
<1>5. ASSUME NEW m \in Loops PROVE WorkAt(m)'
  <2>1. CASE m = l
    BY <2>1, <1>1, <1>3, <1>c, <1>t DEF WorkAt
  <2>2. CASE m # l
    <3>1. pc'[m] = pc[m] /\ chunk'[m] = chunk[m] /\ WorkAt(m)
      BY <2>2, <1>1, <1>t DEF Tidy
    <3>2. pc'[m] \in Holding => SameChunk(chunk[m])
      BY <2>2, <3>1, <1>2, <1>c, <1>t, SlotsAre DEF SessionInv, OneLoopEach, TypeInv, LoopsOK
    <3> QED
      BY <3>1, <3>2, <1>1, SameWork
  <2> QED
    BY <2>1, <2>2
<1>6. ASSUME NEW t \in Threads PROVE Queued(t)'
  BY <1>1 DEF engine, Queued, SessionInv, Unspawned, Idle
<1> QED
  BY <1>4, <1>5, <1>6 DEF Tidy

LEMMA WorkStep ==
  ASSUME TypeInv, SessionInv, ArrayInv, WorkInv, [Next]_vars
  PROVE  WorkInv'
<1> SUFFICES ASSUME OneSession', ~erred' PROVE Tidy'
  BY DEF WorkInv
<1>t. /\ pc \in [Loops -> Positions] /\ chunk \in [Loops -> Chunks \cup {0}]
      /\ thread \in [Threads -> Machines] /\ starts \in Nat /\ client' = client
  BY Counts DEF TypeInv, LoopsOK, EngineOK
<1>a. (starts <= 1 \/ ~Web) /\ Tidy
  <2>1. starts <= 1 \/ ~Web
    BY <1>t, Counts DEF OneSession, Web
  <2>2. ~erred
    BY Counts
  <2> QED
    BY <2>1, <2>2 DEF WorkInv, OneSession
\* Stopping and loading drop tasks.
<1>s. ASSUME NEW idle, Stopped(idle), NEW t \in Threads
      PROVE  \/ thread'[t].queue = << >>
             \/ thread'[t].queue = thread[t].queue /\ thread'[t].handler = thread[t].handler
  <2>1. thread'[t] = thread[t] \/ thread'[t] = [Idle EXCEPT !.state = "dead"]
    BY <1>s DEF Stopped
  <2>2. [Idle EXCEPT !.state = "dead"].queue = << >>
    BY DEF Idle
  <2> QED
    BY <2>1, <2>2
<1>h. ASSUME UNCHANGED chunk, UNCHANGED chunkData,
             (\E idle : Stopped(idle)) \/ thread' = thread,
             \A c \in Chunks : book'[c] = "open" => book[c] = "open",
             \A m \in Loops : \/ pc'[m] = pc[m]
                              \/ pc'[m] \notin Holding /\ (pc[m] = "eval" => ~Web)
                              \/ {pc[m], pc'[m]} \subseteq {"submit", "judge", "deliver"}
      PROVE  Tidy'
  <2>1. \A t \in Threads : \/ thread'[t].queue = << >>
                           \/ thread'[t].queue = thread[t].queue /\ thread'[t].handler = thread[t].handler
    BY <1>h, <1>s
  <2> QED
    BY <1>a, <1>t, <1>h, <2>1, StillTidy
<1>r. ASSUME NEW m \in Loops, NEW q, Turn(m, q), pc[m] = "eval" => ~Web
      PROVE  Tidy'
  <2>1. /\ UNCHANGED chunk /\ UNCHANGED chunkData /\ pc' = [pc EXCEPT ![m] = q]
        /\ (\E idle : Stopped(idle)) \/ thread' = thread
        /\ q \notin Holding \/ {pc[m], q} \subseteq {"submit", "judge", "deliver"}
    BY <1>r DEF Turn, Goes, engine, Onward, Holding
  <2>2. \A c \in Chunks : book'[c] = "open" => book[c] = "open"
    BY <1>r DEF Turn, TypeInv, LoopsOK
  <2>3. \A n \in Loops : \/ pc'[n] = pc[n]
                         \/ pc'[n] \notin Holding /\ (pc[n] = "eval" => ~Web)
                         \/ {pc[n], pc'[n]} \subseteq {"submit", "judge", "deliver"}
    BY <1>r, <1>t, <2>1
  <2> QED
    BY <1>h, <2>1, <2>2, <2>3
<1>1. CASE StartButton
  <2>1. UNCHANGED <<chunk, chunkData, thread, book>> /\ starts + 1 \in Loops
        /\ \E q \in {"load", "lease"} : pc' = [pc EXCEPT ![starts + 1] = q]
    BY <1>1 DEF StartButton, Goto
  <2>2. pc[starts + 1] = "none"
    BY <1>t, <2>1 DEF SessionInv, Unstarted
  <2>3. \A n \in Loops : pc'[n] = pc[n] \/ (pc'[n] \notin Holding /\ pc[n] # "eval")
    BY <1>t, <2>1, <2>2 DEF Holding
  <2> QED
    BY <1>h, <2>1, <2>3
<1>2. CASE StopButton
  BY <1>2, <1>h DEF StopButton
<1>3. ASSUME NEW l \in Loops, LoadModule(l) PROVE Tidy'
  <2>1. /\ UNCHANGED chunk /\ UNCHANGED chunkData /\ UNCHANGED book /\ pc[l] = "load"
        /\ \E q \in {"spawn", "dead"} : pc' = [pc EXCEPT ![l] = q]
    BY <1>3 DEF LoadModule, Goto
  <2>2. \A n \in Loops : pc'[n] = pc[n] \/ (pc'[n] \notin Holding /\ pc[n] # "eval")
    BY <1>t, <2>1 DEF Holding
  <2>3. ASSUME NEW t \in Threads PROVE thread'[t].queue = << >> \/ thread'[t] = thread[t]
    <3>1. thread'[t] = thread[t] \/ thread'[t] = [Idle EXCEPT !.state = "loading"]
      BY <1>3 DEF LoadModule
    <3>2. [Idle EXCEPT !.state = "loading"].queue = << >>
      BY DEF Idle
    <3> QED
      BY <3>1, <3>2
  <2> QED
    BY <1>a, <1>t, <2>1, <2>2, <2>3, StillTidy
<1>4. ASSUME NEW t \in Threads, ThreadReady(t) PROVE Tidy'
  <2>1. /\ UNCHANGED chunk /\ UNCHANGED chunkData /\ UNCHANGED book
        /\ \E st \in {"ready", "dead"} : thread' = [thread EXCEPT ![t].state = st]
        /\ pc' = pc \/ (pc[t[1]] = "spawn" /\ pc' = [pc EXCEPT ![t[1]] = "dead"])
    BY <1>4 DEF ThreadReady, Goto
  <2>2. \A n \in Loops : pc'[n] = pc[n] \/ (pc'[n] \notin Holding /\ pc[n] # "eval")
    BY <1>t, <2>1 DEF Holding
  <2>3. \A u \in Threads : thread'[u].queue = thread[u].queue /\ thread'[u].handler = thread[u].handler
    <3>1. PICK st \in {"ready", "dead"} : thread' = [thread EXCEPT ![t].state = st]
      BY <2>1
    <3> QED
      BY <3>1, <1>t DEF Machines
  <2> QED
    BY <1>a, <1>t, <2>1, <2>2, <2>3, StillTidy
<1>5. ASSUME NEW l \in Loops, ThreadsReady(l) PROVE Tidy'
  <2>1. /\ UNCHANGED chunk /\ UNCHANGED chunkData /\ UNCHANGED book /\ pc[l] = "spawn"
        /\ (\E idle : Stopped(idle)) \/ thread' = thread
        /\ \E q \in {"lease", "done"} : pc' = [pc EXCEPT ![l] = q]
    BY <1>5 DEF ThreadsReady, Goto
  <2>2. \A n \in Loops : pc'[n] = pc[n] \/ (pc'[n] \notin Holding /\ pc[n] # "eval")
    BY <1>t, <2>1 DEF Holding
  <2> QED
    BY <1>h, <2>1, <2>2
<1>6. ASSUME NEW t \in Threads, ThreadAnswers(t) PROVE Tidy'
  BY <1>6, <1>a, AnswerTidy
<1>7. ASSUME NEW t \in Threads, ThreadErrs(t) PROVE Tidy'
  BY <1>7 DEF ThreadErrs
<1>8. ASSUME NEW l \in Loops, Submit(l) PROVE Tidy'
  BY <1>8, <1>a, SubmitTidy
<1>9. ASSUME NEW l \in Loops, NativeEval(l) PROVE Tidy'
  <2>1. pc[l] = "eval" /\ ~Web /\ (Computed(l) \/ Turn(l, "done"))
    BY <1>9, NativeIs
  <2> QED
    BY <2>1, <1>a, <1>r, ComputedTidy
<1>10. ASSUME NEW l \in Loops, LeaseGranted(l) PROVE Tidy'
  <2>1. /\ pc[l] = "lease"
        /\ UNCHANGED <<client, erred, running, status, workers, resolved, leaves, commit, count, failures>>
    BY <1>10, LeasedIs
  <2>2. PICK c \in Chunks :
              /\ book[c] = "open" /\ book' = [book EXCEPT ![c] = "leased"]
              /\ chunk' = [chunk EXCEPT ![l] = c]
              /\ \/ Web /\ ~Training /\ FanOut(l, c)
                 \/ /\ UNCHANGED <<thread, slices>>
                    /\ \E q \in {"origin", "eval"} : /\ pc' = [pc EXCEPT ![l] = q]
                                                     /\ Web => q = "origin"
    BY <1>10, LeasedIs
  <2>3. Untouched(c) /\ \A d \in Chunks : book'[d] = "open" => book[d] = "open"
    BY <1>a, <2>2 DEF Tidy, TypeInv, LoopsOK
  <2>4. CASE Web /\ FanOut(l, c)
    BY <1>a, <2>1, <2>2, <2>3, <2>4, FanOutTidy
  <2>5. CASE /\ UNCHANGED <<thread, slices>>
             /\ \E q \in {"origin", "eval"} : /\ pc' = [pc EXCEPT ![l] = q]
                                              /\ Web => q = "origin"
    <3>1. UNCHANGED <<client, thread, chunkData>>
      BY <2>1, <2>5 DEF chunkData
    <3> QED
      BY <1>a, <2>1, <2>2, <2>3, <2>5, <3>1, LeaseTidy
  <2> QED
    BY <2>2, <2>4, <2>5
<1>11. ASSUME NEW l \in Loops, OriginState(l) PROVE Tidy'
  <2>1. /\ pc[l] = "origin" /\ chunk[l] \in Chunks
        /\ UNCHANGED <<client, erred, chunk, resolved, leaves, commit, book, count>>
    BY <1>11, OriginIs
  <2>2. PICK c \in Chunks : c = chunk[l]
    BY <2>1
  <2>3. Untouched(c) /\ chunk' = [chunk EXCEPT ![l] = c]
    BY <1>a, <1>t, <2>1, <2>2 DEF Tidy, WorkAt
  <2>4. CASE Web /\ FanOut(l, c) /\ UNCHANGED <<running, status, workers, failures>>
    BY <1>a, <2>1, <2>3, <2>4, FanOutTidy
  <2>5. CASE ~Web /\ pc' = [pc EXCEPT ![l] = "eval"] /\ UNCHANGED <<engine, slices, failures>>
    <3>1. \A d \in Chunks : /\ book'[d] = "open" => Untouched(d)'
                            /\ commit'[d] # {} => Sound(d)'
      BY <1>a, <2>1, <2>5 DEF Tidy, Untouched, Sound, Whole, Part
    <3>2. ASSUME NEW m \in Loops PROVE WorkAt(m)'
      <4>1. CASE m = l
        BY <4>1, <1>t, <2>1, <2>2, <2>3, <2>5 DEF WorkAt, Untouched, Web
      <4>2. CASE m # l
        BY <4>2, <1>a, <1>t, <2>1, <2>5, SameWork DEF Tidy, SameChunk
      <4> QED
        BY <4>1, <4>2
    <3>3. ASSUME NEW t \in Threads PROVE Queued(t)'
      BY <2>5 DEF engine, Queued, SessionInv, Unspawned, Idle
    <3> QED
      BY <3>1, <3>2, <3>3 DEF Tidy
  <2>6. CASE \E q : Turn(l, q)
    BY <1>r, <2>1, <2>6
  <2> QED
    BY <1>11, <2>2, <2>4, <2>5, <2>6, OriginIs
<1>12. ASSUME NEW l \in Loops, Turning(l) PROVE Tidy'
  <2>1. pc[l] \in {"sleep", "lease", "submit", "judge", "deliver"}
    BY <1>12 DEF Turning, Retry, LeaseDenied, SubmitAnswered, ChallengeAnswered, DeliverAnswered
  <2> QED
    BY <1>12, <1>r, <2>1, TurningIs
<1>13. CASE \E c \in Chunks : ChallengeExpires(c)
  <2>1. \A c \in Chunks : book'[c] = "open" => book[c] = "open"
    BY <1>13 DEF ChallengeExpires, TypeInv, LoopsOK
  <2> QED
    BY <1>13, <1>h, <2>1 DEF ChallengeExpires, engine
<1>14. CASE UNCHANGED vars
  BY <1>14, <1>h DEF vars, engine
<1> QED
  BY <1>1, <1>2, <1>3, <1>4, <1>5, <1>6, <1>7, <1>8, <1>9, <1>10, <1>11, <1>12, <1>13, <1>14, NextIs DEF Threading

LEMMA WorkInit == Init => WorkInv
<1> SUFFICES ASSUME Init PROVE Tidy
  BY DEF WorkInv
<1>1. \A c \in Chunks : Untouched(c) /\ commit[c] = {}
  BY DEF Init, Untouched
<1>2. \A l \in Loops : WorkAt(l)
  BY DEF Init, WorkAt
<1>3. \A t \in Threads : Queued(t)
  BY DEF Init, Queued, Idle
<1> QED
  BY <1>1, <1>2, <1>3 DEF Tidy
-----------------------------------------------------------------------------
(***************************************************************************)
(* The bond, and the chunks that somebody is waiting for.                  *)
(***************************************************************************)

Owed == {"leased", "challenged", "awaiting"}

Answering(c) == book[c] = "challenged" => \E l \in Loops : chunk[l] = c /\ pc[l] = "judge"
Attended(c)  == book[c] \in Owed => \E l \in Loops : chunk[l] = c /\ pc[l] \in Holding

\* A session that was not stopped has all its threads in the array.
LEMMA AllPresent ==
  ASSUME TypeInv, SessionInv, ArrayInv, RunningInv, Web, starts <= 1, stops = 0,
         NEW l \in Loops, pc[l] \in Working
  PROVE  Present # {}
<1>1. running
  BY DEF RunningInv
<1>2. \A s \in Slots : workers[s] = l /\ 0 \in Slots /\ l # 0
  BY <1>1, SlotsAre DEF ArrayInv, ArrayOf
<1>3. 0 \in Slots
  BY SlotsAre
<1> QED
  BY <1>2, <1>3 DEF Present

LEMMA BookStep ==
  ASSUME IInv, [Next]_vars, OneSession, failures = 0, failures' = 0, NEW c \in Chunks
  PROVE  /\ book'[c] # "slashed" /\ Answering(c)'
         /\ stops' = 0 => Attended(c)'
<1>i. TypeInv /\ SessionInv /\ ArrayInv /\ RunningInv /\ Tidy /\ (starts <= 1 \/ ~Web)
  BY DEF IInv, WorkInv, BondInv, ShareInv, OneSession
<1>t. /\ pc \in [Loops -> Positions] /\ chunk \in [Loops -> Chunks \cup {0}] /\ book \in [Chunks -> Books]
      /\ stops \in Nat /\ \A m \in Loops : pc[m] \in Holding => chunk[m] \in Chunks
  BY <1>i DEF TypeInv, LoopsOK
<1>a. book[c] # "slashed" /\ Answering(c)
  BY DEF IInv, BondInv, Answering
<1>b. stops' = 0 => stops = 0 /\ Attended(c)
  <2>1. stops' = 0 => stops = 0
    BY <1>i, <1>t, Counts
  <2> QED
    BY <2>1 DEF IInv, ShareInv, AbandonsNothing, Attended, Holding, Owed
<1>f. ~Fail
  BY DEF Fail
\* Nothing about the chunk changes but the place of a loop that goes on with it.
<1>k. ASSUME book'[c] = book[c],
             \A m \in Loops : chunk[m] = c /\ pc[m] \in Holding =>
                /\ chunk'[m] = c
                /\ pc[m] = "judge" => pc'[m] = "judge"
                /\ stops' = 0 => pc'[m] \in Holding
      PROVE  /\ book'[c] # "slashed" /\ Answering(c)'
             /\ stops' = 0 => Attended(c)'
  BY <1>a, <1>b, <1>k DEF Answering, Attended, Holding
<1>m. ASSUME NEW l \in Loops, NEW q, pc' = [pc EXCEPT ![l] = q], chunk' = chunk, book'[c] = book[c],
             \/ pc[l] \notin Holding
             \/ chunk[l] # c
             \/ pc[l] # "judge" /\ (stops' = 0 => q \in Holding)
      PROVE  /\ book'[c] # "slashed" /\ Answering(c)'
             /\ stops' = 0 => Attended(c)'
  <2>1. \A m \in Loops : chunk[m] = c /\ pc[m] \in Holding =>
                /\ chunk'[m] = c
                /\ pc[m] = "judge" => pc'[m] = "judge"
                /\ stops' = 0 => pc'[m] \in Holding
    BY <1>m, <1>t DEF Holding
  <2> QED
    BY <1>k, <1>m, <2>1
\* The chunk's own book is written.
<1>w. ASSUME NEW l \in Loops, chunk'[l] = c, book'[c] # "slashed",
             book'[c] = "challenged" => pc'[l] = "judge",
             stops' = 0 /\ book'[c] \in Owed => pc'[l] \in Holding
      PROVE  /\ book'[c] # "slashed" /\ Answering(c)'
             /\ stops' = 0 => Attended(c)'
  BY <1>w DEF Answering, Attended
<1>1. CASE StartButton
  <2>1. /\ starts + 1 \in Loops /\ chunk' = chunk /\ book' = book
        /\ \E q : pc' = [pc EXCEPT ![starts + 1] = q]
    BY <1>1 DEF StartButton, Goto
  <2>2. pc[starts + 1] = "none" /\ "none" \notin Holding
    BY <1>i, <2>1 DEF SessionInv, Unstarted, Holding, TypeInv, LoopsOK
  <2> QED
    BY <1>m, <2>1, <2>2
<1>2. CASE StopButton
  BY <1>2, <1>k DEF StopButton
<1>3. ASSUME NEW l \in Loops, LoadModule(l) \/ ThreadsReady(l)
      PROVE  /\ book'[c] # "slashed" /\ Answering(c)'
             /\ stops' = 0 => Attended(c)'
  <2>1. /\ pc[l] \notin Holding /\ chunk' = chunk /\ book' = book
        /\ \E q : pc' = [pc EXCEPT ![l] = q]
    BY <1>3 DEF LoadModule, ThreadsReady, Goto, Holding
  <2> QED
    BY <1>m, <2>1
<1>4. ASSUME NEW t \in Threads, ThreadReady(t) \/ ThreadAnswers(t) \/ ThreadErrs(t)
      PROVE  /\ book'[c] # "slashed" /\ Answering(c)'
             /\ stops' = 0 => Attended(c)'
  BY <1>4, <1>f, <1>k DEF ThreadReady, ThreadAnswers, ThreadErrs
<1>5. ASSUME NEW l \in Loops, Submit(l)
      PROVE  /\ book'[c] # "slashed" /\ Answering(c)'
             /\ stops' = 0 => Attended(c)'
  BY <1>5, <1>m DEF Submit, Goto, Holding
<1>6. ASSUME NEW l \in Loops, NativeEval(l)
      PROVE  /\ book'[c] # "slashed" /\ Answering(c)'
             /\ stops' = 0 => Attended(c)'
  <2>1. pc[l] = "eval" /\ Computed(l)
    BY <1>6, <1>i, NativeIs
  <2> QED
    BY <1>m, <2>1 DEF Computed, Holding
<1>7. ASSUME NEW l \in Loops, LeaseGranted(l)
      PROVE  /\ book'[c] # "slashed" /\ Answering(c)'
             /\ stops' = 0 => Attended(c)'
  <2>1. pc[l] = "lease"
    BY <1>7, <1>i, LeasedIs
  <2>2. PICK d \in Chunks :
              /\ book[d] = "open" /\ book' = [book EXCEPT ![d] = "leased"]
              /\ chunk' = [chunk EXCEPT ![l] = d]
              /\ \/ Web /\ ~Training /\ FanOut(l, d)
                 \/ /\ UNCHANGED <<thread, slices>>
                    /\ \E q \in {"origin", "eval"} : /\ pc' = [pc EXCEPT ![l] = q]
                                                     /\ Web => q = "origin"
    BY <1>7, <1>i, LeasedIs
  <2>3. /\ \E q : pc' = [pc EXCEPT ![l] = q]
        /\ stops' = 0 => pc'[l] \in Holding
    <3>1. CASE Web /\ FanOut(l, d)
      <4>1. stops' = 0 => Present # {}
        BY <1>b, <1>i, <2>1, <3>1, AllPresent DEF Working
      <4> QED
        BY <1>t, <3>1, <4>1 DEF FanOut, Goto, Holding
    <3>2. CASE \E q \in {"origin", "eval"} : pc' = [pc EXCEPT ![l] = q]
      BY <1>t, <3>2 DEF Holding
    <3> QED
      BY <2>2, <3>1, <3>2
  <2>4. CASE c = d
    <3>1. chunk'[l] = c /\ book'[c] = "leased"
      BY <1>t, <2>2, <2>4
    <3> QED
      BY <1>w, <2>3, <3>1
  <2>5. CASE c # d
    <3>1. book'[c] = book[c]
      BY <1>t, <2>2, <2>5
    <3>2. ASSUME NEW m \in Loops, chunk[m] = c, pc[m] \in Holding
          PROVE  chunk'[m] = c /\ pc'[m] = pc[m]
      <4>1. m # l
        BY <3>2, <2>1 DEF Holding
      <4> QED
        BY <1>t, <2>2, <2>3, <3>2, <4>1
    <3> QED
      BY <1>k, <3>1, <3>2
  <2> QED
    BY <2>4, <2>5
<1>8. ASSUME NEW l \in Loops, OriginState(l)
      PROVE  /\ book'[c] # "slashed" /\ Answering(c)'
             /\ stops' = 0 => Attended(c)'
  <2>1. pc[l] = "origin" /\ chunk' = chunk /\ book' = book
    BY <1>8, <1>i, OriginIs
  <2>2. \/ Web /\ FanOut(l, chunk[l])
        \/ pc' = [pc EXCEPT ![l] = "eval"]
    BY <1>8, <1>i, OriginIs
  <2>3. \E q : pc' = [pc EXCEPT ![l] = q] /\ (stops' = 0 => q \in Holding)
    <3>1. CASE Web /\ FanOut(l, chunk[l])
      <4>1. stops' = 0 => Present # {}
        BY <1>b, <1>i, <2>1, <3>1, AllPresent DEF Working, Holding
      <4> QED
        BY <3>1, <4>1 DEF FanOut, Goto, Holding
    <3>2. CASE pc' = [pc EXCEPT ![l] = "eval"]
      BY <3>2 DEF Holding
    <3> QED
      BY <2>2, <3>1, <3>2
  <2> QED
    BY <1>m, <2>1, <2>3
<1>9. ASSUME NEW l \in Loops, SubmitAnswered(l) \/ ChallengeAnswered(l)
      PROVE  /\ book'[c] # "slashed" /\ Answering(c)'
             /\ stops' = 0 => Attended(c)'
  <2>1. pc[l] \in {"submit", "judge"} /\ chunk[l] \in Chunks
    BY <1>9, <1>i, SubmitTurns, JudgeTurns
  <2>2. Sound(chunk[l]) /\ leaves[chunk[l]] = commit[chunk[l]]
    BY <1>i, <2>1 DEF Tidy, WorkAt
  <2>3. PICK v \in {"accepted", "challenged"}, q \in Positions :
           /\ Turn(l, q)
           /\ book' = [book EXCEPT ![chunk[l]] = Booked(v)]
           /\ v = "challenged" => q = "judge"
           /\ v = "accepted" /\ Delivers => q = "deliver"
    <3>1. CASE SubmitAnswered(l)
      <4>1. PICK v \in {"accepted", "challenged", "rejected"}, q \in Positions :
              /\ Turn(l, q)
              /\ v = "rejected" => ~Sound(chunk[l])
              /\ failures' = failures => /\ book' = [book EXCEPT ![chunk[l]] = Booked(v)]
                                         /\ v = "challenged" => q = "judge"
                                         /\ v = "accepted" /\ Delivers => q = "deliver"
        BY <1>i, <3>1, SubmitTurns
      <4> QED
        BY <2>2, <4>1
    <3>2. CASE ChallengeAnswered(l)
      <4>1. PICK v \in {"accepted", "rejected"}, q \in Positions :
              /\ Turn(l, q)
              /\ v = "rejected" => ~(leaves[chunk[l]] = commit[chunk[l]] /\ Sound(chunk[l]))
              /\ failures' = failures => /\ book' = [book EXCEPT ![chunk[l]] = Booked(v)]
                                         /\ v = "accepted" /\ Delivers => q = "deliver"
        BY <1>i, <3>2, JudgeTurns
      <4> QED
        BY <2>2, <4>1
    <3> QED
      BY <1>9, <3>1, <3>2
  <2>4. pc' = [pc EXCEPT ![l] = q] /\ chunk' = chunk
    BY <2>3 DEF Turn, Goes
  <2>5. CASE chunk[l] = c
    <3>1. book'[c] = Booked(v) /\ pc'[l] = q /\ chunk'[l] = c
      BY <1>t, <2>3, <2>4, <2>5
    <3>2. CASE v = "challenged"
      BY <1>w, <2>3, <3>1, <3>2 DEF Booked, Holding
    <3>3. CASE v = "accepted" /\ Delivers
      BY <1>w, <2>3, <3>1, <3>3 DEF Booked, Passed, Holding
    <3>4. CASE v = "accepted" /\ ~Delivers
      BY <1>w, <2>3, <3>1, <3>4 DEF Booked, Passed, Owed
    <3> QED
      BY <2>3, <3>2, <3>3, <3>4
  <2>6. CASE chunk[l] # c
    <3>1. book'[c] = book[c]
      BY <1>t, <2>3, <2>6
    <3> QED
      BY <1>m, <2>4, <2>6, <3>1
  <2> QED
    BY <2>5, <2>6
<1>10. ASSUME NEW l \in Loops, DeliverAnswered(l)
       PROVE  /\ book'[c] # "slashed" /\ Answering(c)'
              /\ stops' = 0 => Attended(c)'
  <2>1. pc[l] = "deliver" /\ chunk[l] \in Chunks
    BY <1>10, <1>t DEF DeliverAnswered, Holding
  <2>2. Sound(chunk[l])
    BY <1>i, <2>1 DEF Tidy, WorkAt
  <2>3. PICK q \in Onward : Turn(l, q) /\ book' = [book EXCEPT ![chunk[l]] = "paid"]
    BY <1>10, <1>i, <2>2, DeliveredTurns
  <2>4. pc' = [pc EXCEPT ![l] = q] /\ chunk' = chunk
    BY <2>3 DEF Turn, Goes
  <2>5. CASE chunk[l] = c
    <3>1. book'[c] = "paid" /\ chunk'[l] = c
      BY <1>t, <2>3, <2>4, <2>5
    <3> QED
      BY <1>w, <3>1 DEF Owed
  <2>6. CASE chunk[l] # c
    <3>1. book'[c] = book[c]
      BY <1>t, <2>3, <2>6
    <3> QED
      BY <1>m, <2>4, <2>6, <3>1
  <2> QED
    BY <2>5, <2>6
<1>11. ASSUME NEW l \in Loops, Retry(l) \/ LeaseDenied(l)
       PROVE  /\ book'[c] # "slashed" /\ Answering(c)'
              /\ stops' = 0 => Attended(c)'
  <2>1. pc[l] \notin Holding
    BY <1>11 DEF Retry, LeaseDenied, Holding
  <2>2. book' = book /\ \E q : Turn(l, q)
    BY <1>11, <1>i, RetryTurns, DeniedTurns
  <2>3. PICK q : Turn(l, q)
    BY <2>2
  <2>4. pc' = [pc EXCEPT ![l] = q] /\ chunk' = chunk
    BY <2>3 DEF Turn, Goes
  <2> QED
    BY <1>m, <2>1, <2>2, <2>4
<1>12. ASSUME NEW d \in Chunks, ChallengeExpires(d)
       PROVE  /\ book'[c] # "slashed" /\ Answering(c)'
              /\ stops' = 0 => Attended(c)'
  <2>1. /\ book[d] = "challenged" /\ book' = [book EXCEPT ![d] = "slashed"] /\ pc' = pc /\ chunk' = chunk
        /\ \A l \in Loops : ~(chunk[l] = d /\ pc[l] = "judge")
    BY <1>12 DEF ChallengeExpires
  <2>2. c # d
    BY <1>a, <2>1 DEF Answering
  <2>3. book'[c] = book[c]
    BY <1>t, <2>1, <2>2
  <2> QED
    BY <1>k, <2>1, <2>3
<1>13. CASE UNCHANGED vars
  BY <1>13, <1>k DEF vars
<1> QED
  BY <1>1, <1>2, <1>3, <1>4, <1>5, <1>6, <1>7, <1>8, <1>9, <1>10, <1>11, <1>12, <1>13, NextIs DEF Threading, Turning

LEMMA BondStep ==
  ASSUME IInv, [Next]_vars
  PROVE  BondInv'
<1>t. failures \in Nat /\ starts \in Nat /\ TypeInv /\ BondInv
  BY DEF IInv, TypeInv, LoopsOK
<1>1. erred' => failures' > 0
  <2>1. CASE \E t \in Threads : ThreadErrs(t)
    BY <2>1, <1>t DEF ThreadErrs, Fail
  <2>2. CASE ~\E t \in Threads : ThreadErrs(t)
    <3>1. erred' = erred
      <4>1. CASE Threading
        BY <4>1, <2>2 DEF Threading, StartButton, StopButton, LoadModule, ThreadsReady, ThreadReady, ThreadAnswers
      <4>2. ASSUME NEW l \in Loops, Submit(l) \/ NativeEval(l) \/ LeaseGranted(l) \/ OriginState(l)
            PROVE  erred' = erred
        BY <4>2 DEF Submit, NativeEval, LeaseGranted, OriginState
      <4>3. CASE \E l \in Loops : Turning(l)
        BY <4>3, <1>t, TurningIs DEF Turn
      <4>4. CASE \E c \in Chunks : ChallengeExpires(c)
        BY <4>4 DEF ChallengeExpires
      <4>5. CASE UNCHANGED vars
        BY <4>5 DEF vars
      <4> QED
        BY <4>1, <4>2, <4>3, <4>4, <4>5, NextIs
    <3>2. failures' \in {failures, failures + 1}
      BY <1>t, Counts
    <3> QED
      BY <1>t, <3>1, <3>2 DEF BondInv
  <2> QED
    BY <2>1, <2>2
<1>2. ASSUME OneSession', failures' = 0, NEW c \in Chunks
      PROVE  /\ book'[c] # "slashed"
             /\ book'[c] = "challenged" => \E l \in Loops : chunk'[l] = c /\ pc'[l] = "judge"
  <2>1. OneSession /\ failures = 0
    BY <1>t, <1>2, Counts DEF OneSession, Web
  <2>2. Answering(c)' /\ book'[c] # "slashed"
    BY <1>2, <2>1, BookStep
  <2> QED
    BY <2>2 DEF Answering
<1> QED
  BY <1>1, <1>2 DEF BondInv

LEMMA RunningStep ==
  ASSUME IInv, [Next]_vars
  PROVE  RunningInv'
<1> DEFINE Going == {"load", "spawn"} \cup Working
<1>i. TypeInv /\ SessionInv /\ RunningInv
  BY DEF IInv, ShareInv
<1>t. pc \in [Loops -> Positions] /\ starts \in Nat /\ stops \in Nat
  BY <1>i DEF TypeInv, LoopsOK
<1> SUFFICES ASSUME Web, starts' <= 1, stops' = 0, NEW l \in Loops, pc'[l] \in Going PROVE running'
  BY Counts, <1>i DEF RunningInv, Web
<1>a. starts <= 1 /\ stops = 0
  BY <1>i, <1>t, Counts
<1>g. \A m \in Loops : pc[m] \in Going => running /\ m = 1
  BY <1>a, <1>i, Alone DEF RunningInv, Working, Holding
\* The loop goes on from a place where the page was running.
<1>k. ASSUME pc[l] \in Going, running' = running PROVE running'
  BY <1>g, <1>k
<1>m. ASSUME NEW m \in Loops, pc[m] \in Going, NEW q, pc' = [pc EXCEPT ![m] = q], running' = running PROVE running'
  BY <1>g, <1>m
<1>r. ASSUME NEW m \in Loops, NEW q, Turn(m, q) PROVE running'
  <2>1. pc[m] \in Going /\ pc' = [pc EXCEPT ![m] = q]
    BY <1>r DEF Turn, Goes
  <2>2. m = 1
    BY <1>g, <2>1
  <2>3. CASE q = "done"
    <3>1. l # m
      BY <1>t, <2>1, <2>3 DEF Working, Holding
    <3>2. pc[l] = "none" /\ pc'[l] = pc[l]
      BY <1>a, <1>i, <1>t, <2>1, <2>2, <3>1, Alone
    <3> QED
      BY <3>2 DEF Working, Holding
  <2>4. CASE q # "done"
    BY <1>m, <1>r, <2>1, <2>4 DEF Turn, Goes, engine
  <2> QED
    BY <2>3, <2>4
<1>1. CASE StartButton
  BY <1>1 DEF StartButton
<1>2. CASE StopButton
  BY <1>2, <1>t DEF StopButton
<1>3. ASSUME NEW m \in Loops, LoadModule(m) PROVE running'
  BY <1>3, <1>g DEF LoadModule
<1>4. ASSUME NEW t \in Threads, ThreadReady(t) \/ ThreadAnswers(t) \/ ThreadErrs(t) PROVE running'
  <2>1. running' = running /\ t[1] \in Loops
    BY <1>4 DEF ThreadReady, ThreadAnswers, ThreadErrs, Threads
  <2>2. pc'[l] = pc[l] \/ pc[l] \in Going
    BY <1>4, <1>t, <2>1 DEF ThreadReady, ThreadAnswers, ThreadErrs, Goto, Working, Holding
  <2> QED
    BY <1>k, <2>1, <2>2
<1>5. ASSUME NEW m \in Loops, ThreadsReady(m) PROVE running'
  BY <1>5, <1>g DEF ThreadsReady
<1>6. ASSUME NEW m \in Loops, Submit(m) \/ NativeEval(m) \/ LeaseGranted(m) \/ OriginState(m) PROVE running'
  <2>1. CASE Submit(m)
    BY <2>1, <1>g DEF Submit, engine, Working, Holding
  <2>2. CASE NativeEval(m)
    BY <2>2 DEF NativeEval
  <2>3. CASE LeaseGranted(m)
    BY <2>3, <1>g, <1>i, LeasedIs DEF Working
  <2>4. CASE OriginState(m)
    <3>1. running' = running \/ \E q : Turn(m, q)
      BY <2>4, <1>i, OriginIs DEF engine
    <3>2. pc[m] \in Going
      BY <2>4, <1>i, OriginIs DEF Working, Holding
    <3> QED
      BY <1>g, <1>r, <3>1, <3>2
  <2> QED
    BY <1>6, <2>1, <2>2, <2>3, <2>4
<1>7. CASE \E m \in Loops : Turning(m)
  BY <1>7, <1>i, <1>r, TurningIs
<1>8. CASE \E c \in Chunks : ChallengeExpires(c)
  BY <1>8, <1>k DEF ChallengeExpires, engine
<1>9. CASE UNCHANGED vars
  BY <1>9, <1>k DEF vars, engine
<1> QED
  BY <1>1, <1>2, <1>3, <1>4, <1>5, <1>6, <1>7, <1>8, <1>9, NextIs DEF Threading

LEMMA ShareStep ==
  ASSUME IInv, [Next]_vars
  PROVE  ShareInv'
<1>1. AbandonsNothing'
  <2> SUFFICES ASSUME OneSession', failures' = 0, stops' = 0, NEW c \in Chunks, book'[c] \in Owed
               PROVE  \E l \in Loops : chunk'[l] = c /\ pc'[l] \in Holding
    BY DEF AbandonsNothing, Owed, Holding
  <2>t. failures \in Nat /\ starts \in Nat /\ TypeInv
    BY DEF IInv, TypeInv, LoopsOK
  <2>1. OneSession /\ failures = 0
    BY <2>t, Counts DEF OneSession, Web
  <2>2. Attended(c)'
    BY <2>1, BookStep
  <2> QED
    BY <2>2 DEF Attended
<1> QED
  BY <1>1, RunningStep DEF ShareInv
-----------------------------------------------------------------------------
LEMMA Invariant == Spec => []IInv
<1>1. Init => IInv
  <2>1. Init => BondInv /\ ShareInv
    BY DEF Init, BondInv, ShareInv, RunningInv, AbandonsNothing, Working, Holding
  <2> QED
    BY <2>1, TypeInit, SessionInit, ArrayInit, WorkInit DEF IInv
<1>2. IInv /\ [Next]_vars => IInv'
  BY TypeStep, SessionStep, ArrayStep, WorkStep, BondStep, ShareStep DEF IInv
<1> QED
  BY <1>1, <1>2, PTL DEF Spec

\* The page, the desktop program and the three command-line programs keep their
\* variables typed: engine.ts, main.ts, index.ts, render.ts and train.ts.
THEOREM ClientTyped == Spec => []TypeOK
<1>1. IInv => TypeOK
  <2> SUFFICES ASSUME IInv PROVE TypeOK
    OBVIOUS
  <2>1. EngineOK /\ WorkOK /\ LoopsOK
    BY DEF IInv, TypeInv
  <2>2. \A t \in Threads : thread[t].state \in {"none", "loading", "ready", "dead"}
    BY <2>1 DEF EngineOK, Machines
  <2> QED
    BY <2>1, <2>2 DEF TypeOK, EngineOK, WorkOK, LoopsOK, Positions, Working, Holding, Books
<1> QED
  BY <1>1, Invariant, PTL

\* What a client signs is the whole of that chunk's own work (engine.ts:214-244,
\* the fold over the threads' answers), however many threads it has, with calls
\* lost and stops at any point, until it is started again or a task throws.
THEOREM WorkIsOwn == Spec => []OwnWork
<1>1. IInv => OwnWork
  BY DEF IInv, WorkInv, Tidy, OwnWork
<1> QED
  BY <1>1, Invariant, PTL

\* Until a call fails no bond of an honest client is lost: every challenge is
\* answered, and opened against the leaves it was committed to.
THEOREM BondIsKept == Spec => []KeepsBond
<1>1. IInv => KeepsBond
  BY DEF IInv, BondInv, KeepsBond
<1> QED
  BY <1>1, Invariant, PTL

\* A client that was neither stopped nor failed is at every chunk it leased, was
\* challenged on or has to deliver.
THEOREM NothingAbandoned == Spec => []AbandonsNothing
<1>1. IInv => AbandonsNothing
  BY DEF IInv, ShareInv
<1> QED
  BY <1>1, Invariant, PTL

\* When the session is over no thread of it computes, also when stop() came while
\* the threads were being created.
THEOREM ThreadsAreEnded == Spec => []ThreadsEnd
<1>1. IInv => ThreadsEnd
  <2> SUFFICES ASSUME IInv, OneSession, \A l \in Loops : pc[l] \in {"none", "done"}, NEW t \in Threads
               PROVE  thread[t].state \in {"none", "dead"}
    BY DEF ThreadsEnd
  <2>1. t[1] \in Loops /\ t[2] \in Slots /\ t = <<t[1], t[2]>>
    BY DEF Threads
  <2>2. CASE ~Web \/ pc[t[1]] = "none"
    BY <2>2 DEF IInv, SessionInv, Unspawned, Early, Idle
  <2>3. CASE Web /\ pc[t[1]] = "done"
    <3>1. ArrayOf(t[1], t[2])
      BY <2>1, <2>3 DEF IInv, ArrayInv, OneSession
    <3> QED
      BY <2>1, <2>3, <3>1 DEF ArrayOf
  <2> QED
    BY <2>1, <2>2, <2>3
<1> QED
  BY <1>1, Invariant, PTL
-----------------------------------------------------------------------------
\* A level has half as many nodes as the one below, one more if that is odd.
LEMMA AboveLen ==
  ASSUME NEW l, Len(l) \in Nat
  PROVE  Len(Above(l)) = HalfUp(Len(l))
<1> DEFINE m == HalfUp(Len(l))
<1>1. m \in Nat
  BY DEF HalfUp
<1>2. DOMAIN Above(l) = 1 .. m
  BY DEF Above
<1> HIDE DEF m
<1>3. Len(Above(l)) = m
  BY <1>1, <1>2
<1> QED
  BY <1>3 DEF m

\* The levels of a tree are what the recursion says.
LEMMA LevelsUnfold ==
  ASSUME NEW hashes, Len(hashes) \in Nat
  PROVE  \A h \in 0 .. Len(hashes) :
            Levels(hashes)[h] = IF h = 0 THEN hashes ELSE Above(Levels(hashes)[h - 1])
<1> DEFINE n == Len(hashes)
           Upto(f, k) == f = [h \in 0 .. k |-> IF h = 0 THEN hashes ELSE Above(f[h - 1])]
           S == {k \in 0 .. n : \E f : Upto(f, k)}
<1>0. n \in Nat
  OBVIOUS
<1>1. 0 \in S
  <2>1. Upto([h \in 0 .. 0 |-> hashes], 0)
    OBVIOUS
  <2>2. 0 \in 0 .. n
    BY <1>0
  <2> HIDE DEF Upto, n
  <2> QED
    BY <2>1, <2>2
<1>2. ASSUME NEW k \in 0 .. n - 1, k \in S PROVE k + 1 \in S
  <2>1. PICK f : Upto(f, k)
    BY <1>2
  <2> DEFINE g == [h \in 0 .. k + 1 |-> IF h = k + 1 THEN Above(f[k]) ELSE f[h]]
  <2>2. \A h \in 0 .. k : f[h] = IF h = 0 THEN hashes ELSE Above(f[h - 1])
    BY <2>1
  <2>3. \A h \in 0 .. k + 1 : g[h] = IF h = 0 THEN hashes ELSE Above(g[h - 1])
    <3> SUFFICES ASSUME NEW h \in 0 .. k + 1 PROVE g[h] = IF h = 0 THEN hashes ELSE Above(g[h - 1])
      OBVIOUS
    <3>1. CASE h = k + 1
      <4>1. g[h] = Above(f[k]) /\ g[h - 1] = f[k] /\ h # 0
        BY <3>1
      <4> QED
        BY <4>1
    <3>2. CASE h # k + 1
      <4>1. h \in 0 .. k /\ g[h] = f[h] /\ (h # 0 => g[h - 1] = f[h - 1])
        BY <3>2
      <4> QED
        BY <2>2, <4>1
    <3> QED
      BY <3>1, <3>2
  <2>4. Upto(g, k + 1)
    <3> DEFINE e == [h \in 0 .. k + 1 |-> IF h = 0 THEN hashes ELSE Above(g[h - 1])]
    <3>1. \A h \in 0 .. k + 1 : g[h] = e[h]
      BY <2>3
    <3> QED
      BY <3>1
  <2> HIDE DEF g, Upto
  <2> QED
    BY <1>2, <2>4
<1>3. n \in S
  <2> HIDE DEF S, n
  <2>1. \A k \in 0 .. n : k \in S
    BY <1>0, <1>1, <1>2, EveryTurn
  <2> QED
    BY <1>0, <2>1
<1>4. \E f : f = [h \in 0 .. Len(hashes) |-> IF h = 0 THEN hashes ELSE Above(f[h - 1])]
  BY <1>3
<1>5. Levels(hashes) = CHOOSE f : f = [h \in 0 .. Len(hashes) |-> IF h = 0 THEN hashes ELSE Above(f[h - 1])]
  BY DEF Levels
<1>6. Levels(hashes) = [h \in 0 .. Len(hashes) |-> IF h = 0 THEN hashes ELSE Above(Levels(hashes)[h - 1])]
  BY <1>4, <1>5
<1> QED
  BY <1>6
\* The turns of merkleProof's loop are what the recursion says.
LEMMA WalkUnfolds ==
  ASSUME NEW hashes, NEW index, Len(hashes) \in Nat
  PROVE  \A h \in 0 .. Len(hashes) :
            Walk(hashes, index)[h] = IF h = 0 THEN [i |-> index, proof |-> <<>>] ELSE Push(Walk(hashes, index)[h - 1], Levels(hashes)[h - 1])
<1> DEFINE n == Len(hashes)
           Upto(f, k) == f = [h \in 0 .. k |-> IF h = 0 THEN [i |-> index, proof |-> <<>>] ELSE Push(f[h - 1], Levels(hashes)[h - 1])]
           S == {k \in 0 .. n : \E f : Upto(f, k)}
<1>0. n \in Nat
  OBVIOUS
<1>1. 0 \in S
  <2>1. Upto([h \in 0 .. 0 |-> [i |-> index, proof |-> <<>>]], 0)
    OBVIOUS
  <2>2. 0 \in 0 .. n
    BY <1>0
  <2> HIDE DEF Upto, n
  <2> QED
    BY <2>1, <2>2
<1>2. ASSUME NEW k \in 0 .. n - 1, k \in S PROVE k + 1 \in S
  <2>1. PICK f : Upto(f, k)
    BY <1>2
  <2> DEFINE g == [h \in 0 .. k + 1 |-> IF h = k + 1 THEN Push(f[k], Levels(hashes)[k]) ELSE f[h]]
  <2>2. \A h \in 0 .. k : f[h] = IF h = 0 THEN [i |-> index, proof |-> <<>>] ELSE Push(f[h - 1], Levels(hashes)[h - 1])
    BY <2>1
  <2>3. \A h \in 0 .. k + 1 : g[h] = IF h = 0 THEN [i |-> index, proof |-> <<>>] ELSE Push(g[h - 1], Levels(hashes)[h - 1])
    <3> SUFFICES ASSUME NEW h \in 0 .. k + 1 PROVE g[h] = IF h = 0 THEN [i |-> index, proof |-> <<>>] ELSE Push(g[h - 1], Levels(hashes)[h - 1])
      OBVIOUS
    <3>1. CASE h = k + 1
      <4>1. g[h] = Push(f[k], Levels(hashes)[k]) /\ g[h - 1] = f[k] /\ h # 0 /\ h - 1 = k
        BY <3>1
      <4> QED
        BY <4>1
    <3>2. CASE h # k + 1
      <4>1. h \in 0 .. k /\ g[h] = f[h] /\ (h # 0 => g[h - 1] = f[h - 1])
        BY <3>2
      <4> QED
        BY <2>2, <4>1
    <3> QED
      BY <3>1, <3>2
  <2>4. Upto(g, k + 1)
    <3> DEFINE e == [h \in 0 .. k + 1 |-> IF h = 0 THEN [i |-> index, proof |-> <<>>] ELSE Push(g[h - 1], Levels(hashes)[h - 1])]
    <3>1. \A h \in 0 .. k + 1 : g[h] = e[h]
      BY <2>3
    <3> QED
      BY <3>1
  <2> HIDE DEF g, Upto
  <2> QED
    BY <1>2, <2>4
<1>3. n \in S
  <2> HIDE DEF S, n
  <2>1. \A k \in 0 .. n : k \in S
    BY <1>0, <1>1, <1>2, EveryTurn
  <2> QED
    BY <1>0, <2>1
<1>4. \E f : f = [h \in 0 .. Len(hashes) |-> IF h = 0 THEN [i |-> index, proof |-> <<>>] ELSE Push(f[h - 1], Levels(hashes)[h - 1])]
  BY <1>3
<1>5. Walk(hashes, index) = CHOOSE f : f = [h \in 0 .. Len(hashes) |-> IF h = 0 THEN [i |-> index, proof |-> <<>>] ELSE Push(f[h - 1], Levels(hashes)[h - 1])]
  BY DEF Walk
<1>6. Walk(hashes, index) = [h \in 0 .. Len(hashes) |-> IF h = 0 THEN [i |-> index, proof |-> <<>>] ELSE Push(Walk(hashes, index)[h - 1], Levels(hashes)[h - 1])]
  BY <1>4, <1>5
<1> QED
  BY <1>6
\* The turns of verifyProof's loop are what the recursion says.
LEMMA AscentUnfolds ==
  ASSUME NEW leaf, NEW proof, NEW size \in Nat
  PROVE  \A h \in 0 .. size :
            Ascent(leaf, proof, size)[h] = IF h = 0 THEN [i |-> leaf[2], width |-> size, hash |-> leaf, p |-> 0] ELSE Climb(Ascent(leaf, proof, size)[h - 1], proof)
<1> DEFINE n == size
           Upto(f, k) == f = [h \in 0 .. k |-> IF h = 0 THEN [i |-> leaf[2], width |-> size, hash |-> leaf, p |-> 0] ELSE Climb(f[h - 1], proof)]
           S == {k \in 0 .. n : \E f : Upto(f, k)}
<1>0. n \in Nat
  OBVIOUS
<1>1. 0 \in S
  <2>1. Upto([h \in 0 .. 0 |-> [i |-> leaf[2], width |-> size, hash |-> leaf, p |-> 0]], 0)
    OBVIOUS
  <2>2. 0 \in 0 .. n
    BY <1>0
  <2> HIDE DEF Upto, n
  <2> QED
    BY <2>1, <2>2
<1>2. ASSUME NEW k \in 0 .. n - 1, k \in S PROVE k + 1 \in S
  <2>1. PICK f : Upto(f, k)
    BY <1>2
  <2> DEFINE g == [h \in 0 .. k + 1 |-> IF h = k + 1 THEN Climb(f[k], proof) ELSE f[h]]
  <2>2. \A h \in 0 .. k : f[h] = IF h = 0 THEN [i |-> leaf[2], width |-> size, hash |-> leaf, p |-> 0] ELSE Climb(f[h - 1], proof)
    BY <2>1
  <2>3. \A h \in 0 .. k + 1 : g[h] = IF h = 0 THEN [i |-> leaf[2], width |-> size, hash |-> leaf, p |-> 0] ELSE Climb(g[h - 1], proof)
    <3> SUFFICES ASSUME NEW h \in 0 .. k + 1 PROVE g[h] = IF h = 0 THEN [i |-> leaf[2], width |-> size, hash |-> leaf, p |-> 0] ELSE Climb(g[h - 1], proof)
      OBVIOUS
    <3>1. CASE h = k + 1
      <4>1. g[h] = Climb(f[k], proof) /\ g[h - 1] = f[k] /\ h # 0
        BY <3>1
      <4> QED
        BY <4>1
    <3>2. CASE h # k + 1
      <4>1. h \in 0 .. k /\ g[h] = f[h] /\ (h # 0 => g[h - 1] = f[h - 1])
        BY <3>2
      <4> QED
        BY <2>2, <4>1
    <3> QED
      BY <3>1, <3>2
  <2>4. Upto(g, k + 1)
    <3> DEFINE e == [h \in 0 .. k + 1 |-> IF h = 0 THEN [i |-> leaf[2], width |-> size, hash |-> leaf, p |-> 0] ELSE Climb(g[h - 1], proof)]
    <3>1. \A h \in 0 .. k + 1 : g[h] = e[h]
      BY <2>3
    <3> QED
      BY <3>1
  <2> HIDE DEF g, Upto
  <2> QED
    BY <1>2, <2>4
<1>3. n \in S
  <2> HIDE DEF S, n
  <2>1. \A k \in 0 .. n : k \in S
    BY <1>0, <1>1, <1>2, EveryTurn
  <2> QED
    BY <1>0, <2>1
<1>4. \E f : f = [h \in 0 .. size |-> IF h = 0 THEN [i |-> leaf[2], width |-> size, hash |-> leaf, p |-> 0] ELSE Climb(f[h - 1], proof)]
  BY <1>3
<1>5. Ascent(leaf, proof, size) = CHOOSE f : f = [h \in 0 .. size |-> IF h = 0 THEN [i |-> leaf[2], width |-> size, hash |-> leaf, p |-> 0] ELSE Climb(f[h - 1], proof)]
  BY DEF Ascent
<1>6. Ascent(leaf, proof, size) = [h \in 0 .. size |-> IF h = 0 THEN [i |-> leaf[2], width |-> size, hash |-> leaf, p |-> 0] ELSE Climb(Ascent(leaf, proof, size)[h - 1], proof)]
  BY <1>4, <1>5
<1> QED
  BY <1>6

\* A position has a sibling in its level unless it is an odd tail or the root,
\* which are promoted; the node above is made of both.
LEMMA AboveAt ==
  ASSUME NEW l, NEW w \in Nat \ {0}, Len(l) = w, NEW i \in 0 .. w - 1
  PROVE  LET s == Sibling(i)
             tail == w = 1 \/ OddTail(i, w)
             up == Above(l)[Half(i) + 1]
         IN  /\ s < w <=> ~tail
             /\ ~tail => s \in 0 .. w - 1
             /\ tail => up = l[i + 1]
             /\ ~tail /\ i % 2 = 0 => up = Node(l[i + 1], l[s + 1])
             /\ ~tail /\ i % 2 # 0 => up = Node(l[s + 1], l[i + 1])
             /\ Half(i) \in 0 .. HalfUp(w) - 1
<1> DEFINE s == Sibling(i)
           k == Half(i) + 1
           tail == w = 1 \/ OddTail(i, w)
<1>1. k \in 1 .. HalfUp(w)
  BY DEF Half, HalfUp
<1>2. Above(l)[k] = IF 2 * k <= w THEN Node(l[2 * k - 1], l[2 * k]) ELSE l[w]
  BY <1>1 DEF Above
<1>3. s < w <=> ~tail
  BY DEF Sibling, OddTail
<1>4. ~tail => s \in 0 .. w - 1
  BY <1>3 DEF Sibling
<1>5. tail => ~(2 * k <= w) /\ w = i + 1
  BY DEF OddTail, Half
<1>6. ~tail /\ i % 2 = 0 => 2 * k <= w /\ 2 * k - 1 = i + 1 /\ 2 * k = s + 1
  BY DEF OddTail, Sibling, Half
<1>7. ~tail /\ i % 2 # 0 => 2 * k <= w /\ 2 * k - 1 = s + 1 /\ 2 * k = i + 1
  BY DEF OddTail, Sibling, Half
<1>8. Half(i) \in 0 .. HalfUp(w) - 1
  BY DEF Half, HalfUp
<1> HIDE DEF s, k, tail
<1>9. /\ tail => Above(l)[k] = l[i + 1]
      /\ ~tail /\ i % 2 = 0 => Above(l)[k] = Node(l[i + 1], l[s + 1])
      /\ ~tail /\ i % 2 # 0 => Above(l)[k] = Node(l[s + 1], l[i + 1])
  BY <1>2, <1>5, <1>6, <1>7
<1> QED
  BY <1>3, <1>4, <1>8, <1>9 DEF s, k, tail

\* Narrowing of the levels: halved, rounded up, and 1 at the end.
Narrows(n, L) ==
    /\ Len(L[0]) = n
    /\ \A h \in 0 .. n : Len(L[h]) \in Nat \ {0}
    /\ \A h \in 0 .. n - 1 : Len(L[h + 1]) = HalfUp(Len(L[h]))
    /\ Len(L[n]) = 1

\* Every level of a tree narrows to the next, down to the root.
LEMMA Narrowing ==
  ASSUME NEW n \in Nat, n # 0, NEW hashes, Len(hashes) = n
  PROVE  Narrows(n, Levels(hashes))
<1> DEFINE w(h) == Len(Levels(hashes)[h])
           S == {h \in 0 .. n : w(h) \in Nat \ {0} /\ (w(h) = 1 \/ w(h) <= n - h)}
<1>1. /\ Levels(hashes)[0] = hashes
      /\ \A h \in 0 .. n - 1 : Levels(hashes)[h + 1] = Above(Levels(hashes)[h])
  <2>1. \A h \in 0 .. n - 1 : h + 1 \in 0 .. n /\ h + 1 # 0 /\ (h + 1) - 1 = h
    OBVIOUS
  <2>2. 0 \in 0 .. n
    OBVIOUS
  <2> QED
    BY <2>1, <2>2, LevelsUnfold
<1>2. \A h \in 0 .. n - 1 : w(h) \in Nat => w(h + 1) = HalfUp(w(h))
  BY <1>1, AboveLen
<1>3. w(0) = n
  BY <1>1
<1> HIDE DEF w
<1>4. 0 \in S
  BY <1>3
<1>5. ASSUME NEW h \in 0 .. n - 1, h \in S PROVE h + 1 \in S
  <2>1. w(h) \in Nat \ {0} /\ (w(h) = 1 \/ w(h) <= n - h) /\ w(h + 1) = HalfUp(w(h))
    BY <1>2, <1>5
  <2> QED
    BY <2>1 DEF HalfUp
<1>6. \A h \in 0 .. n : h \in S
  <2> HIDE DEF S
  <2> QED
    BY <1>4, <1>5, EveryTurn
<1>7. /\ \A h \in 0 .. n : w(h) \in Nat \ {0}
      /\ w(n) = 1
  BY <1>6
<1>8. \A h \in 0 .. n - 1 : w(h + 1) = HalfUp(w(h))
  BY <1>2, <1>7
<1> QED
  BY <1>3, <1>7, <1>8 DEF w, Narrows

\* Where merkleProof's loop is in its level, and what it pushes.
Rises(n, index, L, x) ==
    /\ x[0].i = index /\ x[0].proof = << >>
    /\ \A h \in 0 .. n : x[h].i \in 0 .. Len(L[h]) - 1
    /\ \A h \in 0 .. n - 1 :
         /\ x[h + 1].i = Half(x[h].i)
         /\ x[h + 1].proof = IF Sibling(x[h].i) < Len(L[h])
                             THEN Append(x[h].proof, L[h][Sibling(x[h].i) + 1]) ELSE x[h].proof

\* It stays within its level.
LEMMA Rising ==
  ASSUME NEW n \in Nat, n # 0, NEW hashes, Len(hashes) = n, NEW index \in 0 .. n - 1
  PROVE  Rises(n, index, Levels(hashes), Walk(hashes, index))
<1> DEFINE L == Levels(hashes)
           x == Walk(hashes, index)
           S == {h \in 0 .. n : x[h].i \in 0 .. Len(L[h]) - 1}
<1>1. /\ x[0] = [i |-> index, proof |-> <<>>]
      /\ \A h \in 0 .. n - 1 : x[h + 1] = Push(x[h], L[h])
  <2>1. \A h \in 0 .. n - 1 : h + 1 \in 0 .. n /\ h + 1 # 0 /\ (h + 1) - 1 = h
    OBVIOUS
  <2>2. 0 \in 0 .. n
    OBVIOUS
  <2> QED
    BY <2>1, <2>2, WalkUnfolds
<1>2. /\ Len(L[0]) = n
      /\ \A h \in 0 .. n : Len(L[h]) \in Nat \ {0}
      /\ \A h \in 0 .. n - 1 : Len(L[h + 1]) = HalfUp(Len(L[h]))
  <2>1. Narrows(n, L)
    BY Narrowing
  <2> HIDE DEF L
  <2> QED
    BY <2>1 DEF Narrows
<1> HIDE DEF L, x
<1>3. \A h \in 0 .. n - 1 :
        /\ x[h + 1].i = Half(x[h].i)
        /\ x[h + 1].proof = IF Sibling(x[h].i) < Len(L[h])
                             THEN Append(x[h].proof, L[h][Sibling(x[h].i) + 1]) ELSE x[h].proof
  <2> SUFFICES ASSUME NEW h \in 0 .. n - 1
               PROVE  /\ x[h + 1].i = Half(x[h].i)
                      /\ x[h + 1].proof = IF Sibling(x[h].i) < Len(L[h])
                                          THEN Append(x[h].proof, L[h][Sibling(x[h].i) + 1]) ELSE x[h].proof
    OBVIOUS
  <2>1. x[h + 1] = Push(x[h], L[h])
    BY <1>1
  <2> QED
    BY <2>1 DEF Push
<1>4. 0 \in S
  BY <1>1, <1>2
<1>5. ASSUME NEW h \in 0 .. n - 1, h \in S PROVE h + 1 \in S
  <2> DEFINE w == Len(L[h])
             i == x[h].i
  <2>1. h \in 0 .. n /\ h + 1 \in 0 .. n
    OBVIOUS
  <2>2. w \in Nat \ {0} /\ Len(L[h + 1]) = HalfUp(w)
    BY <1>2, <2>1
  <2>3. i \in 0 .. w - 1
    BY <1>5
  <2>4. x[h + 1].i = Half(i)
    BY <1>3
  <2> HIDE DEF w, i
  <2>5. Half(i) \in 0 .. HalfUp(w) - 1
    BY <2>2, <2>3 DEF Half, HalfUp
  <2> QED
    BY <2>1, <2>2, <2>4, <2>5
<1>6. \A h \in 0 .. n : h \in S
  <2> HIDE DEF S
  <2> QED
    BY <1>4, <1>5, EveryTurn
<1> QED
  BY <1>1, <1>3, <1>6 DEF L, x, Rises

\* What the two loops do, level by level: own is the node on the way from a leaf
\* to the root and sib its sibling, at the levels that have one; q is what is
\* pushed on the way, hash and used are what verification makes of a proof.
Path(n, own, sib, pair, even) ==
    \A h \in 0 .. n - 1 :
        own[h + 1] = IF h \notin pair THEN own[h]
                     ELSE IF h \in even THEN Node(own[h], sib[h]) ELSE Node(sib[h], own[h])

Made(n, sib, pair, q) ==
    /\ q[0] = << >>
    /\ \A h \in 0 .. n - 1 : q[h + 1] = IF h \in pair THEN Append(q[h], sib[h]) ELSE q[h]

Climbed(n, leaf, proof, pair, even, hash, used) ==
    /\ hash[0] = leaf /\ used[0] = 0
    /\ \A h \in 0 .. n - 1 :
         /\ hash[h + 1] = IF h \notin pair THEN hash[h]
                          ELSE IF used[h] = Len(proof) THEN Missing
                          ELSE IF h \in even THEN Node(hash[h], proof[used[h] + 1])
                          ELSE Node(proof[used[h] + 1], hash[h])
         /\ used[h + 1] = IF h \notin pair \/ used[h] = Len(proof) THEN used[h] ELSE used[h] + 1

Drawn(n, sib, pair, T) == \A h \in 0 .. n - 1 : h \in pair => sib[h] \in T

\* Nodes are what they were made of, and never a hash that is missing.
LEMMA NodeTells ==
  ASSUME NEW a, NEW b, NEW c, NEW d
  PROVE  (Node(a, b) = Node(c, d) => a = c /\ b = d) /\ Node(a, b) # Missing
<1>1. Node(a, b) = Node(c, d) => a = c /\ b = d
  BY DEF Node
<1>2. Node(a, b) # Missing
  <2>1. Len(<<"node", a, b>>) = 3 /\ Len(<<"none">>) = 1
    OBVIOUS
  <2> QED
    BY <2>1 DEF Node, Missing
<1> QED
  BY <1>1, <1>2

\* What is pushed is a sequence of siblings.
LEMMA MadeTyped ==
  ASSUME NEW n \in Nat, NEW sib, NEW pair, NEW q, NEW T, Made(n, sib, pair, q), Drawn(n, sib, pair, T)
  PROVE  \A h \in 0 .. n : q[h] \in Seq(T)
<1> DEFINE S == {h \in 0 .. n : q[h] \in Seq(T)}
<1>1. 0 \in S
  <2>1. q[0] = << >>
    BY DEF Made
  <2>2. << >> \in Seq(T) /\ 0 \in 0 .. n
    OBVIOUS
  <2> QED
    BY <2>1, <2>2
<1>2. ASSUME NEW h \in 0 .. n - 1, h \in S PROVE h + 1 \in S
  <2>1. q[h + 1] = IF h \in pair THEN Append(q[h], sib[h]) ELSE q[h]
    BY DEF Made
  <2>2. q[h] \in Seq(T) /\ h + 1 \in 0 .. n
    BY <1>2
  <2>3. h \in pair => Append(q[h], sib[h]) \in Seq(T)
    BY <2>2 DEF Drawn
  <2> QED
    BY <2>1, <2>2, <2>3
<1> HIDE DEF S
<1>3. \A h \in 0 .. n : h \in S
  BY <1>1, <1>2, EveryTurn
<1> QED
  BY <1>3 DEF S

\* No node on the way is missing.
LEMMA OwnThere ==
  ASSUME NEW n \in Nat, NEW own, NEW sib, NEW pair, NEW even, Path(n, own, sib, pair, even), own[0] # Missing
  PROVE  \A h \in 0 .. n : own[h] # Missing
<1> DEFINE S == {h \in 0 .. n : own[h] # Missing}
<1>1. 0 \in S
  OBVIOUS
<1>2. ASSUME NEW h \in 0 .. n - 1, h \in S PROVE h + 1 \in S
  <2>1. own[h + 1] = IF h \notin pair THEN own[h]
                     ELSE IF h \in even THEN Node(own[h], sib[h]) ELSE Node(sib[h], own[h])
    BY DEF Path
  <2> QED
    BY <1>2, <2>1, NodeTells
<1> HIDE DEF S
<1>3. \A h \in 0 .. n : h \in S
  BY <1>1, <1>2, EveryTurn
<1> QED
  BY <1>3 DEF S

\* Of a proof no more is used than there is.
LEMMA UsedTyped ==
  ASSUME NEW n \in Nat, NEW leaf, NEW proof, Len(proof) \in Nat, NEW pair, NEW even, NEW hash, NEW used,
         Climbed(n, leaf, proof, pair, even, hash, used)
  PROVE  \A h \in 0 .. n : used[h] \in 0 .. Len(proof)
<1> DEFINE S == {h \in 0 .. n : used[h] \in 0 .. Len(proof)}
<1>1. 0 \in S
  BY DEF Climbed
<1>2. ASSUME NEW h \in 0 .. n - 1, h \in S PROVE h + 1 \in S
  <2>1. used[h + 1] = IF h \notin pair \/ used[h] = Len(proof) THEN used[h] ELSE used[h] + 1
    BY DEF Climbed
  <2> QED
    BY <1>2, <2>1
<1> HIDE DEF S
<1>3. \A h \in 0 .. n : h \in S
  BY <1>1, <1>2, EveryTurn
<1> QED
  BY <1>3 DEF S

\* How many siblings have been pushed, and which.
LEMMA MadeGrows ==
  ASSUME NEW n \in Nat, NEW sib, NEW pair, NEW q, NEW T, Made(n, sib, pair, q),
         Drawn(n, sib, pair, T)
  PROVE  \A h \in 0 .. n - 1 :
            /\ h \notin pair => q[h + 1] = q[h]
            /\ h \in pair => /\ Len(q[h + 1]) = Len(q[h]) + 1
                             /\ q[h + 1][Len(q[h]) + 1] = sib[h]
                             /\ \A j \in 1 .. Len(q[h]) : q[h + 1][j] = q[h][j]
            /\ Len(q[h]) \in Nat
<1> TAKE h \in 0 .. n - 1
<1>1. h \in 0 .. n
  OBVIOUS
<1>2. q[h] \in Seq(T)
  BY <1>1, MadeTyped
<1>3. q[h + 1] = IF h \in pair THEN Append(q[h], sib[h]) ELSE q[h]
  BY DEF Made
<1>4. Len(q[h]) \in Nat
  BY <1>2
<1>5. ASSUME h \in pair
      PROVE  /\ Len(q[h + 1]) = Len(q[h]) + 1
             /\ q[h + 1][Len(q[h]) + 1] = sib[h]
             /\ \A j \in 1 .. Len(q[h]) : q[h + 1][j] = q[h][j]
  <2>1. q[h + 1] = Append(q[h], sib[h]) /\ sib[h] \in T
    BY <1>3, <1>5 DEF Drawn
  <2> QED
    BY <1>2, <1>4, <2>1, AppendProperties
<1> QED
  BY <1>3, <1>4, <1>5

\* Verification uses as many hashes as were pushed, or one was missing.
LEMMA AllUsed ==
  ASSUME NEW n \in Nat, NEW sib, NEW pair, NEW even, NEW q, NEW T,
         NEW leaf, NEW proof \in Seq(T), NEW hash, NEW used,
         Made(n, sib, pair, q), Climbed(n, leaf, proof, pair, even, hash, used),
         Drawn(n, sib, pair, T)
  PROVE  used[n] = Len(q[n]) \/ hash[n] = Missing
<1> DEFINE S == {h \in 0 .. n : used[h] = Len(q[h]) \/ (hash[h] = Missing /\ used[h] = Len(proof))}
<1>g. \A h \in 0 .. n - 1 : /\ h \notin pair => q[h + 1] = q[h]
                            /\ h \in pair => Len(q[h + 1]) = Len(q[h]) + 1
  <2>1. \A h \in 0 .. n - 1 :
        /\ h \notin pair => q[h + 1] = q[h]
        /\ h \in pair => /\ Len(q[h + 1]) = Len(q[h]) + 1
                         /\ q[h + 1][Len(q[h]) + 1] = sib[h]
                         /\ \A j \in 1 .. Len(q[h]) : q[h + 1][j] = q[h][j]
        /\ Len(q[h]) \in Nat
    BY MadeGrows
  <2> QED
    BY <2>1
<1>1. 0 \in S
  <2>1. q[0] = << >> /\ used[0] = 0 /\ 0 \in 0 .. n
    BY DEF Made, Climbed
  <2> QED
    BY <2>1
<1>2. ASSUME NEW h \in 0 .. n - 1, h \in S PROVE h + 1 \in S
  <2>1. /\ hash[h + 1] = IF h \notin pair THEN hash[h]
                          ELSE IF used[h] = Len(proof) THEN Missing
                          ELSE IF h \in even THEN Node(hash[h], proof[used[h] + 1])
                          ELSE Node(proof[used[h] + 1], hash[h])
        /\ used[h + 1] = IF h \notin pair \/ used[h] = Len(proof) THEN used[h] ELSE used[h] + 1
    BY DEF Climbed
  <2>2. /\ h \notin pair => q[h + 1] = q[h]
        /\ h \in pair => Len(q[h + 1]) = Len(q[h]) + 1
    BY <1>g
  <2>3. h + 1 \in 0 .. n /\ (used[h] = Len(q[h]) \/ (hash[h] = Missing /\ used[h] = Len(proof)))
    BY <1>2
  <2> QED
    BY <2>1, <2>2, <2>3
<1> HIDE DEF S
<1>3. \A h \in 0 .. n : h \in S
  BY <1>1, <1>2, EveryTurn
<1> QED
  BY <1>3 DEF S

\* A proof that is accepted was made for the leaf that is there.
LEMMA OpensOne ==
  ASSUME NEW n \in Nat, NEW own, NEW sib, NEW pair, NEW even, NEW q, NEW T,
         NEW leaf, NEW proof \in Seq(T), NEW hash, NEW used,
         Path(n, own, sib, pair, even), Made(n, sib, pair, q),
         Climbed(n, leaf, proof, pair, even, hash, used),
         Drawn(n, sib, pair, T), own[0] # Missing,
         hash[n] = own[n], used[n] = Len(proof)
  PROVE  leaf = own[0] /\ proof = q[n]
<1>g. \A h \in 0 .. n - 1 :
        /\ h \notin pair => q[h + 1] = q[h]
        /\ h \in pair => /\ Len(q[h + 1]) = Len(q[h]) + 1
                         /\ q[h + 1][Len(q[h]) + 1] = sib[h]
                         /\ \A j \in 1 .. Len(q[h]) : q[h + 1][j] = q[h][j]
        /\ Len(q[h]) \in Nat
  BY MadeGrows
<1> DEFINE P(h) == hash[h] = own[h] /\ used[h] = Len(q[h])
           S == {k \in 0 .. n : P(n - k)}
<1>0. Len(proof) \in Nat
  OBVIOUS
<1>u. Len(q[n]) = Len(proof)
  <2>1. own[n] # Missing
    <3>1. \A h \in 0 .. n : own[h] # Missing
      BY OwnThere
    <3>2. n \in 0 .. n
      OBVIOUS
    <3> QED
      BY <3>1, <3>2
  <2>2. used[n] = Len(q[n]) \/ hash[n] = Missing
    BY AllUsed
  <2> QED
    BY <2>1, <2>2
<1>1. 0 \in S
  <2>1. P(n)
    BY <1>u
  <2>2. n - 0 = n
    OBVIOUS
  <2> HIDE DEF P
  <2> QED
    BY <2>1, <2>2
<1>2. ASSUME NEW h \in 0 .. n - 1, P(h + 1) PROVE P(h) /\ (h \in pair => proof[Len(q[h]) + 1] = sib[h] /\ Len(q[h]) < Len(proof))
  <2>1. /\ own[h + 1] = IF h \notin pair THEN own[h]
                        ELSE IF h \in even THEN Node(own[h], sib[h]) ELSE Node(sib[h], own[h])
        /\ hash[h + 1] = IF h \notin pair THEN hash[h]
                          ELSE IF used[h] = Len(proof) THEN Missing
                          ELSE IF h \in even THEN Node(hash[h], proof[used[h] + 1])
                          ELSE Node(proof[used[h] + 1], hash[h])
        /\ used[h + 1] = IF h \notin pair \/ used[h] = Len(proof) THEN used[h] ELSE used[h] + 1
    BY DEF Path, Climbed
  <2>2. own[h + 1] # Missing
    <3>1. h + 1 \in 0 .. n
      OBVIOUS
    <3> QED
      BY <3>1, OwnThere
  <2>3. used[h] \in 0 .. Len(proof)
    <3>1. h \in 0 .. n
      OBVIOUS
    <3> QED
      BY <1>0, <3>1, UsedTyped
  <2>4. /\ h \notin pair => q[h + 1] = q[h]
        /\ h \in pair => Len(q[h + 1]) = Len(q[h]) + 1
        /\ Len(q[h]) \in Nat
    BY <1>g
  <2>5. hash[h + 1] = own[h + 1] /\ used[h + 1] = Len(q[h + 1])
    BY <1>2
  <2>6. CASE h \notin pair
    BY <2>1, <2>4, <2>5, <2>6
  <2>7. CASE h \in pair
    <3>1. used[h] # Len(proof)
      BY <2>1, <2>2, <2>5, <2>7
    <3>2. used[h] = Len(q[h]) /\ Len(q[h]) < Len(proof)
      BY <1>0, <2>1, <2>3, <2>4, <2>5, <2>7, <3>1
    <3>3. CASE h \in even
      <4>1. Node(hash[h], proof[used[h] + 1]) = Node(own[h], sib[h])
        BY <2>1, <2>5, <2>7, <3>1, <3>3
      <4> QED
        BY <3>2, <4>1, NodeTells
    <3>4. CASE h \notin even
      <4>1. Node(proof[used[h] + 1], hash[h]) = Node(sib[h], own[h])
        BY <2>1, <2>5, <2>7, <3>1, <3>4
      <4> QED
        BY <3>2, <4>1, NodeTells
    <3> QED
      BY <3>3, <3>4
  <2> QED
    BY <2>6, <2>7
<1>3. ASSUME NEW k \in 0 .. n - 1, k \in S PROVE k + 1 \in S
  <2> DEFINE h == n - (k + 1)
  <2>1. h \in 0 .. n - 1 /\ h + 1 = n - k /\ k + 1 \in 0 .. n
    OBVIOUS
  <2>2. P(h + 1)
    <3> HIDE DEF P, h
    <3>1. P(n - k)
      BY <1>3
    <3> QED
      BY <2>1, <3>1
  <2> HIDE DEF P, h
  <2>3. P(h)
    BY <1>2, <2>1, <2>2
  <2> QED
    BY <2>1, <2>3 DEF h
<1>4. \A h \in 0 .. n : P(h)
  <2> HIDE DEF S, P
  <2>1. \A k \in 0 .. n : k \in S
    BY <1>1, <1>3, EveryTurn
  <2>2. \A h \in 0 .. n : n - h \in 0 .. n /\ n - (n - h) = h
    OBVIOUS
  <2>3. \A h \in 0 .. n : P(n - (n - h))
    BY <2>1, <2>2 DEF S
  <2> QED
    BY <2>2, <2>3
<1>5. \A h \in 0 .. n - 1 : h \in pair => proof[Len(q[h]) + 1] = sib[h] /\ Len(q[h]) < Len(proof)
  <2>1. \A h \in 0 .. n - 1 : h + 1 \in 0 .. n
    OBVIOUS
  <2> HIDE DEF P
  <2> QED
    BY <1>2, <1>4, <2>1
<1> HIDE DEF P, S
<1> DEFINE E == {h \in 0 .. n : \A j \in 1 .. Len(q[h]) : q[h][j] = proof[j]}
<1>6. 0 \in E
  <2>1. q[0] = << >>
    BY DEF Made
  <2> QED
    BY <2>1
<1>7. ASSUME NEW h \in 0 .. n - 1, h \in E PROVE h + 1 \in E
  <2>1. /\ h \notin pair => q[h + 1] = q[h]
        /\ h \in pair => /\ Len(q[h + 1]) = Len(q[h]) + 1
                         /\ q[h + 1][Len(q[h]) + 1] = sib[h]
                         /\ \A j \in 1 .. Len(q[h]) : q[h + 1][j] = q[h][j]
        /\ Len(q[h]) \in Nat
    BY <1>g
  <2>2. CASE h \notin pair
    BY <1>7, <2>1, <2>2
  <2>3. CASE h \in pair
    <3>1. \A j \in 1 .. Len(q[h + 1]) : q[h + 1][j] = proof[j]
      <4> SUFFICES ASSUME NEW j \in 1 .. Len(q[h]) + 1 PROVE q[h + 1][j] = proof[j]
        BY <2>1, <2>3
      <4>1. CASE j \in 1 .. Len(q[h])
        BY <1>7, <2>1, <2>3, <4>1
      <4>2. CASE j = Len(q[h]) + 1
        BY <1>5, <2>1, <2>3, <4>2
      <4> QED
        BY <2>1, <4>1, <4>2
    <3> QED
      BY <3>1
  <2> QED
    BY <2>2, <2>3
<1>8. n \in E
  <2> HIDE DEF E
  <2>1. \A k \in 0 .. n : k \in E
    BY <1>6, <1>7, EveryTurn
  <2> QED
    BY <2>1
<1>9. q[n] \in Seq(T)
  BY MadeTyped
<1>10. proof = q[n]
  BY <1>u, <1>8, <1>9, SeqEqual
<1>11. leaf = own[0]
  <2>1. P(0)
    BY <1>4
  <2> QED
    BY <2>1 DEF P, Climbed
<1> QED
  BY <1>10, <1>11

\* A proof that was made for the leaf that is there is accepted.
LEMMA MadeIsAccepted ==
  ASSUME NEW n \in Nat, NEW own, NEW sib, NEW pair, NEW even, NEW q, NEW T, NEW hash, NEW used,
         Path(n, own, sib, pair, even), Made(n, sib, pair, q),
         Climbed(n, own[0], q[n], pair, even, hash, used), Drawn(n, sib, pair, T)
  PROVE  hash[n] = own[n] /\ used[n] = Len(q[n])
<1> DEFINE proof == q[n]
<1>0. /\ \A h \in 0 .. n : q[h] \in Seq(T)
      /\ proof \in Seq(T) /\ Len(proof) \in Nat
  <2>1. \A h \in 0 .. n : q[h] \in Seq(T)
    BY MadeTyped
  <2>2. proof \in Seq(T)
    BY <2>1
  <2> QED
    BY <2>1, <2>2
<1>g. \A h \in 0 .. n - 1 :
        /\ h \notin pair => q[h + 1] = q[h]
        /\ h \in pair => /\ Len(q[h + 1]) = Len(q[h]) + 1
                         /\ q[h + 1][Len(q[h]) + 1] = sib[h]
                         /\ \A j \in 1 .. Len(q[h]) : q[h + 1][j] = q[h][j]
        /\ Len(q[h]) \in Nat
  BY MadeGrows
<1> DEFINE F(h) == Len(q[h]) <= Len(proof) /\ \A j \in 1 .. Len(q[h]) : proof[j] = q[h][j]
           S == {k \in 0 .. n : F(n - k)}
<1>1. 0 \in S
  <2>1. F(n)
    BY <1>0
  <2>2. n - 0 = n
    OBVIOUS
  <2> HIDE DEF F
  <2> QED
    BY <2>1, <2>2
<1>2. ASSUME NEW h \in 0 .. n - 1, F(h + 1)
      PROVE  F(h) /\ (h \in pair => proof[Len(q[h]) + 1] = sib[h] /\ Len(q[h]) < Len(proof))
  <2>1. /\ h \notin pair => q[h + 1] = q[h]
        /\ h \in pair => /\ Len(q[h + 1]) = Len(q[h]) + 1
                         /\ q[h + 1][Len(q[h]) + 1] = sib[h]
                         /\ \A j \in 1 .. Len(q[h]) : q[h + 1][j] = q[h][j]
        /\ Len(q[h]) \in Nat
    BY <1>g
  <2>2. CASE h \notin pair
    BY <1>2, <2>1, <2>2
  <2>3. CASE h \in pair
    <3>1. /\ Len(q[h]) + 1 <= Len(proof)
          /\ \A j \in 1 .. Len(q[h]) + 1 : proof[j] = q[h + 1][j]
      BY <1>2, <2>1, <2>3
    <3>2. Len(q[h]) + 1 \in 1 .. Len(q[h]) + 1 /\ \A j \in 1 .. Len(q[h]) : j \in 1 .. Len(q[h]) + 1
      BY <2>1
    <3>3. proof[Len(q[h]) + 1] = sib[h]
      BY <2>1, <2>3, <3>1, <3>2
    <3>4. \A j \in 1 .. Len(q[h]) : proof[j] = q[h][j]
      BY <2>1, <2>3, <3>1, <3>2
    <3> QED
      BY <1>0, <2>1, <3>1, <3>3, <3>4
  <2> QED
    BY <2>2, <2>3
<1>3. ASSUME NEW k \in 0 .. n - 1, k \in S PROVE k + 1 \in S
  <2> DEFINE h == n - (k + 1)
  <2>1. h \in 0 .. n - 1 /\ h + 1 = n - k /\ k + 1 \in 0 .. n
    OBVIOUS
  <2>2. F(h + 1)
    <3> HIDE DEF F, h
    <3>1. F(n - k)
      BY <1>3
    <3> QED
      BY <2>1, <3>1
  <2> HIDE DEF F, h
  <2>3. F(h)
    BY <1>2, <2>1, <2>2
  <2> QED
    BY <2>1, <2>3 DEF h
<1>4. \A h \in 0 .. n : F(h)
  <2> HIDE DEF S, F
  <2>1. \A k \in 0 .. n : k \in S
    BY <1>1, <1>3, EveryTurn
  <2>2. \A h \in 0 .. n : n - h \in 0 .. n /\ n - (n - h) = h
    OBVIOUS
  <2>3. \A h \in 0 .. n : F(n - (n - h))
    BY <2>1, <2>2 DEF S
  <2> QED
    BY <2>2, <2>3
<1>5. \A h \in 0 .. n - 1 : h \in pair => proof[Len(q[h]) + 1] = sib[h] /\ Len(q[h]) < Len(proof)
  <2>1. \A h \in 0 .. n - 1 : h + 1 \in 0 .. n
    OBVIOUS
  <2> HIDE DEF F
  <2> QED
    BY <1>2, <1>4, <2>1
<1> HIDE DEF F, S
<1> DEFINE E == {h \in 0 .. n : hash[h] = own[h] /\ used[h] = Len(q[h])}
<1>6. 0 \in E
  <2>1. q[0] = << >> /\ hash[0] = own[0] /\ used[0] = 0 /\ 0 \in 0 .. n
    BY DEF Made, Climbed
  <2> QED
    BY <2>1
<1>7. ASSUME NEW h \in 0 .. n - 1, h \in E PROVE h + 1 \in E
  <2>1. /\ own[h + 1] = IF h \notin pair THEN own[h]
                        ELSE IF h \in even THEN Node(own[h], sib[h]) ELSE Node(sib[h], own[h])
        /\ hash[h + 1] = IF h \notin pair THEN hash[h]
                          ELSE IF used[h] = Len(proof) THEN Missing
                          ELSE IF h \in even THEN Node(hash[h], proof[used[h] + 1])
                          ELSE Node(proof[used[h] + 1], hash[h])
        /\ used[h + 1] = IF h \notin pair \/ used[h] = Len(proof) THEN used[h] ELSE used[h] + 1
    BY DEF Path, Climbed
  <2>2. /\ h \notin pair => q[h + 1] = q[h]
        /\ h \in pair => Len(q[h + 1]) = Len(q[h]) + 1
        /\ Len(q[h]) \in Nat
    BY <1>g
  <2>3. h + 1 \in 0 .. n /\ hash[h] = own[h] /\ used[h] = Len(q[h])
    BY <1>7
  <2>4. h \in pair => proof[Len(q[h]) + 1] = sib[h] /\ used[h] # Len(proof)
    BY <1>0, <1>5, <2>2, <2>3
  <2> QED
    BY <2>1, <2>2, <2>3, <2>4
<1>8. n \in E
  <2> HIDE DEF E
  <2>1. \A k \in 0 .. n : k \in E
    BY <1>6, <1>7, EveryTurn
  <2> QED
    BY <2>1
<1> QED
  BY <1>8

\* Those of a leaf of a tree.
At(hashes, index, h) == Walk(hashes, index)[h].i
Own(hashes, index) == [h \in 0 .. Len(hashes) |-> Levels(hashes)[h][At(hashes, index, h) + 1]]
Sib(hashes, index) == [h \in 0 .. Len(hashes) |-> Levels(hashes)[h][Sibling(At(hashes, index, h)) + 1]]
Pair(hashes, index) == {h \in 0 .. Len(hashes) : Sibling(At(hashes, index, h)) < Len(Levels(hashes)[h])}
Even(hashes, index) == {h \in 0 .. Len(hashes) : At(hashes, index, h) % 2 = 0}
Pushed(hashes, index) == [h \in 0 .. Len(hashes) |-> Walk(hashes, index)[h].proof]

\* merkleProof's loop goes up the tree and pushes the siblings.
LEMMA WalkIsPath ==
  ASSUME NEW n \in Nat, n # 0, NEW hashes, Len(hashes) = n, NEW index \in 0 .. n - 1
  PROVE  /\ Path(n, Own(hashes, index), Sib(hashes, index), Pair(hashes, index), Even(hashes, index))
         /\ Made(n, Sib(hashes, index), Pair(hashes, index), Pushed(hashes, index))
<1> DEFINE L == Levels(hashes)
           x == Walk(hashes, index)
<1>n. Narrows(n, L)
  BY Narrowing
<1>r. Rises(n, index, L, x)
  BY Rising
<1>1. /\ x[0].i = index /\ x[0].proof = << >>
      /\ \A h \in 0 .. n : x[h].i \in 0 .. Len(L[h]) - 1
  BY <1>r DEF Rises
<1>2. \A h \in 0 .. n - 1 :
        /\ x[h + 1].i = Half(x[h].i)
        /\ x[h + 1].proof = IF Sibling(x[h].i) < Len(L[h])
                            THEN Append(x[h].proof, L[h][Sibling(x[h].i) + 1]) ELSE x[h].proof
  BY <1>r DEF Rises
<1>3. \A h \in 0 .. n : Len(L[h]) \in Nat \ {0}
  BY <1>n DEF Narrows
<1>4. \A h \in 0 .. n - 1 : L[h + 1] = Above(L[h])
  <2>1. \A h \in 0 .. n - 1 : h + 1 \in 0 .. n /\ h + 1 # 0 /\ (h + 1) - 1 = h
    OBVIOUS
  <2> QED
    BY <2>1, LevelsUnfold
<1>5. \A h \in 0 .. n : /\ Own(hashes, index)[h] = L[h][x[h].i + 1]
                        /\ Sib(hashes, index)[h] = L[h][Sibling(x[h].i) + 1]
                        /\ h \in Pair(hashes, index) <=> Sibling(x[h].i) < Len(L[h])
                        /\ h \in Even(hashes, index) <=> x[h].i % 2 = 0
                        /\ Pushed(hashes, index)[h] = x[h].proof
  BY DEF Own, Sib, Pair, Even, Pushed, At
<1> HIDE DEF L, x
<1>6. Path(n, Own(hashes, index), Sib(hashes, index), Pair(hashes, index), Even(hashes, index))
  <2> SUFFICES ASSUME NEW h \in 0 .. n - 1
               PROVE  Own(hashes, index)[h + 1] =
                        IF h \notin Pair(hashes, index) THEN Own(hashes, index)[h]
                        ELSE IF h \in Even(hashes, index) THEN Node(Own(hashes, index)[h], Sib(hashes, index)[h])
                        ELSE Node(Sib(hashes, index)[h], Own(hashes, index)[h])
    BY DEF Path
  <2>1. h \in 0 .. n /\ h + 1 \in 0 .. n
    OBVIOUS
  <2> DEFINE i == x[h].i
             w == Len(L[h])
             s == Sibling(i)
  <2>2. i \in 0 .. w - 1 /\ w \in Nat \ {0}
    BY <1>1, <1>3, <2>1
  <2>3. Own(hashes, index)[h + 1] = Above(L[h])[Half(i) + 1]
    BY <1>2, <1>4, <1>5, <2>1
  <2>4. /\ ~(s < w) => Above(L[h])[Half(i) + 1] = L[h][i + 1]
        /\ s < w /\ i % 2 = 0 => Above(L[h])[Half(i) + 1] = Node(L[h][i + 1], L[h][s + 1])
        /\ s < w /\ i % 2 # 0 => Above(L[h])[Half(i) + 1] = Node(L[h][s + 1], L[h][i + 1])
    BY <2>2, AboveAt
  <2> HIDE DEF i, w, s
  <2>5. /\ Own(hashes, index)[h] = L[h][i + 1] /\ Sib(hashes, index)[h] = L[h][s + 1]
        /\ h \in Pair(hashes, index) <=> s < w
        /\ h \in Even(hashes, index) <=> i % 2 = 0
    BY <1>5, <2>1 DEF i, w, s
  <2> QED
    BY <2>3, <2>4, <2>5
<1>7. Made(n, Sib(hashes, index), Pair(hashes, index), Pushed(hashes, index))
  <2>1. \A h \in 0 .. n - 1 : h \in 0 .. n /\ h + 1 \in 0 .. n
    OBVIOUS
  <2>2. 0 \in 0 .. n
    OBVIOUS
  <2>3. Pushed(hashes, index)[0] = << >>
    BY <1>1, <1>5, <2>2
  <2>4. \A h \in 0 .. n - 1 :
          Pushed(hashes, index)[h + 1] =
            IF h \in Pair(hashes, index) THEN Append(Pushed(hashes, index)[h], Sib(hashes, index)[h])
            ELSE Pushed(hashes, index)[h]
    BY <1>2, <1>5, <2>1
  <2> QED
    BY <2>3, <2>4 DEF Made
<1> QED
  BY <1>6, <1>7

\* verifyProof's loop derives the same way from the index and the count.
LEMMA AscentClimbs ==
  ASSUME NEW n \in Nat, n # 0, NEW hashes, Len(hashes) = n, NEW index \in 0 .. n - 1,
         NEW leaf, leaf[2] = index, NEW proof
  PROVE  Climbed(n, leaf, proof, Pair(hashes, index), Even(hashes, index),
                 [h \in 0 .. n |-> Ascent(leaf, proof, n)[h].hash], [h \in 0 .. n |-> Ascent(leaf, proof, n)[h].p])
<1> DEFINE L == Levels(hashes)
           x == Walk(hashes, index)
           c == Ascent(leaf, proof, n)
<1>n. Narrows(n, L)
  BY Narrowing
<1>r. Rises(n, index, L, x)
  BY Rising
<1>1. /\ x[0].i = index
      /\ \A h \in 0 .. n : x[h].i \in 0 .. Len(L[h]) - 1
  BY <1>r DEF Rises
<1>2. \A h \in 0 .. n - 1 : x[h + 1].i = Half(x[h].i)
  BY <1>r DEF Rises
<1>3. \A h \in 0 .. n : Len(L[h]) \in Nat \ {0}
  BY <1>n DEF Narrows
<1>4. Len(L[0]) = n
  BY <1>n DEF Narrows
<1>5. \A h \in 0 .. n - 1 : Len(L[h + 1]) = HalfUp(Len(L[h]))
  BY <1>n DEF Narrows
<1>6. /\ c[0] = [i |-> leaf[2], width |-> n, hash |-> leaf, p |-> 0]
      /\ \A h \in 0 .. n - 1 : c[h + 1] = Climb(c[h], proof)
  <2>1. \A h \in 0 .. n - 1 : h + 1 \in 0 .. n /\ h + 1 # 0 /\ (h + 1) - 1 = h
    OBVIOUS
  <2>2. 0 \in 0 .. n
    OBVIOUS
  <2> QED
    BY <2>1, <2>2, AscentUnfolds
<1>7. \A h \in 0 .. n : /\ h \in Pair(hashes, index) <=> Sibling(x[h].i) < Len(L[h])
                        /\ h \in Even(hashes, index) <=> x[h].i % 2 = 0
  BY DEF Pair, Even, At
<1> HIDE DEF L, x, c
<1> DEFINE S == {h \in 0 .. n : c[h].i = x[h].i /\ c[h].width = Len(L[h])}
<1>8. 0 \in S
  <2>1. c[0].i = leaf[2] /\ c[0].width = n /\ 0 \in 0 .. n
    BY <1>6
  <2> QED
    BY <1>1, <1>4, <2>1
<1>9. ASSUME NEW h \in 0 .. n - 1, h \in S PROVE h + 1 \in S
  <2>1. c[h + 1].i = Half(c[h].i) /\ c[h + 1].width = HalfUp(c[h].width)
    <3>1. c[h + 1] = Climb(c[h], proof)
      BY <1>6
    <3> QED
      BY <3>1 DEF Climb
  <2>2. c[h].i = x[h].i /\ c[h].width = Len(L[h]) /\ h + 1 \in 0 .. n
    BY <1>9
  <2>3. x[h + 1].i = Half(x[h].i) /\ Len(L[h + 1]) = HalfUp(Len(L[h]))
    BY <1>2, <1>5
  <2> QED
    BY <2>1, <2>2, <2>3
<1>10. \A h \in 0 .. n : h \in S
  <2> HIDE DEF S
  <2> QED
    BY <1>8, <1>9, EveryTurn
<1>11. ASSUME NEW h \in 0 .. n - 1
       PROVE  /\ c[h + 1].hash = IF h \notin Pair(hashes, index) THEN c[h].hash
                                 ELSE IF c[h].p = Len(proof) THEN Missing
                                 ELSE IF h \in Even(hashes, index) THEN Node(c[h].hash, proof[c[h].p + 1])
                                 ELSE Node(proof[c[h].p + 1], c[h].hash)
              /\ c[h + 1].p = IF h \notin Pair(hashes, index) \/ c[h].p = Len(proof) THEN c[h].p ELSE c[h].p + 1
  <2> DEFINE i == x[h].i
             w == Len(L[h])
  <2>0. h \in 0 .. n
    OBVIOUS
  <2>1. c[h].i = i /\ c[h].width = w
    BY <1>10, <2>0
  <2>2. i \in 0 .. w - 1 /\ w \in Nat \ {0}
    BY <1>1, <1>3, <2>0
  <2>3. h \notin Pair(hashes, index) <=> w = 1 \/ OddTail(i, w)
    <3>1. Sibling(i) < w <=> ~(w = 1 \/ OddTail(i, w))
      BY <2>2, AboveAt
    <3>2. h \in Pair(hashes, index) <=> Sibling(i) < w
      BY <1>7, <2>0
    <3> QED
      BY <3>1, <3>2
  <2>4. h \in Even(hashes, index) <=> i % 2 = 0
    BY <1>7, <2>0
  <2> HIDE DEF i, w
  <2>5. /\ c[h + 1].hash = IF w = 1 \/ OddTail(i, w) THEN c[h].hash
                           ELSE IF c[h].p = Len(proof) THEN Missing
                           ELSE IF i % 2 = 0 THEN Node(c[h].hash, proof[c[h].p + 1])
                           ELSE Node(proof[c[h].p + 1], c[h].hash)
        /\ c[h + 1].p = IF w = 1 \/ OddTail(i, w) \/ c[h].p = Len(proof) THEN c[h].p ELSE c[h].p + 1
    <3>1. c[h + 1] = Climb(c[h], proof)
      BY <1>6
    <3> QED
      BY <2>1, <3>1 DEF Climb
  <2> QED
    BY <2>3, <2>4, <2>5
<1>12. c[0].hash = leaf /\ c[0].p = 0
  BY <1>6
<1> DEFINE hash == [h \in 0 .. n |-> c[h].hash]
           used == [h \in 0 .. n |-> c[h].p]
<1>13. \A h \in 0 .. n : hash[h] = c[h].hash /\ used[h] = c[h].p
  OBVIOUS
<1> HIDE DEF S
<1>14. Climbed(n, leaf, proof, Pair(hashes, index), Even(hashes, index), hash, used)
  <2> HIDE DEF hash, used
  <2>1. \A h \in 0 .. n - 1 : h \in 0 .. n /\ h + 1 \in 0 .. n
    OBVIOUS
  <2>2. 0 \in 0 .. n
    OBVIOUS
  <2>3. hash[0] = leaf /\ used[0] = 0
    BY <1>12, <1>13, <2>2
  <2>4. \A h \in 0 .. n - 1 :
         /\ hash[h + 1] = IF h \notin Pair(hashes, index) THEN hash[h]
                          ELSE IF used[h] = Len(proof) THEN Missing
                          ELSE IF h \in Even(hashes, index) THEN Node(hash[h], proof[used[h] + 1])
                          ELSE Node(proof[used[h] + 1], hash[h])
         /\ used[h + 1] = IF h \notin Pair(hashes, index) \/ used[h] = Len(proof) THEN used[h] ELSE used[h] + 1
    BY <1>11, <1>13, <2>1
  <2> QED
    BY <2>3, <2>4 DEF Climbed
<1> QED
  BY <1>14 DEF hash, used, c

\* Under the root of a tree of any size (packages/merkle/src/index.ts:51-111) a
\* proof opens an index to the leaf that is there and to no other, and only the
\* proof that was made for it does.
THEOREM RootBinds ==
  ASSUME NEW n \in Nat, n # 0, NEW hashes, Len(hashes) = n, NEW index \in 0 .. n - 1, hashes[index + 1] # Missing,
         NEW leaf, leaf[2] = index, NEW T, NEW proof \in Seq(T)
  PROVE  verifyProof(leaf, proof, n, merkleRoot(hashes)) <=>
            leaf = hashes[index + 1] /\ proof = merkleProof(hashes, index)
<1> DEFINE own == Own(hashes, index)
           sib == Sib(hashes, index)
           pair == Pair(hashes, index)
           even == Even(hashes, index)
           q == Pushed(hashes, index)
           hash == [h \in 0 .. n |-> Ascent(leaf, proof, n)[h].hash]
           used == [h \in 0 .. n |-> Ascent(leaf, proof, n)[h].p]
           U == T \cup {sib[h] : h \in 0 .. n}
<1>1. Narrows(n, Levels(hashes))
  BY Narrowing
<1>2. Rises(n, index, Levels(hashes), Walk(hashes, index))
  BY Rising
<1>3. own[0] = hashes[index + 1]
  <2>1. 0 \in 0 .. n /\ Levels(hashes)[0] = hashes
    BY LevelsUnfold
  <2> QED
    BY <1>2, <2>1 DEF Own, At, Rises
<1>4. own[n] = merkleRoot(hashes)
  <2>1. n \in 0 .. n
    OBVIOUS
  <2>2. Walk(hashes, index)[n].i \in 0 .. 0
    <3>1. Walk(hashes, index)[n].i \in 0 .. Len(Levels(hashes)[n]) - 1
      BY <1>2, <2>1 DEF Rises
    <3>2. Len(Levels(hashes)[n]) = 1
      BY <1>1 DEF Narrows
    <3> QED
      BY <3>1, <3>2
  <2>3. Walk(hashes, index)[n].i + 1 = 1
    BY <2>2
  <2>4. own[n] = Levels(hashes)[n][Walk(hashes, index)[n].i + 1]
    BY <2>1 DEF Own, At
  <2> QED
    BY <2>3, <2>4 DEF merkleRoot
<1>5. q[n] = merkleProof(hashes, index)
  BY DEF Pushed, merkleProof
<1>6. verifyProof(leaf, proof, n, merkleRoot(hashes)) <=> used[n] = Len(proof) /\ hash[n] = own[n]
  <2>1. used[n] = Ascent(leaf, proof, n)[n].p /\ hash[n] = Ascent(leaf, proof, n)[n].hash /\ leaf[2] < n
    OBVIOUS
  <2> HIDE DEF used, hash, own
  <2> QED
    BY <1>4, <2>1 DEF verifyProof
<1>7. Path(n, own, sib, pair, even) /\ Made(n, sib, pair, q)
  BY WalkIsPath
<1>8. Climbed(n, leaf, proof, pair, even, hash, used)
  BY AscentClimbs
<1>9. /\ proof \in Seq(U)
      /\ Drawn(n, sib, pair, U)
  <2>1. T \subseteq U
    OBVIOUS
  <2>2. proof \in Seq(U)
    <3> HIDE DEF U
    <3> QED
      BY <2>1, SeqMonotonic
  <2> HIDE DEF sib, pair
  <2>3. \A h \in 0 .. n - 1 : h \in 0 .. n
    OBVIOUS
  <2> QED
    BY <2>2, <2>3 DEF Drawn
<1> HIDE DEF own, sib, pair, even, q, hash, used, U
<1>10. used[n] = Len(proof) /\ hash[n] = own[n] => leaf = own[0] /\ proof = q[n]
  <2> SUFFICES ASSUME used[n] = Len(proof), hash[n] = own[n] PROVE leaf = own[0] /\ proof = q[n]
    OBVIOUS
  <2>1. own[0] # Missing
    BY <1>3
  <2> QED
    BY <1>7, <1>8, <1>9, <2>1, OpensOne
<1>11. ASSUME Climbed(n, own[0], q[n], pair, even, hash, used)
       PROVE  hash[n] = own[n] /\ used[n] = Len(q[n])
  <2>1. Path(n, own, sib, pair, even)
    BY <1>7
  <2>2. Made(n, sib, pair, q)
    BY <1>7
  <2>3. Drawn(n, sib, pair, U)
    BY <1>9
  <2> QED
    BY <1>11, <2>1, <2>2, <2>3, MadeIsAccepted
<1>12. leaf = own[0] /\ proof = q[n] => used[n] = Len(proof) /\ hash[n] = own[n]
  BY <1>8, <1>11
<1> QED
  BY <1>3, <1>5, <1>6, <1>10, <1>12

\* What TreeBinds says, for trees of any number of leaves.
LEMMA TreesBind == ProofsAccepted /\ OneOpening
<1>1. ASSUME NEW n \in 1 .. MaxLeaves, NEW value \in Values(n)
      PROVE  /\ n \in Nat /\ n # 0 /\ Len(Hashes(value)) = n
             /\ \A i \in 0 .. n - 1 : Hashes(value)[i + 1] = Leaf(i, value[i + 1])
  <2>1. n \in Nat /\ n # 0
    BY CommitmentAssumption
  <2>2. DOMAIN Hashes(value) = 1 .. n
    BY DEF Hashes, Values
  <2>3. Len(Hashes(value)) = n
    BY <2>1, <2>2
  <2>4. \A i \in 0 .. n - 1 : Hashes(value)[i + 1] = Leaf(i, value[i + 1])
    <3> SUFFICES ASSUME NEW i \in 0 .. n - 1 PROVE Hashes(value)[i + 1] = Leaf(i, value[i + 1])
      OBVIOUS
    <3>1. i + 1 \in DOMAIN value /\ (i + 1) - 1 = i
      BY <2>1 DEF Values
    <3> QED
      BY <3>1 DEF Hashes
  <2> QED
    BY <2>1, <2>3, <2>4
<1>2. \A i, x : Leaf(i, x) # Missing /\ Leaf(i, x)[2] = i
  <2>1. \A i, x : Len(<<"leaf", i, x>>) = 3 /\ Len(<<"none">>) = 1 /\ <<"leaf", i, x>>[2] = i
    OBVIOUS
  <2> QED
    BY <2>1 DEF Leaf, Missing
<1>3. ProofsAccepted
  <2> SUFFICES ASSUME NEW n \in 1 .. MaxLeaves, NEW value \in Values(n), NEW i \in 0 .. n - 1
               PROVE  verifyProof(Hashes(value)[i + 1], merkleProof(Hashes(value), i), n, merkleRoot(Hashes(value)))
    BY DEF ProofsAccepted
  <2> DEFINE hashes == Hashes(value)
             proof == merkleProof(hashes, i)
  <2>1. n \in Nat /\ n # 0 /\ Len(hashes) = n /\ hashes[i + 1] # Missing /\ hashes[i + 1][2] = i
    BY <1>1, <1>2
  <2>2. \E T : proof \in Seq(T)
    <3> DEFINE U == {Sib(hashes, i)[h] : h \in 0 .. n}
    <3> HIDE DEF hashes
    <3>1. Made(n, Sib(hashes, i), Pair(hashes, i), Pushed(hashes, i))
      BY <2>1, WalkIsPath
    <3>2. Drawn(n, Sib(hashes, i), Pair(hashes, i), U)
      <4>1. \A h \in 0 .. n - 1 : h \in 0 .. n
        BY <2>1
      <4> QED
        BY <4>1 DEF Drawn
    <3> HIDE DEF U
    <3>3. \A h \in 0 .. n : Pushed(hashes, i)[h] \in Seq(U)
      BY <2>1, <3>1, <3>2, MadeTyped
    <3>4. Pushed(hashes, i)[n] = proof /\ n \in 0 .. n
      BY <2>1 DEF Pushed, merkleProof
    <3> QED
      BY <3>3, <3>4
  <2> HIDE DEF hashes, proof
  <2>3. verifyProof(hashes[i + 1], proof, n, merkleRoot(hashes)) <=>
          hashes[i + 1] = hashes[i + 1] /\ proof = merkleProof(hashes, i)
    BY <2>1, <2>2, RootBinds
  <2> QED
    BY <2>3 DEF hashes, proof
<1>4. OneOpening
  <2> SUFFICES ASSUME NEW n \in 1 .. MaxLeaves, NEW value \in Values(n), NEW i \in 0 .. n - 1, NEW x \in {0, 1},
                      NEW m \in 0 .. MaxPath, NEW p \in [1 .. m -> Terms(Hashes(value))],
                      verifyProof(Leaf(i, x), p, n, merkleRoot(Hashes(value)))
               PROVE  Leaf(i, x) = Hashes(value)[i + 1] /\ p = merkleProof(Hashes(value), i)
    BY DEF OneOpening
  <2> DEFINE hashes == Hashes(value)
             leaf == Leaf(i, x)
  <2>1. n \in Nat /\ n # 0 /\ Len(hashes) = n /\ hashes[i + 1] # Missing /\ leaf[2] = i
    <3>1. n \in Nat /\ n # 0 /\ Len(hashes) = n /\ hashes[i + 1] = Leaf(i, value[i + 1])
      BY <1>1
    <3>2. hashes[i + 1] # Missing /\ leaf[2] = i
      <4> HIDE DEF hashes
      <4> QED
        BY <1>2, <3>1
    <3> QED
      BY <3>1, <3>2
  <2>2. p \in Seq(Terms(hashes))
    <3>1. m \in Nat
      BY CommitmentAssumption
    <3> QED
      BY <3>1, SeqDef
  <2> HIDE DEF hashes, leaf
  <2>3. verifyProof(leaf, p, n, merkleRoot(hashes)) <=> leaf = hashes[i + 1] /\ p = merkleProof(hashes, i)
    BY <2>1, <2>2, RootBinds
  <2> QED
    BY <2>3 DEF hashes, leaf
<1> QED
  BY <1>3, <1>4

\* Bucket i of a chunk, computed over the whole of it.
BucketBest(score, start, end, bucket, i) ==
    Best(score, start + i * bucket, Lower(start + (i + 1) * bucket, end))

Total(start, end, bucket) == (end - start + bucket - 1) \div bucket

\* The slices of the page's threads hold every bucket, and cut none short.
LEMMA WebLeaf ==
  ASSUME NEW score, NEW start \in Nat, NEW end \in Nat, start < end,
         NEW bucket \in Nat, bucket # 0, NEW threads \in Nat, threads # 0
  PROVE  WebLeaves(score, start, end, bucket, threads) =
            [k \in 1 .. Total(start, end, bucket) |-> BucketBest(score, start, end, bucket, k - 1)]
<1> DEFINE total == (end - start + bucket - 1) \div bucket
           per   == (total + threads - 1) \div threads
           To(t) == Lower(start + (t + 1) * per * bucket, end)
           BucketLeaf(t, i) ==
              LET s == start + i * bucket IN <<i, Best(score, s, Lower(s + bucket, To(t)))>>
           Slice(t) == t * per .. Lower((t + 1) * per, total) - 1
           all == UNION {{BucketLeaf(t, i) : i \in Slice(t)} : t \in 0 .. threads - 1}
<1>1. total \in Nat /\ total # 0
  <2>1. end - start \in Nat /\ end - start # 0
    OBVIOUS
  <2> QED
    BY <2>1, Covers
<1>2. per \in Nat /\ per # 0 /\ total <= per * threads
  <2> HIDE DEF total
  <2> QED
    BY <1>1, Covers
<1> HIDE DEF total, per
<1>3. ASSUME NEW t \in 0 .. threads - 1, NEW i \in Slice(t)
      PROVE  i \in Nat /\ i < total /\ BucketLeaf(t, i) = <<i, BucketBest(score, start, end, bucket, i)>>
  <2> DEFINE u == (t + 1) * per
  <2>0. t \in Nat /\ u \in Nat /\ t * per \in Nat
    BY <1>2
  <2>1. i \in Nat /\ i + 1 <= u /\ i + 1 <= total
    <3> HIDE DEF u
    <3>1. i \in t * per .. Lower(u, total) - 1
      BY DEF u
    <3>2. Lower(u, total) <= u /\ Lower(u, total) <= total /\ Lower(u, total) \in Nat
      BY <1>1, <2>0 DEF Lower
    <3> HIDE DEF Slice
    <3> QED
      BY <2>0, <1>1, <3>1, <3>2
  <2> HIDE DEF u
  <2> DEFINE e == start + i * bucket + bucket
             b == start + u * bucket
  <2>2. (i + 1) * bucket <= u * bucket
    BY <2>0, <2>1, Products
  <2>3. e = start + (i + 1) * bucket /\ e \in Int /\ b \in Int /\ e <= b
    BY <2>0, <2>1, <2>2
  <2>4. To(t) = Lower(b, end)
    BY DEF u
  <2>5. Lower(e, Lower(b, end)) = Lower(e, end)
    <3> HIDE DEF e, b
    <3> QED
      BY <2>3 DEF Lower
  <2>6. BucketLeaf(t, i) = <<i, Best(score, start + i * bucket, Lower(e, To(t)))>>
    OBVIOUS
  <2>7. Lower(e, To(t)) = Lower(start + (i + 1) * bucket, end)
    <3> HIDE DEF e, b, To
    <3> QED
      BY <2>3, <2>4, <2>5
  <2> HIDE DEF BucketLeaf, e, b, To
  <2>8. BucketLeaf(t, i) = <<i, BucketBest(score, start, end, bucket, i)>>
    BY <2>6, <2>7 DEF BucketBest
  <2> QED
    BY <1>1, <2>1, <2>8
<1>4. ASSUME NEW i \in Nat, i < total PROVE \E t \in 0 .. threads - 1 : i \in Slice(t)
  <2> DEFINE t == i \div per
  <2>1. t \in Nat /\ t * per <= i /\ i <= (t + 1) * per - 1
    BY <1>2, Quotient
  <2> HIDE DEF t
  <2>2. t < threads
    <3> SUFFICES ASSUME threads <= t PROVE FALSE
      BY <2>1
    <3>1. threads * per <= t * per
      BY <1>2, <2>1, Products
    <3>2. threads * per = per * threads /\ threads * per \in Int /\ t * per \in Int
      BY <1>2, <2>1
    <3> QED
      BY <1>1, <1>2, <1>4, <2>1, <3>1, <3>2
  <2>3. i \in Slice(t)
    <3>1. (t + 1) * per \in Int /\ t * per \in Int
      BY <1>2, <2>1
    <3>2. i <= Lower((t + 1) * per, total) - 1 /\ Lower((t + 1) * per, total) \in Int
      BY <1>1, <1>4, <2>1, <3>1 DEF Lower
    <3> QED
      BY <2>1, <3>1, <3>2
  <2> QED
    BY <2>1, <2>2, <2>3
<1> HIDE DEF Slice, BucketLeaf
<1>5. ASSUME NEW k \in 1 .. total
      PROVE  (CHOOSE l \in all : l[1] = k - 1)[2] = BucketBest(score, start, end, bucket, k - 1)
  <2>1. k - 1 \in Nat /\ k - 1 < total
    BY <1>1
  <2>2. \A l \in all : l[1] = k - 1 => l[2] = BucketBest(score, start, end, bucket, k - 1)
    <3> SUFFICES ASSUME NEW l \in all, l[1] = k - 1 PROVE l[2] = BucketBest(score, start, end, bucket, k - 1)
      OBVIOUS
    <3>1. PICK t \in 0 .. threads - 1 : \E i \in Slice(t) : l = BucketLeaf(t, i)
      OBVIOUS
    <3>2. PICK i \in Slice(t) : l = BucketLeaf(t, i)
      BY <3>1
    <3>3. l = <<i, BucketBest(score, start, end, bucket, i)>>
      BY <1>3, <3>2
    <3> QED
      BY <3>3
  <2>3. \E l \in all : l[1] = k - 1
    <3>1. PICK t \in 0 .. threads - 1 : k - 1 \in Slice(t)
      BY <1>4, <2>1
    <3>2. BucketLeaf(t, k - 1) = <<k - 1, BucketBest(score, start, end, bucket, k - 1)>>
      BY <1>3, <3>1
    <3>3. BucketLeaf(t, k - 1) \in all
      BY <3>1
    <3> QED
      BY <3>2, <3>3
  <2> HIDE DEF all
  <2> QED
    BY <2>2, <2>3
<1>6. WebLeaves(score, start, end, bucket, threads) = [k \in 1 .. total |-> (CHOOSE l \in all : l[1] = k - 1)[2]]
  BY DEF WebLeaves, total, per, Slice, BucketLeaf
<1> HIDE DEF all
<1> QED
  BY <1>5, <1>6 DEF total, Total

\* The native core's buckets are the same where its last one does not wrap.
LEMMA NativeLeaf ==
  ASSUME NEW score, NEW start \in Nat, NEW end \in Nat, start < end, NEW bucket \in Nat, bucket # 0,
         NativeEnds(start, end, bucket)
  PROVE  NativeLeaves(score, start, end, bucket) =
            [k \in 1 .. Total(start, end, bucket) |-> BucketBest(score, start, end, bucket, k - 1)]
<1> DEFINE total == Total(start, end, bucket)
           M == 2^W
<1>1. total \in Nat /\ total # 0
  <2>1. end - start \in Nat /\ end - start # 0
    OBVIOUS
  <2> QED
    BY <2>1, Covers DEF Total
<1>2. M \in Int
  BY CommitmentAssumption
<1>3. start + total * bucket < M
  BY DEF NativeEnds, Total
<1> HIDE DEF total, M
<1>4. ASSUME NEW k \in 1 .. total
      PROVE  LET s == start + (k - 1) * bucket
             IN  NativeEnd(s, end, bucket) = Lower(start + k * bucket, end)
  <2> DEFINE s == start + (k - 1) * bucket
             e == s + bucket
  <2>1. k \in Int /\ k - 1 \in Nat /\ k <= total
    BY <1>1
  <2>2. e = start + k * bucket /\ s \in Nat /\ e \in Nat /\ e > s
    BY <2>1
  <2>3. e < M
    <3>1. k * bucket <= total * bucket
      BY <1>1, <2>1, Products
    <3>2. k * bucket \in Int /\ total * bucket \in Int
      BY <1>1, <2>1
    <3> HIDE DEF e
    <3> QED
      BY <1>2, <1>3, <2>2, <3>1, <3>2
  <2> HIDE DEF s, e
  <2>4. e % M = e
    BY <1>2, <2>2, <2>3
  <2>5. NativeEnd(s, end, bucket) = IF e < end /\ e > s THEN e ELSE end
    BY <2>4 DEF NativeEnd, e, M
  <2> QED
    BY <2>2, <2>5 DEF Lower, s
<1>5. ASSUME NEW k \in 1 .. total
      PROVE  Best(score, start + (k - 1) * bucket, NativeEnd(start + (k - 1) * bucket, end, bucket)) =
                BucketBest(score, start, end, bucket, k - 1)
  <2>1. NativeEnd(start + (k - 1) * bucket, end, bucket) = Lower(start + k * bucket, end)
    BY <1>4
  <2>2. (k - 1) + 1 = k
    BY <1>1
  <2> QED
    BY <2>1, <2>2 DEF BucketBest
<1>6. NativeLeaves(score, start, end, bucket) =
        [k \in 1 .. total |-> Best(score, start + (k - 1) * bucket, NativeEnd(start + (k - 1) * bucket, end, bucket))]
  <2> DEFINE at == NativeStarts(start, end, bucket)
  <2>1. DOMAIN at = 1 .. total /\ \A k \in 1 .. total : at[k] = start + (k - 1) * bucket
    BY DEF NativeStarts, total, Total
  <2>2. NativeLeaves(score, start, end, bucket) = [k \in DOMAIN at |-> Best(score, at[k], NativeEnd(at[k], end, bucket))]
    BY DEF NativeLeaves
  <2> HIDE DEF at
  <2> QED
    BY <2>1, <2>2
<1> QED
  BY <1>5, <1>6 DEF total

\* The chunks, and what they are computed with.
LEMMA WorkTyped ==
  ASSUME NEW w \in Work
  PROVE  w[1] \in Nat /\ w[2] \in Nat /\ w[1] < w[2] /\ w[1] \in Seed /\ w[2] \in Seed
<1>1. 2^W \in Int
  BY CommitmentAssumption
<1>2. w[1] \in Seed /\ w[2] \in Seed /\ w[1] < w[2]
  BY DEF Work
<1> QED
  BY <1>1, <1>2 DEF Seed

\* The coordinator recomputes the native core's leaves.
LEMMA NativeIsRecomputed == NativeRecomputed
<1> SUFFICES ASSUME NEW score \in [Seed -> Scores], NEW w \in Work, NEW bucket \in Buckets,
                    NativeEnds(w[1], w[2], bucket),
                    NEW i \in DOMAIN NativeLeaves(score, w[1], w[2], bucket)
             PROVE  LET b == BucketOf(w[1], w[2], bucket, i - 1)
                    IN  NativeLeaves(score, w[1], w[2], bucket)[i] = Best(score, b[1], b[2])
  BY DEF NativeRecomputed
<1>1. w[1] \in Nat /\ w[2] \in Nat /\ w[1] < w[2] /\ bucket \in Nat /\ bucket # 0
  BY WorkTyped, CommitmentAssumption
<1>2. NativeLeaves(score, w[1], w[2], bucket) =
        [k \in 1 .. Total(w[1], w[2], bucket) |-> BucketBest(score, w[1], w[2], bucket, k - 1)]
  BY <1>1, NativeLeaf
<1>3. NativeLeaves(score, w[1], w[2], bucket)[i] = BucketBest(score, w[1], w[2], bucket, i - 1)
  BY <1>2
<1> QED
  BY <1>3 DEF BucketOf, BucketBest

\* The first of the best of a sequence and what was there before it.
FirstBest(score, base, seq) ==
    FoldLeft(LAMBDA b, s : IF score[s] > score[b] THEN s ELSE b, base, seq)

Ahead(score, base, seq, k, r) ==
    \/ r = base /\ \A j \in 1 .. k : score[seq[j]] <= score[base]
    \/ \E m \in 1 .. k : /\ r = seq[m] /\ score[base] < score[r]
                         /\ \A j \in 1 .. m - 1 : score[seq[j]] < score[r]
                         /\ \A j \in 1 .. k : score[seq[j]] <= score[r]

\* The fold that takes an element only when it is strictly better finds it.
LEMMA FoldFinds ==
  ASSUME NEW n \in Nat, NEW D, NEW score, \A d \in D : score[d] \in Nat, NEW base \in D,
         NEW seq, DOMAIN seq = 1 .. n, \A k \in 1 .. n : seq[k] \in D
  PROVE  Ahead(score, base, seq, n, FirstBest(score, base, seq))
<1> DEFINE Is(h) == h = [s \in SUBSET (1 .. n) |->
                            IF s = {} THEN base
                            ELSE IF score[seq[Max(s)]] > score[h[s \ {Max(s)}]] THEN seq[Max(s)] ELSE h[s \ {Max(s)}]]
           iter == CHOOSE h : Is(h)
<1>1. \E h : Is(h)
  <2> DEFINE step == [k \in 1 .. n |-> [d \in D |-> IF score[seq[k]] > score[d] THEN seq[k] ELSE d]]
  <2>1. \A k \in 1 .. n : \A d \in D : step[k][d] = IF score[seq[k]] > score[d] THEN seq[k] ELSE d
    OBVIOUS
  <2>2. \A k \in 1 .. n : \A d \in D : step[k][d] \in D
    BY <2>1
  <2> HIDE DEF step
  <2>3. PICK h \in [SUBSET (1 .. n) -> D] :
           \A s \in SUBSET (1 .. n) : h[s] = IF s = {} THEN base ELSE step[Max(s)][h[s \ {Max(s)}]]
    <3>1. Stepped(n, D, step)
      BY <2>2 DEF Stepped
    <3>2. \E h \in [SUBSET (1 .. n) -> D] : Folded(n, base, step, h)
      BY <3>1, FoldExists
    <3> QED
      BY <3>2 DEF Folded
  <2>4. ASSUME NEW s \in SUBSET (1 .. n), s # {} PROVE Max(s) \in 1 .. n /\ s \ {Max(s)} \in SUBSET (1 .. n)
    BY <2>4, MaxIn
  <2>5. \A s \in SUBSET (1 .. n) :
           h[s] = IF s = {} THEN base
                  ELSE IF score[seq[Max(s)]] > score[h[s \ {Max(s)}]] THEN seq[Max(s)] ELSE h[s \ {Max(s)}]
    BY <2>1, <2>3, <2>4
  <2> QED
    BY <2>3, <2>5
<1>2. Is(iter)
  BY <1>1
<1>3. FirstBest(score, base, seq) = iter[1 .. n]
  BY DEF FirstBest, FoldLeft, MapThenFoldSet
<1> HIDE DEF iter
<1>4. \A s \in SUBSET (1 .. n) :
           iter[s] = IF s = {} THEN base
                     ELSE IF score[seq[Max(s)]] > score[iter[s \ {Max(s)}]] THEN seq[Max(s)] ELSE iter[s \ {Max(s)}]
  BY <1>2
<1> HIDE DEF Is
<1> DEFINE S == {k \in 0 .. n : Ahead(score, base, seq, k, iter[1 .. k])}
<1>5. 0 \in S
  <2>1. 1 .. 0 = {} /\ 1 .. 0 \in SUBSET (1 .. n)
    OBVIOUS
  <2>2. iter[1 .. 0] = base
    BY <1>4, <2>1
  <2> QED
    BY <2>2 DEF Ahead
<1>6. ASSUME NEW k \in 0 .. n - 1, k \in S PROVE k + 1 \in S
  <2>1. Max(1 .. k + 1) = k + 1
    BY DEF Max
  <2>2. (1 .. k + 1) \ {k + 1} = 1 .. k /\ 1 .. k + 1 # {} /\ 1 .. k + 1 \in SUBSET (1 .. n)
    <3>1. (1 .. k + 1) \ {k + 1} = 1 .. k
      OBVIOUS
    <3>2. k + 1 \in 1 .. k + 1 /\ 1 .. k + 1 \subseteq 1 .. n
      OBVIOUS
    <3> QED
      BY <3>1, <3>2
  <2> DEFINE v == iter[1 .. k]
             x == seq[k + 1]
  <2>3. iter[1 .. k + 1] = IF score[x] > score[v] THEN x ELSE v
    BY <1>4, <2>1, <2>2
  <2>4. Ahead(score, base, seq, k, v)
    BY <1>6
  <2> HIDE DEF v
  <2>5. /\ v \in D /\ score[v] \in Nat /\ x \in D /\ score[x] \in Nat /\ score[base] \in Nat
        /\ score[base] <= score[v]
        /\ \A j \in 1 .. k : score[seq[j]] \in Nat /\ score[seq[j]] <= score[v]
    BY <2>4 DEF Ahead
  <2>6. \A j \in 1 .. k + 1 : j \in 1 .. k \/ j = k + 1
    OBVIOUS
  <2>7. CASE score[x] > score[v]
    <3>1. \A j \in 1 .. (k + 1) - 1 : score[seq[j]] < score[x]
      BY <2>5, <2>7
    <3>2. \A j \in 1 .. k + 1 : score[seq[j]] <= score[x]
      BY <2>5, <2>6, <2>7
    <3>3. k + 1 \in 1 .. k + 1 /\ score[base] < score[x]
      BY <2>5, <2>7
    <3>4. Ahead(score, base, seq, k + 1, x)
      BY <3>1, <3>2, <3>3 DEF Ahead
    <3> QED
      BY <2>3, <2>7, <3>4
  <2>8. CASE ~(score[x] > score[v])
    <3>1. \A j \in 1 .. k + 1 : score[seq[j]] <= score[v]
      BY <2>5, <2>6, <2>8
    <3>2. Ahead(score, base, seq, k + 1, v)
      <4>1. CASE v = base
        BY <3>1, <4>1 DEF Ahead
      <4>2. CASE v # base
        <5>1. PICK m \in 1 .. k : /\ v = seq[m] /\ score[base] < score[v]
                                  /\ \A j \in 1 .. m - 1 : score[seq[j]] < score[v]
          BY <2>4, <4>2 DEF Ahead
        <5>2. m \in 1 .. k + 1
          OBVIOUS
        <5> QED
          BY <3>1, <5>1, <5>2 DEF Ahead
      <4> QED
        BY <4>1, <4>2
    <3> QED
      BY <2>3, <2>8, <3>2
  <2> QED
    BY <2>7, <2>8
<1>7. n \in S
  <2> HIDE DEF S
  <2>1. \A k \in 0 .. n : k \in S
    BY <1>5, <1>6, EveryTurn
  <2> QED
    BY <2>1
<1> QED
  BY <1>3, <1>7

\* The seed a chunk's witness must be: of the greatest score, and the first of those.
Lowest(score, from, to, s) ==
    /\ s \in from .. to - 1
    /\ \A t \in from .. to - 1 : score[t] <= score[s]
    /\ \A t \in from .. s - 1 : score[t] < score[s]

\* The extremum of a range is the lowest of its best seeds.
LEMMA BestIsLowest ==
  ASSUME NEW score, NEW from \in Nat, NEW to \in Nat, from < to, \A t \in from .. to - 1 : score[t] \in Nat
  PROVE  Lowest(score, from, to, Best(score, from, to))
<1> DEFINE n == to - from
           seq == [k \in 1 .. n |-> from + k - 1]
           r == FirstBest(score, from, seq)
<1>1. n \in Nat /\ n # 0 /\ from \in from .. to - 1
  OBVIOUS
<1>2. DOMAIN seq = 1 .. n /\ \A k \in 1 .. n : seq[k] = from + k - 1 /\ seq[k] \in from .. to - 1
  OBVIOUS
<1>3. Best(score, from, to) = r
  BY DEF Best, FirstBest
<1> HIDE DEF seq
<1>4. Ahead(score, from, seq, n, r)
  <2> HIDE DEF n
  <2> QED
    BY <1>1, <1>2, FoldFinds
<1> HIDE DEF r
<1>5. ASSUME NEW t \in from .. to - 1
      PROVE  t - from + 1 \in 1 .. n /\ seq[t - from + 1] = t
  <2>1. t - from + 1 \in 1 .. n
    OBVIOUS
  <2> QED
    BY <1>2, <2>1
<1>6. CASE r = from /\ \A j \in 1 .. n : score[seq[j]] <= score[from]
  <2>1. \A t \in from .. to - 1 : score[t] <= score[r]
    BY <1>5, <1>6
  <2>2. r \in from .. to - 1 /\ from .. r - 1 = {}
    BY <1>1, <1>6
  <2> QED
    BY <1>3, <2>1, <2>2 DEF Lowest
<1>7. ASSUME NEW m \in 1 .. n, r = seq[m], \A j \in 1 .. m - 1 : score[seq[j]] < score[r],
             \A j \in 1 .. n : score[seq[j]] <= score[r]
      PROVE  Lowest(score, from, to, r)
  <2>1. r = from + m - 1 /\ r \in from .. to - 1
    BY <1>2, <1>7
  <2>2. \A t \in from .. to - 1 : score[t] <= score[r]
    BY <1>5, <1>7
  <2>3. ASSUME NEW t \in from .. r - 1 PROVE score[t] < score[r]
    <3>1. t \in from .. to - 1 /\ t - from + 1 \in 1 .. m - 1
      BY <2>1
    <3> QED
      BY <1>5, <1>7, <3>1
  <2> QED
    BY <2>1, <2>2, <2>3 DEF Lowest
<1> QED
  BY <1>3, <1>4, <1>6, <1>7 DEF Ahead

\* The first leaf of the greatest score is the lowest of the chunk's best seeds.
LEMMA WitnessIsLowest ==
  ASSUME NEW score, NEW start \in Nat, NEW end \in Nat, start < end, NEW bucket \in Nat, bucket # 0,
         \A t \in start .. end - 1 : score[t] \in Nat,
         NEW list, list = [k \in 1 .. Total(start, end, bucket) |-> BucketBest(score, start, end, bucket, k - 1)]
  PROVE  Lowest(score, start, end, Witness(score, list))
<1> DEFINE total == Total(start, end, bucket)
           From(k) == start + (k - 1) * bucket
           To(k) == Lower(start + k * bucket, end)
<1>1. total \in Nat /\ total # 0 /\ end - start <= total * bucket /\ total * bucket <= (end - start) + bucket - 1
  <2>1. end - start \in Nat /\ end - start # 0
    OBVIOUS
  <2> QED
    BY <2>1, Covers DEF Total
<1> HIDE DEF total
<1>2. DOMAIN list = 1 .. total /\ \A k \in 1 .. total : list[k] = Best(score, From(k), To(k))
  <2>1. \A k \in 1 .. total : list[k] = BucketBest(score, start, end, bucket, k - 1)
    BY DEF total
  <2>2. \A k \in 1 .. total : (k - 1) + 1 = k
    BY <1>1
  <2> QED
    BY <2>1, <2>2 DEF BucketBest, total
<1>3. ASSUME NEW k \in 1 .. total
      PROVE  From(k) \in Nat /\ To(k) \in Nat /\ From(k) < To(k) /\ From(k) >= start /\ To(k) <= end
  <2>1. k \in Nat /\ k - 1 \in Nat /\ k - 1 <= total - 1
    BY <1>1
  <2>2. (k - 1) * bucket <= (total - 1) * bucket
    BY <1>1, <2>1, Products
  <2>3. /\ (total - 1) * bucket = total * bucket - bucket
        /\ k * bucket = (k - 1) * bucket + bucket
        /\ (k - 1) * bucket \in Nat /\ total * bucket \in Nat
    BY <1>1, <2>1
  <2>4. From(k) \in Nat /\ From(k) >= start /\ From(k) < end /\ start + k * bucket = From(k) + bucket
    BY <1>1, <2>2, <2>3
  <2> HIDE DEF From
  <2>5. To(k) = Lower(From(k) + bucket, end)
    BY <2>4
  <2> HIDE DEF To
  <2> QED
    BY <2>4, <2>5 DEF Lower
<1>4. ASSUME NEW k \in 1 .. total
      PROVE  Lowest(score, From(k), To(k), list[k])
  <2>1. From(k) \in Nat /\ To(k) \in Nat /\ From(k) < To(k) /\ From(k) >= start /\ To(k) <= end
    BY <1>3
  <2>2. list[k] = Best(score, From(k), To(k))
    BY <1>2
  <2> DEFINE a == From(k)
             b == To(k)
  <2> HIDE DEF From, To
  <2>3. \A t \in a .. b - 1 : score[t] \in Nat
    BY <2>1
  <2> HIDE DEF a, b
  <2>4. Lowest(score, a, b, Best(score, a, b))
    BY <2>1, <2>3, BestIsLowest DEF a, b
  <2> QED
    BY <2>2, <2>4 DEF a, b
<1>5. ASSUME NEW t \in start .. end - 1
      PROVE  \E k \in 1 .. total : t \in From(k) .. To(k) - 1
  <2> DEFINE q == (t - start) \div bucket
  <2>1. t - start \in Nat
    OBVIOUS
  <2>2. q \in Nat /\ q * bucket <= t - start /\ t - start <= (q + 1) * bucket - 1
    BY <2>1, Quotient
  <2> HIDE DEF q
  <2>3. q < total
    <3> SUFFICES ASSUME total <= q PROVE FALSE
      BY <1>1, <2>2
    <3>1. total * bucket <= q * bucket
      BY <1>1, <2>2, Products
    <3>2. total * bucket \in Int /\ q * bucket \in Int
      BY <1>1, <2>2
    <3> QED
      BY <1>1, <2>2, <3>1, <3>2
  <2> DEFINE k == q + 1
  <2>4. k \in 1 .. total /\ k - 1 = q
    BY <1>1, <2>2, <2>3
  <2>5. From(k) = start + q * bucket /\ From(k) \in Int /\ From(k) <= t
    BY <2>1, <2>2, <2>4
  <2>6. k * bucket \in Int /\ t < start + k * bucket /\ t < end /\ start + k * bucket \in Int
    BY <2>1, <2>2, <2>4
  <2> HIDE DEF k, From
  <2>7. t < To(k) /\ To(k) \in Int
    BY <2>6 DEF Lower
  <2> HIDE DEF To
  <2> QED
    BY <2>4, <2>5, <2>7
<1> HIDE DEF From, To
<1>6. ASSUME NEW k \in 1 .. total PROVE list[k] \in start .. end - 1
  <2>1. list[k] \in From(k) .. To(k) - 1
    BY <1>4 DEF Lowest
  <2>2. From(k) \in Nat /\ To(k) \in Nat /\ From(k) >= start /\ To(k) <= end
    BY <1>3
  <2> QED
    BY <2>1, <2>2
<1> DEFINE r == FirstBest(score, list[1], list)
<1>7. Witness(score, list) = r
  BY DEF Witness, FirstBest
<1>8. 1 \in 1 .. total
  BY <1>1
<1>9. Ahead(score, list[1], list, total, r)
  <2> DEFINE D == start .. end - 1
             base == list[1]
  <2>1. base \in D /\ (\A k \in 1 .. total : list[k] \in D) /\ \A d \in D : score[d] \in Nat
    BY <1>6, <1>8
  <2>2. DOMAIN list = 1 .. total /\ total \in Nat
    BY <1>1, <1>2
  <2> HIDE DEF D, base
  <2>3. Ahead(score, base, list, total, FirstBest(score, base, list))
    BY ONLY <2>1, <2>2, FoldFinds
  <2> QED
    BY <2>3 DEF base
<1> HIDE DEF r
<1>10. \E m \in 1 .. total : /\ r = list[m]
                             /\ \A j \in 1 .. m - 1 : score[list[j]] < score[r]
                             /\ \A j \in 1 .. total : score[list[j]] <= score[r]
  <2>1. CASE r = list[1] /\ \A j \in 1 .. total : score[list[j]] <= score[list[1]]
    <3>1. 1 .. 1 - 1 = {}
      OBVIOUS
    <3> QED
      BY <1>8, <2>1, <3>1
  <2> QED
    BY <1>9, <2>1 DEF Ahead
<1>11. PICK m \in 1 .. total : /\ r = list[m]
                               /\ \A j \in 1 .. m - 1 : score[list[j]] < score[r]
                               /\ \A j \in 1 .. total : score[list[j]] <= score[r]
  BY <1>10
<1>12. r \in start .. end - 1 /\ score[r] \in Nat
  BY <1>6, <1>11
<1>13. ASSUME NEW t \in start .. end - 1 PROVE score[t] <= score[r]
  <2>1. PICK k \in 1 .. total : t \in From(k) .. To(k) - 1
    BY <1>5
  <2>2. score[t] <= score[list[k]] /\ score[list[k]] <= score[r]
    BY <1>4, <1>11, <2>1 DEF Lowest
  <2>3. score[t] \in Nat /\ score[list[k]] \in Nat
    BY <1>6
  <2> QED
    BY <1>12, <2>2, <2>3
<1>14. ASSUME NEW t \in start .. r - 1 PROVE score[t] < score[r]
  <2>1. t \in start .. end - 1 /\ t < r
    BY <1>12
  <2>2. PICK k \in 1 .. total : t \in From(k) .. To(k) - 1
    BY <1>5, <2>1
  <2>3. CASE k = m
    <3>1. t \in From(m) .. r - 1
      BY <2>1, <2>2, <2>3, <1>12, <1>3
    <3> QED
      BY <1>4, <1>11, <3>1 DEF Lowest
  <2>4. CASE k < m
    <3>1. k \in 1 .. m - 1
      BY <1>1, <2>4
    <3>2. score[t] <= score[list[k]] /\ score[list[k]] < score[r]
      BY <1>4, <1>11, <2>2, <3>1 DEF Lowest
    <3>3. score[t] \in Nat /\ score[list[k]] \in Nat
      BY <1>6, <2>1
    <3> QED
      BY <1>12, <3>2, <3>3
  <2>5. CASE k > m
    <3>1. r <= To(m) - 1
      <4>1. r \in From(m) .. To(m) - 1
        BY <1>4, <1>11 DEF Lowest
      <4>2. From(m) \in Nat /\ To(m) \in Nat
        BY <1>3
      <4> QED
        BY <4>1, <4>2
    <3>2. To(m) <= From(k)
      <4>1. m <= k - 1 /\ m \in Int /\ k - 1 \in Int
        BY <1>1, <2>5
      <4>2. m * bucket <= (k - 1) * bucket
        BY <4>1, Products
      <4>3. m * bucket \in Int /\ (k - 1) * bucket \in Int
        BY <4>1
      <4>4. To(m) <= start + m * bucket
        BY <4>3 DEF To, Lower
      <4>5. From(k) = start + (k - 1) * bucket
        BY DEF From
      <4>6. To(m) \in Nat
        BY <1>3
      <4> DEFINE x == m * bucket
                 y == (k - 1) * bucket
      <4>7. x \in Int /\ y \in Int /\ x <= y /\ To(m) <= start + x /\ From(k) = start + y
        BY <4>2, <4>3, <4>4, <4>5
      <4> HIDE DEF x, y
      <4> QED
        BY <4>6, <4>7
    <3>3. From(k) <= t /\ From(k) \in Nat /\ To(m) \in Nat
      BY <1>3, <2>2
    <3> QED
      BY <1>12, <2>1, <3>1, <3>2, <3>3
  <2> QED
    BY <1>1, <2>3, <2>4, <2>5
<1> QED
  BY <1>7, <1>12, <1>13, <1>14 DEF Lowest

\* There is one lowest of the best seeds.
LEMMA LowestIsOne ==
  ASSUME NEW score, NEW from \in Nat, NEW to \in Nat, \A t \in from .. to - 1 : score[t] \in Nat,
         NEW s, Lowest(score, from, to, s), NEW r, Lowest(score, from, to, r)
  PROVE  s = r
<1>1. s \in from .. to - 1 /\ r \in from .. to - 1 /\ score[s] \in Nat /\ score[r] \in Nat
  BY DEF Lowest
<1>2. score[s] <= score[r] /\ score[r] <= score[s]
  BY <1>1 DEF Lowest
<1>3. ~(s < r)
  <2> SUFFICES ASSUME s < r PROVE FALSE
    OBVIOUS
  <2>1. s \in from .. r - 1
    BY <1>1
  <2>2. score[s] < score[r]
    BY <2>1 DEF Lowest
  <2> QED
    BY <1>1, <1>2, <2>2
<1>4. ~(r < s)
  <2> SUFFICES ASSUME r < s PROVE FALSE
    OBVIOUS
  <2>1. r \in from .. s - 1
    BY <1>1
  <2>2. score[r] < score[s]
    BY <2>1 DEF Lowest
  <2> QED
    BY <1>1, <1>2, <2>2
<1> QED
  BY <1>1, <1>3, <1>4

\* The page's leaves are the native core's, and their witness is the chunk's.
LEMMA WebIsNative == WebMatches
<1> SUFFICES ASSUME NEW score \in [Seed -> Scores], NEW w \in Work, NEW bucket \in Buckets, NEW threads \in Fanouts
             PROVE  LET web == WebLeaves(score, w[1], w[2], bucket, threads)
                    IN  /\ NativeEnds(w[1], w[2], bucket) => web = NativeLeaves(score, w[1], w[2], bucket)
                        /\ Witness(score, web) =
                               CHOOSE s \in w[1] .. w[2] - 1 :
                                   /\ \A t \in w[1] .. w[2] - 1 : score[t] <= score[s]
                                   /\ \A t \in w[1] .. s - 1 : score[t] < score[s]
  BY DEF WebMatches
<1> DEFINE start == w[1]
           end == w[2]
           web == WebLeaves(score, start, end, bucket, threads)
<1>1. /\ start \in Nat /\ end \in Nat /\ start < end /\ start \in Seed /\ end \in Seed
      /\ bucket \in Nat /\ bucket # 0 /\ threads \in Nat /\ threads # 0
  BY WorkTyped, CommitmentAssumption
<1> HIDE DEF start, end
<1>2. \A t \in start .. end - 1 : score[t] \in Nat
  <2>1. \A t \in start .. end - 1 : t \in Seed
    <3>1. 2^W \in Int
      BY CommitmentAssumption
    <3> QED
      BY <1>1, <3>1 DEF Seed
  <2> QED
    BY <2>1, CommitmentAssumption
<1>3. web = [k \in 1 .. Total(start, end, bucket) |-> BucketBest(score, start, end, bucket, k - 1)]
  BY <1>1, WebLeaf
<1>4. NativeEnds(start, end, bucket) => web = NativeLeaves(score, start, end, bucket)
  BY <1>1, <1>3, NativeLeaf
<1> HIDE DEF web
<1> DEFINE r == Witness(score, web)
<1>5. Lowest(score, start, end, r)
  BY <1>1, <1>2, <1>3, WitnessIsLowest
<1> HIDE DEF r
<1> DEFINE Is(s) == /\ \A t \in start .. end - 1 : score[t] <= score[s]
                    /\ \A t \in start .. s - 1 : score[t] < score[s]
           c == CHOOSE s \in start .. end - 1 : Is(s)
<1>6. r \in start .. end - 1 /\ Is(r)
  BY <1>5 DEF Lowest
<1>7. c \in start .. end - 1 /\ Is(c)
  <2> HIDE DEF Is
  <2> QED
    BY <1>6
<1>8. Lowest(score, start, end, c)
  <2> HIDE DEF c
  <2> QED
    BY <1>7 DEF Lowest
<1> HIDE DEF c
<1>9. r = c
  BY <1>1, <1>2, <1>5, <1>8, LowestIsOne
<1> QED
  BY <1>4, <1>9 DEF r, c, start, end, web

\* A client's leaf is the one the coordinator recomputes and its witness the
\* chunk's, whatever the width of a seed, the scores, the buckets and the threads
\* (engine.ts:214-244, worker-core's evaluate_range, desktop gpu.rs).
THEOREM OneCommitment == Spec => []FoldsAgree
<1>1. FoldsAgree
  BY NativeIsRecomputed, WebIsNative DEF FoldsAgree
<1> QED
  BY <1>1, PTL

\* A root commits to each of its leaves: packages/merkle/src/index.ts:51-111.
THEOREM LeavesAreBound == Spec => []TreeBinds
<1>1. TreeBinds
  BY TreesBind DEF TreeBinds
<1> QED
  BY <1>1, PTL
=============================================================================
