---------------------------- MODULE WorkerClient ----------------------------
(***************************************************************************)
(* A worker's own software: the web page's engine with its threads         *)
(* (apps/web/lib/worker/engine.ts, evaluator.worker.ts), the desktop loop  *)
(* (apps/desktop/src/main.ts) and the three command-line loops             *)
(* (apps/cli/src/index.ts, render.ts, train.ts), with the coordinator as   *)
(* the clients see it.  All of them are honest.                            *)
(*                                                                         *)
(* A loop is one call of start() or one process: it runs from await to     *)
(* await.  Only the web engine shares state between loops: the workers     *)
(* array, each thread's onmessage handler, running and status.             *)
(***************************************************************************)
EXTENDS Integers, Sequences, FiniteSets

CONSTANTS
    Loops,       \* 1..n, the calls of start(), in order
    Slots,       \* 0..n, the indices of the workers array
    Chunks,      \* 1..n, the leases the coordinator grants, in order
    Clients,     \* the kinds of client to look at
    MaxFailures  \* bound on calls that fail or whose answer is lost

ASSUME ClientAssumption ==
    /\ IsFiniteSet(Loops) /\ Loops = 1..Cardinality(Loops)
    /\ IsFiniteSet(Slots) /\ Slots = 0..Cardinality(Slots) - 1
    /\ Slots # {}  \* the page asks for at least one thread
    /\ IsFiniteSet(Chunks) /\ Chunks = 1..Cardinality(Chunks)
    /\ Clients \subseteq {"web", "webRender", "webTraining", "desktop", "cli", "render", "train"}
    /\ MaxFailures \in Nat

VARIABLES
    client,   \* which program this is: it does not change
    running, status,
    workers,  \* at each slot of the array, the loop that spawned the thread, or 0
    thread,   \* threads by <<loop, slot>>: state, queue of tasks, onmessage handler
    pc, chunk,\* of each loop: where it awaits, and the chunk it has leased
    slices,   \* of a chunk: the slots it was fanned out to
    resolved, \* of a chunk: the slots whose promise has resolved
    leaves,   \* of a chunk: the parts in allLeaves
    commit,   \* of a chunk: the parts under the signed root
    book,     \* of a chunk: what the coordinator has it down as
    erred,    \* some thread's task has thrown
    starts, stops, failures

count  == <<starts, stops>>
engine == <<running, status, workers, thread>>
chunkData == <<slices, resolved, leaves, commit>>
vars == <<client, engine, pc, chunk, chunkData, book, erred, count, failures>>

Web      == client \in {"web", "webRender", "webTraining"}
Training == client \in {"webTraining", "train"}
Delivers == client \in {"webRender", "webTraining", "render", "train"}

Threads == Loops \X Slots
\* Part k of a chunk that was cut into n.
Part(c, k, n) == [chunk |-> c, part |-> k, of |-> n]
Whole(c)  == {Part(c, k, slices[c].of) : k \in 0..slices[c].of - 1}
Parts     == [chunk : Chunks, part : Slots, of : 1..Cardinality(Slots)]
Idle      == [state |-> "none", queue |-> << >>, handler |-> << >>]
-----------------------------------------------------------------------------
(* Where a loop goes on after each answer.  "loop" is its next turn, "end" *)
(* its normal end, "exit" that of the process, "dead" an unhandled error.  *)

\* Mutant: a challenge is not answered.
WebNextSilent ==
    [leased |-> IF Training THEN "origin" ELSE "eval", drained |-> "end", stake |-> "end",
     refused |-> "sleep", thrown |-> "sleep", challenged |-> "loop", rejected |-> "loop",
     accepted |-> IF Delivers THEN "deliver" ELSE "loop", delivered |-> "loop"]

WebNext ==
    [leased |-> IF Training THEN "origin" ELSE "eval", drained |-> "end", stake |-> "end",
     refused |-> "sleep", thrown |-> "sleep", challenged |-> "judge", rejected |-> "loop",
     accepted |-> IF Delivers THEN "deliver" ELSE "loop", delivered |-> "loop"]

DesktopNext ==
    [leased |-> "eval", drained |-> "end", stake |-> "end", refused |-> "end",
     thrown |-> "dead", challenged |-> "judge", rejected |-> "end",
     accepted |-> "loop", delivered |-> "loop"]

CliNext ==
    [leased |-> "eval", drained |-> "end", stake |-> "exit", refused |-> "exit",
     thrown |-> "exit", challenged |-> "judge", rejected |-> "exit",
     accepted |-> "loop", delivered |-> "loop"]

\* Mutant: nothing is delivered.
RenderNextUndelivered == CliNext

RenderNext == [CliNext EXCEPT !.accepted = "deliver"]

TrainNext == [CliNext EXCEPT !.leased = "origin", !.accepted = "deliver"]

Turns ==
    CASE Web                -> WebNext
      [] client = "desktop" -> DesktopNext
      [] client = "cli"     -> CliNext
      [] client = "render"  -> RenderNext
      [] client = "train"   -> TrainNext

\* Once an answer is in.  A desktop loop whose challenge response is refused
\* reads no status from the error and goes on.
After(l, event) ==
    IF client = "desktop" /\ event = "refused" /\ pc[l] = "judge" THEN "loop" ELSE Turns[event]

Goto(l, p) == pc' = [pc EXCEPT ![l] = p]
-----------------------------------------------------------------------------
Init ==
    /\ client \in Clients
    /\ running = FALSE /\ status = "idle"
    /\ workers = [s \in Slots |-> 0]
    /\ thread = [t \in Threads |-> Idle]
    /\ pc = [l \in Loops |-> "none"]
    /\ chunk = [l \in Loops |-> 0]
    /\ slices = [c \in Chunks |-> [slots |-> {}, of |-> 0]]
    /\ resolved = [c \in Chunks |-> {}]
    /\ leaves = [c \in Chunks |-> {}]
    /\ commit = [c \in Chunks |-> {}]
    /\ book = [c \in Chunks |-> "open"]
    /\ erred = FALSE /\ starts = 0 /\ stops = 0 /\ failures = 0

\* Mutant: the threads of the array are dropped but not terminated.
StoppedOnly(idle) ==
    /\ running' = FALSE
    /\ status' = idle
    /\ workers' = [s \in Slots |-> 0]
    /\ UNCHANGED thread

\* stop(): terminates the threads of the array as it is now.
Stopped(idle) ==
    /\ running' = FALSE
    /\ status' = idle
    /\ thread' = [t \in Threads |->
                    IF workers[t[2]] = t[1] THEN [Idle EXCEPT !.state = "dead"] ELSE thread[t]]
    /\ workers' = [s \in Slots |-> 0]

\* A loop goes on to its next await.  The head of the loop looks at running, and
\* a loop that is over stops the engine, whoever has started it since.
Enter(l, p) ==
    LET over == p \in {"end", "exit"} \/ (p = "loop" /\ ~running)
    IN  /\ Goto(l, IF over THEN "done" ELSE IF p = "loop" THEN "lease" ELSE p)
        /\ IF over THEN Stopped("idle") ELSE UNCHANGED engine

\* The start button, shown while the engine is idle.
StartButton ==
    /\ status \notin {"starting", "running"}
    /\ ~running
    /\ starts + 1 \in Loops
    /\ starts' = starts + 1
    /\ running' = TRUE
    /\ status' = IF Web THEN "starting" ELSE "running"
    /\ Goto(starts + 1, IF Web THEN "load" ELSE "lease")
    /\ UNCHANGED <<client, erred, workers, thread, chunk, chunkData, book, stops, failures>>

\* The stop button, or the page going away; a process is stopped by its shell.
StopButton ==
    /\ status \in {"starting", "running"}
    /\ client \notin {"cli", "render", "train"}
    /\ stops' = stops + 1
    /\ Stopped("idle")
    /\ UNCHANGED <<client, erred, pc, chunk, chunkData, book, starts, failures>>

Fail == failures < MaxFailures /\ failures' = failures + 1

\* The job and its module are there: the array is emptied, threads are created.
LoadModule(l) ==
    /\ pc[l] = "load"
    /\ \/ /\ workers' = [s \in Slots |-> 0]
          /\ thread' = [t \in Threads |->
                          IF t[1] = l THEN [Idle EXCEPT !.state = "loading"] ELSE thread[t]]
          /\ Goto(l, "spawn")
          /\ UNCHANGED failures
       \/ Fail /\ Goto(l, "dead") /\ UNCHANGED <<workers, thread>>
    /\ UNCHANGED <<client, erred, running, status, chunk, chunkData, book, count>>

\* A thread reports ready and is put into the array, whichever array that is.
ThreadReady(t) ==
    /\ thread[t].state = "loading"
    /\ \/ /\ thread' = [thread EXCEPT ![t].state = "ready"]
          /\ workers' = [workers EXCEPT ![t[2]] = t[1]]
          /\ UNCHANGED <<pc, failures>>
       \/ /\ Fail
          /\ thread' = [thread EXCEPT ![t].state = "dead"]
          /\ IF pc[t[1]] = "spawn" THEN Goto(t[1], "dead") ELSE UNCHANGED pc
          /\ UNCHANGED workers
    /\ UNCHANGED <<client, erred, running, status, chunk, chunkData, book, count>>

\* All are ready: the first turn, or the end if the engine was stopped meanwhile.
ThreadsReady(l) ==
    /\ pc[l] = "spawn"
    /\ \A s \in Slots : thread[<<l, s>>].state # "loading"
    /\ Goto(l, IF running THEN "lease" ELSE "done")
    /\ IF running THEN status' = "running" /\ UNCHANGED <<running, workers, thread>>
                  ELSE Stopped("idle")
    /\ UNCHANGED <<client, erred, chunk, chunkData, book, count, failures>>

\* Five seconds after an error.
Retry(l) ==
    /\ pc[l] = "sleep"
    /\ Enter(l, "loop")
    /\ UNCHANGED <<client, erred, chunk, chunkData, book, count, failures>>
-----------------------------------------------------------------------------
(* Leasing, and the fan-out over the threads that are in the array.        *)

Present == IF Training THEN {s \in {0} : workers[s] # 0} ELSE {s \in Slots : workers[s] # 0}
Length  == IF Training THEN 1 ELSE 1 + CHOOSE s \in Present : \A u \in Present : u <= s

\* The position of a slice among those that were not filtered away.
TaskId(s) == Cardinality({u \in Present : u < s})

\* Each slice overwrites its thread's handler and queues a task; with no thread
\* there is nothing to commit to and merkleRoot throws.
FanOut(l, c) ==
    IF Present = {}
    THEN Goto(l, "sleep") /\ UNCHANGED <<thread, slices>>
    ELSE /\ Goto(l, "eval")
         /\ slices' = [slices EXCEPT ![c] = [slots |-> Present, of |-> Length]]
         /\ thread' = [t \in Threads |->
              IF t[2] \in Present /\ workers[t[2]] = t[1]
              THEN [thread[t] EXCEPT
                      !.queue = Append(@, [id |-> TaskId(t[2]), part |-> Part(c, t[2], Length)]),
                      !.handler = <<c, TaskId(t[2])>>]
              ELSE thread[t]]

\* A fresh chunk is granted while there are any.
LeaseGranted(l) ==
    /\ pc[l] = "lease"
    /\ \E c \in Chunks :
         /\ book[c] = "open" /\ \A d \in Chunks : d < c => book[d] # "open"
         /\ book' = [book EXCEPT ![c] = "leased"]
         /\ chunk' = [chunk EXCEPT ![l] = c]
         /\ IF Web /\ ~Training THEN FanOut(l, c)
            ELSE Goto(l, After(l, "leased")) /\ UNCHANGED <<thread, slices>>
    /\ UNCHANGED <<client, erred, running, status, workers, resolved, leaves, commit, count, failures>>

\* 404, 402 (the page asks for a stake), another refusal, or no answer at all.
LeaseDenied(l) ==
    /\ pc[l] = "lease"
    /\ \/ Enter(l, After(l, "drained")) /\ UNCHANGED failures
       \/ /\ IF Web THEN Goto(l, "done") /\ Stopped("stake_required")
             ELSE Enter(l, After(l, "stake"))
          /\ UNCHANGED failures
       \/ Fail /\ \E f \in {"refused", "thrown"} : Enter(l, After(l, f))
    /\ UNCHANGED <<client, erred, chunk, chunkData, book, count>>

\* A training chunk awaits its origin state before it looks for a thread.
OriginState(l) ==
    /\ pc[l] = "origin"
    /\ \/ /\ IF Web THEN FanOut(l, chunk[l]) ELSE Goto(l, "eval") /\ UNCHANGED <<thread, slices>>
          /\ UNCHANGED <<running, status, workers, failures>>
       \/ Fail /\ Enter(l, After(l, "thrown")) /\ UNCHANGED slices
    /\ UNCHANGED <<client, erred, chunk, resolved, leaves, commit, book, count>>

\* A thread finishes the task at the head of its queue and posts the outcome
\* to the handler set last, which looks at the task's number and not its chunk.
Accepts(t, task) == Training \/ thread[t].handler[2] = task.id

ThreadAnswers(t) ==
    /\ thread[t].state = "ready" /\ thread[t].queue # << >>
    /\ LET task == Head(thread[t].queue)
           c == thread[t].handler[1]
       IN  IF Accepts(t, task) /\ ~(Training /\ resolved[c] # {})
           THEN /\ leaves' = [leaves EXCEPT ![c] = @ \cup {task.part}]
                /\ resolved' = [resolved EXCEPT ![c] = @ \cup {t[2]}]
           ELSE UNCHANGED <<leaves, resolved>>
    /\ thread' = [thread EXCEPT ![t].queue = Tail(@)]
    /\ UNCHANGED <<client, erred, running, status, workers, pc, chunk, slices, commit, book, count, failures>>

\* A task throws and the handler rejects the promise of its chunk.
ThreadErrs(t) ==
    /\ thread[t].state = "ready" /\ thread[t].queue # << >>
    /\ Fail /\ erred' = TRUE
    /\ thread' = [thread EXCEPT ![t].queue = Tail(@)]
    /\ LET c == thread[t].handler[1]
       IN  pc' = [l \in Loops |->
             IF chunk[l] = c /\ pc[l] = "eval" /\ t[2] \notin resolved[c]
                /\ Accepts(t, Head(thread[t].queue)) THEN "sleep" ELSE pc[l]]
    /\ UNCHANGED <<client, running, status, workers, chunk, chunkData, book, count>>

\* Mutant: the first promise is enough.
SubmitFirst(l) ==
    /\ pc[l] = "eval" /\ Web
    /\ resolved[chunk[l]] # {}
    /\ commit' = [commit EXCEPT ![chunk[l]] = leaves[chunk[l]]]
    /\ Goto(l, "submit")
    /\ UNCHANGED <<client, erred, engine, chunk, slices, resolved, leaves, book, count, failures>>

\* All promises are in: fold, commit, sign, send.
Submit(l) ==
    /\ pc[l] = "eval" /\ Web
    /\ resolved[chunk[l]] = slices[chunk[l]].slots
    /\ commit' = [commit EXCEPT ![chunk[l]] = leaves[chunk[l]]]
    /\ Goto(l, "submit")
    /\ UNCHANGED <<client, erred, engine, chunk, slices, resolved, leaves, book, count, failures>>

\* A native core computes for the loop that called it alone, or cannot.
NativeEval(l) ==
    /\ pc[l] = "eval" /\ ~Web
    /\ LET c == chunk[l]
       IN  \/ /\ slices' = [slices EXCEPT ![c] = [slots |-> {0}, of |-> 1]]
              /\ leaves' = [leaves EXCEPT ![c] = {Part(c, 0, 1)}]
              /\ resolved' = [resolved EXCEPT ![c] = {0}]
              /\ commit' = [commit EXCEPT ![c] = {Part(c, 0, 1)}]
              /\ Goto(l, "submit")
              /\ UNCHANGED <<engine, failures>>
           \/ /\ Fail
              /\ Enter(l, IF client = "desktop" THEN "end" ELSE "exit")
              /\ UNCHANGED chunkData
    /\ UNCHANGED <<client, erred, chunk, book, count>>
-----------------------------------------------------------------------------
(* The coordinator's answers.  What it makes of a commitment that is not   *)
(* the chunk's own work depends on what it samples.                        *)

Sound(c) == commit[c] = Whole(c)
Passed == IF Delivers THEN "awaiting" ELSE "paid"

\* The verdict v on chunk c is booked, and its answer arrives, is an error, or
\* is lost after the coordinator has acted.
Verdict(l, v) ==
    LET c == chunk[l]
        now == CASE v = "accepted" -> Passed [] v = "rejected" -> "slashed" [] OTHER -> "challenged"
    IN  \/ book' = [book EXCEPT ![c] = now] /\ Enter(l, After(l, v)) /\ UNCHANGED failures
        \/ Fail /\ book' = [book EXCEPT ![c] = now] /\ Enter(l, After(l, "thrown"))
        \/ Fail /\ Enter(l, After(l, "refused")) /\ UNCHANGED book

SubmitAnswered(l) ==
    /\ pc[l] = "submit"
    /\ \E v \in {"accepted", "challenged", "rejected"} :
         /\ v = "rejected" => ~Sound(chunk[l])
         /\ Verdict(l, v)
    /\ UNCHANGED <<client, erred, chunk, chunkData, count>>

\* The response opens the leaves as they are in the array now.
ChallengeAnswered(l) ==
    /\ pc[l] = "judge"
    /\ book[chunk[l]] = "challenged"
    /\ LET c == chunk[l]
           opens == leaves[c] = commit[c]
       IN  \E v \in {"accepted", "rejected"} :
             /\ v = "accepted" => opens
             /\ v = "rejected" => ~(opens /\ Sound(c))
             /\ Verdict(l, v)
    /\ UNCHANGED <<client, erred, chunk, chunkData, count>>

\* A response that was refused or never made is a challenge that runs out.
ChallengeExpires(c) ==
    /\ book[c] = "challenged"
    /\ \A l \in Loops : ~(chunk[l] = c /\ pc[l] = "judge")
    /\ book' = [book EXCEPT ![c] = "slashed"]
    /\ UNCHANGED <<client, erred, engine, pc, chunk, chunkData, count, failures>>

\* The bytes, or the final state, of a result that passed.
DeliverAnswered(l) ==
    /\ pc[l] = "deliver"
    /\ \/ /\ Sound(chunk[l])
          /\ book' = [book EXCEPT ![chunk[l]] = "paid"]
          /\ Enter(l, After(l, "delivered"))
          /\ UNCHANGED failures
       \/ ~Sound(chunk[l]) /\ Enter(l, After(l, "refused")) /\ UNCHANGED <<book, failures>>
       \/ Fail /\ \E f \in {"refused", "thrown"} : Enter(l, After(l, f)) /\ UNCHANGED book
    /\ UNCHANGED <<client, erred, chunk, chunkData, count>>

Answer(l) ==
    \/ LeaseGranted(l) \/ LeaseDenied(l) \/ OriginState(l)
    \/ SubmitAnswered(l) \/ ChallengeAnswered(l) \/ DeliverAnswered(l)

Next ==
    \/ StartButton \/ StopButton
    \/ \E l \in Loops :
         LoadModule(l) \/ ThreadsReady(l) \/ Retry(l) \/ Submit(l) \/ NativeEval(l) \/ Answer(l)
    \/ \E t \in Threads : ThreadReady(t) \/ ThreadAnswers(t) \/ ThreadErrs(t)
    \/ \E c \in Chunks : ChallengeExpires(c)

Spec == Init /\ [][Next]_vars
-----------------------------------------------------------------------------
TypeOK ==
    /\ client \in Clients
    /\ running \in BOOLEAN
    /\ status \in {"idle", "starting", "running", "stake_required"}
    /\ workers \in [Slots -> Loops \cup {0}]
    /\ \A t \in Threads : thread[t].state \in {"none", "loading", "ready", "dead"}
    /\ pc \in [Loops -> {"none", "load", "spawn", "lease", "origin", "eval", "submit", "judge",
                         "deliver", "sleep", "done", "dead"}]
    /\ chunk \in [Loops -> Chunks \cup {0}]
    /\ \A c \in Chunks : leaves[c] \subseteq Parts /\ commit[c] \subseteq Parts
    /\ book \in [Chunks -> {"open", "leased", "challenged", "awaiting", "paid", "slashed"}]

\* Nothing but the threads of the engine is shared between two loops.
OneSession == starts <= 1 \/ ~Web

\* What is signed for a chunk is the whole of that chunk's own work, through
\* lost calls and stops, until the engine is started again or a thread's task
\* throws: task numbers alone do not tell one chunk's answers from the next one's.
OwnWork == OneSession /\ ~erred => \A c \in Chunks : commit[c] # {} => Sound(c)

\* Without a lost call an honest client loses no bond: no challenge it was given
\* goes unanswered and every one is opened against the leaves it committed to.
KeepsBond == OneSession /\ failures = 0 => \A c \in Chunks : book[c] # "slashed"

\* What the contribute page promises of the bond (contribute/page.tsx:100).
LostOnlyByCheating == failures = 0 => \A c \in Chunks : book[c] # "slashed"

\* A client that was neither stopped nor failed leaves no chunk behind that it
\* leased, was challenged on or has to deliver: some loop is at it.
AbandonsNothing ==
    OneSession /\ failures = 0 /\ stops = 0 =>
        \A c \in Chunks : book[c] \in {"leased", "challenged", "awaiting"} =>
            \E l \in Loops : chunk[l] = c /\ pc[l] \in {"origin", "eval", "submit", "judge", "deliver"}

\* A session that is over leaves no thread computing, also when it was stopped
\* while its threads were being created.
ThreadsEnd ==
    OneSession /\ failures = 0 /\ (\A l \in Loops : pc[l] \in {"none", "done"}) =>
        \A t \in Threads : thread[t].state \in {"none", "dead"}
=============================================================================
