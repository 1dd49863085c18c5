-------------------------- MODULE ConformanceGate --------------------------
(***************************************************************************)
(* What a worker module must show before it is registered (conformance.ts, *)
(* conformanceThread.ts, wasm-runtime load), who its row belongs to        *)
(* (routes.ts POST /v1/specs), and what the coordinator later asks of it   *)
(* (the guards of jobs.ts, the calls of verification.ts).                  *)
(*                                                                         *)
(* A module may keep state between calls, so an answer depends on the call *)
(* before it: out[p][i] answers call i after call p, or, for p = 0, in a   *)
(* fresh instance.  Call i of an extremum or a render module is for bucket *)
(* i; of a training module call 1 is init_state and call 2 advance_bucket. *)
(***************************************************************************)
EXTENDS Integers, Sequences

CONSTANTS GATE_BUCKETS, ISOLATED_SAMPLES, Answers, Failed, Nobody

ASSUME GateAssumption ==
    /\ GATE_BUCKETS \in Nat \ {0, 1} /\ ISOLATED_SAMPLES \in Nat \ {0}
    /\ Failed \in Answers

Exports == {"evaluate_seed", "evaluate_range", "render_bucket", "evaluate_candidate",
            "init_state", "advance_bucket", "best_of_state"}
Modes   == {"witness_extremum", "output_hash", "training", "unknown"}
Calls   == 1 .. GATE_BUCKETS

\* load: the mode is known and its exports are there.
MODE_ABI(mode) ==
    CASE mode = "output_hash" -> {"render_bucket"}
      [] mode = "training"    -> {"init_state", "advance_bucket", "best_of_state", "evaluate_candidate"}
      [] OTHER                -> {}
supportsExtremum(m)   == {"evaluate_range", "evaluate_seed"} \subseteq m.abi
supportsCandidates(m) == "evaluate_candidate" \in m.abi
load(m) ==
    /\ m.mode # "unknown" /\ MODE_ABI(m.mode) \subseteq m.abi
    /\ m.mode = "witness_extremum" => supportsExtremum(m) \/ supportsCandidates(m)

\* The candidate suite: the probes score the same twice, not all refused, in time.
CandidateSuite(m) == supportsCandidates(m) => m.cand = "scores"

\* The worker's pattern: the buckets in order, in an instance whose last call was p.
Sequential(m, p) == [i \in Calls |-> m.out[IF i = 1 THEN p ELSE i - 1][i]]
Twice(m) == /\ \A i \in Calls : Sequential(m, 0)[i] # Failed
            /\ Sequential(m, GATE_BUCKETS) = Sequential(m, 0)

ExtremumSuite(m) == supportsExtremum(m) => Twice(m) /\ \A i \in Calls : m.seed[i]

\* Mutant: the probes go to the instance that ran the sequence.
RenderSuiteWarm(m, draw) ==
    /\ Twice(m)
    /\ \A k \in 1 .. ISOLATED_SAMPLES :
         m.out[IF k = 1 THEN GATE_BUCKETS ELSE draw[k - 1]][draw[k]] = Sequential(m, 0)[draw[k]]

\* The coordinator's pattern: drawn buckets, in a fresh instance.
RenderSuite(m, draw) ==
    /\ Twice(m)
    /\ \A k \in 1 .. ISOLATED_SAMPLES :
         m.out[IF k = 1 THEN 0 ELSE draw[k - 1]][draw[k]] = Sequential(m, 0)[draw[k]]

\* init_state twice, advance_bucket twice and in time, and the witness of the result.
TrainingSuite(m) ==
    /\ Failed \notin {m.out[0][1], m.out[1][1], m.out[1][2], m.out[2][2]}
    /\ m.out[0][1] = m.out[1][1] /\ m.out[1][2] = m.out[2][2]
    /\ m.seed[2] /\ ~m.slow

\* A thread that does not end is killed after GATE_TIMEOUT_MS, one that dies refused.
runConformanceGate(m, draw) ==
    /\ m.ends /\ load(m) /\ CandidateSuite(m)
    /\ CASE m.mode = "witness_extremum" -> ExtremumSuite(m)
         [] m.mode = "output_hash"      -> RenderSuite(m, draw)
         [] m.mode = "training"         -> TrainingSuite(m)

\* The one draw that is made when a module is uploaded decides about it.
Draws == [1 .. ISOLATED_SAMPLES -> Calls]
-----------------------------------------------------------------------------
\* The guards of createJob, createPrizeJob and createTrainingJob.
Creates(kind, m) ==
    CASE kind = "coverage" -> /\ m.mode = "witness_extremum" => supportsExtremum(m)
                              /\ m.mode # "training"
      [] kind = "prize"    -> supportsCandidates(m)
      [] kind = "training" -> m.mode = "training"

\* What verification then calls: on the main thread and in the pool.
Asks(kind, m) ==
    CASE kind = "prize"    -> {"evaluate_candidate"}
      [] kind = "training" -> {"init_state", "advance_bucket", "evaluate_candidate"}
      [] kind = "coverage" -> IF m.mode = "output_hash" THEN {"render_bucket"}
                              ELSE {"evaluate_seed", "evaluate_range"}

\* The upsert of an upload: the row as it was read, the row as it is by then.
Register(read, row, publisher, private) ==
    IF read.exists /\ (read.builtin \/ read.publisher \notin {Nobody, publisher}) THEN row
    ELSE [exists |-> TRUE, builtin |-> row.exists /\ row.builtin, publisher |-> publisher, private |-> private]
-----------------------------------------------------------------------------
Uniform == [p \in 0 .. GATE_BUCKETS |-> [i \in Calls |-> CHOOSE a \in Answers : a # Failed]]

\* What is admitted, by whatever draw, can be served: no bounty that may be
\* created with a module calls an export that it lacks.
Served ==
    \A abi \in SUBSET Exports, mode \in Modes, cand \in {"scores", "changes", "refused", "slow"}, ends, slow \in BOOLEAN, draw \in Draws :
        LET m == [abi |-> abi, mode |-> mode, cand |-> cand, ends |-> ends, slow |-> slow,
                  out |-> Uniform, seed |-> [i \in Calls |-> TRUE]]
        IN  runConformanceGate(m, draw) =>
                \A kind \in {"coverage", "prize", "training"} : Creates(kind, m) => Asks(kind, m) \subseteq m.abi

\* Call i after call p is answered as it is in the worker's pattern.
Agrees(m, p, i) == m.out[p][i] = Sequential(m, 0)[i]

\* Nothing is kept between calls, nothing fails, and witnesses reproduce.
Pure(m) == /\ \A p \in Calls : m.out[p] = m.out[0]
           /\ \A i \in Calls : m.out[0][i] # Failed /\ m.seed[i]

\* Only the worker's own pattern, begun anew after its end, is answered alike.
OnlyInOrder(m) == \A p \in 0 .. GATE_BUCKETS, i \in Calls : Agrees(m, p, i) => p = i - 1 \/ (p = GATE_BUCKETS /\ i = 1)

\* Only bucket 1 is answered alike by a fresh instance, as it always is.
WrongAlone(m) == \A i \in Calls : Agrees(m, 0, i) => i = 1

\* What one draw is worth.  It turns no module away that keeps nothing between
\* its calls.  A module that it admits gives its second chunk the answers of its
\* first, so that a worker may keep its instance.  A render module that answers
\* a challenge otherwise than the worker, because a fresh instance has not seen
\* the buckets before, is admitted only by a draw that begins with the very
\* first bucket, and one that knows no order but the worker's only by a draw
\* that follows that order.  (A module that errs on fewer buckets passes
\* whenever they are not drawn; an extremum module is not asked for a bucket
\* alone.)
Repeatable ==
    \A out \in [0 .. GATE_BUCKETS -> [Calls -> Answers]], seed \in [Calls -> BOOLEAN], mode \in Modes, draw \in Draws :
        LET m == [abi |-> Exports, mode |-> mode, cand |-> "scores", ends |-> TRUE, slow |-> FALSE, out |-> out, seed |-> seed]
        IN  /\ Pure(m) /\ mode # "unknown" => runConformanceGate(m, draw)
            /\ runConformanceGate(m, draw) /\ mode # "training" =>
                   Sequential(m, GATE_BUCKETS) = Sequential(m, 0)
            /\ runConformanceGate(m, draw) /\ mode = "output_hash" =>
                   /\ WrongAlone(m) \/ OnlyInOrder(m) => draw[1] = 1
                   /\ OnlyInOrder(m) => \A k \in 2 .. ISOLATED_SAMPLES : draw[k] \in {1 + draw[k - 1], 1 + draw[k - 1] - GATE_BUCKETS}

\* A row that is built in stays so, and one that was read as it is by the time
\* of the upsert keeps its publisher, whoever uploads the same bytes.  (One
\* that another upload has written since is taken over.)
PublisherKept(publishers) ==
    LET Rows == [exists : BOOLEAN, builtin : BOOLEAN, publisher : publishers \cup {Nobody}, private : BOOLEAN]
    IN  \A read, row \in Rows, w \in publishers, private \in BOOLEAN :
            row.exists /\ (row.builtin \/ row.publisher # Nobody) =>
                LET new == Register(read, row, w, private)
                IN  /\ new.builtin = row.builtin
                    /\ read = row => new.publisher = row.publisher /\ (w # row.publisher => new = row)
=============================================================================
