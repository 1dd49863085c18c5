--------------------------- MODULE ModuleRegistry ---------------------------
(***************************************************************************)
(* How the coordinator comes to the module that a job pins (the two caches *)
(* of moduleRegistry.ts over the rows of worker_specs), and what a call of *)
(* a module does with the module's memory and with its answer              *)
(* (packages/wasm-runtime).                                                *)
(*                                                                         *)
(* An artifact is named by its hash, so a row is intact when it holds the  *)
(* artifact of its own name.                                               *)
(***************************************************************************)
EXTENDS Integers, Sequences, FiniteSets, SequencesExt

CONSTANTS Hashes, Builtins, Absent

ASSUME RegistryAssumption == Absent \notin Hashes /\ Builtins \subseteq Hashes

Artifacts == Hashes \cup {Absent}

\* Both caches are empty after a restart; the rows stay.
Restarted(rows) == [mods |-> [h \in Hashes |-> Absent], bytes |-> [h \in Hashes |-> Absent], rows |-> rows]

\* Mutant: the artifact is instantiated under the name it was asked for.
loadsAny(bytes, hash) == bytes # Absent

\* SieveWorkerModule.load refuses bytes with another hash.
loads(bytes, hash) == bytes = hash

getBytes(r, h) == IF r.bytes[h] # Absent THEN r.bytes[h] ELSE r.rows[h]
get(r, h) ==
    IF r.mods[h] # Absent THEN r.mods[h]
    ELSE IF loads(getBytes(r, h), h) THEN getBytes(r, h) ELSE Absent
has(r, h) == r.mods[h] # Absent

\* What each leaves in the caches; bytes stay cached when the load then fails.
AfterGetBytes(r, h) == [r EXCEPT !.bytes[h] = getBytes(r, h)]
AfterGet(r, h) ==
    IF has(r, h) THEN r ELSE [AfterGetBytes(r, h) EXCEPT !.mods[h] = get(r, h)]

\* On boot: a built-in module without a row is loaded from the repository and gets one.
seedBuiltins(r) ==
    LET new == {h \in Builtins : r.rows[h] = Absent}
        put(f) == [h \in Hashes |-> IF h \in new THEN h ELSE f[h]]
    IN  [mods |-> put(r.mods), bytes |-> put(r.bytes), rows |-> put(r.rows)]

-----------------------------------------------------------------------------
\* The calls of a module: the inputs copied into its memory before anything is
\* tried, whether a buffer for the answer follows, and whether that is checked.
CallShape ==
    [evaluate_seed      |-> [inputs |-> 1, out |-> FALSE, checked |-> FALSE],
     evaluate_candidate |-> [inputs |-> 2, out |-> FALSE, checked |-> FALSE],
     init_state         |-> [inputs |-> 2, out |-> TRUE,  checked |-> TRUE],
     advance_bucket     |-> [inputs |-> 2, out |-> TRUE,  checked |-> TRUE],
     best_of_state      |-> [inputs |-> 2, out |-> TRUE,  checked |-> TRUE],
     trace_candidate    |-> [inputs |-> 2, out |-> TRUE,  checked |-> TRUE],
     render_bucket      |-> [inputs |-> 1, out |-> TRUE,  checked |-> TRUE],
     evaluate_range     |-> [inputs |-> 1, out |-> TRUE,  checked |-> FALSE]]

Buffers(name) == CallShape[name].inputs + (IF CallShape[name].out THEN 1 ELSE 0)

\* What the module answers: a value, its error code, or a trap.
Ends == {"value", "error", "trap"}

\* Mutant: the buffers are given back after an answer only.
CalledOnce(name, short, end) ==
    LET dies == short \in 1 .. CallShape[name].inputs \/ (short = Buffers(name) /\ CallShape[name].checked)
    IN  [answers |-> ~dies /\ end = "value", kept |-> IF dies THEN short - 1 ELSE IF end = "value" THEN 0 ELSE Buffers(name)]

\* A call of an export that is there, whose malloc number short (0: none) finds no
\* memory: a failure before the try leaves what was got, and the finally gives
\* back everything however the call ends.
Called(name, short, end) ==
    LET dies == short \in 1 .. CallShape[name].inputs \/ (short = Buffers(name) /\ CallShape[name].checked)
    IN  [answers |-> ~dies /\ end = "value", kept |-> IF dies THEN short - 1 ELSE 0]

-----------------------------------------------------------------------------
\* What may happen to the registry: its operations, a restart, a row written.
Events == {<<op, h>> : op \in {"get", "getBytes"}, h \in Hashes}
          \cup {<<"boot">>} \cup {<<"row", h, a>> : h \in Hashes, a \in Artifacts}

Then(r, e) ==
    CASE e[1] = "get"      -> AfterGet(r, e[2])
      [] e[1] = "getBytes" -> AfterGetBytes(r, e[2])
      [] e[1] = "boot"     -> seedBuiltins(Restarted(r.rows))
      [] e[1] = "row"      -> [r EXCEPT !.rows[e[2]] = e[3]]

Histories == UNION {[1 .. n -> Events] : n \in 0 .. 3}
Reached   == {FoldLeft(Then, Restarted(rows), events) : rows \in [Hashes -> Artifacts], events \in Histories}

\* get: the module that verification runs is the one the job pins, whatever was
\* written to its row in any three steps before, and it stays that one whatever
\* is written after; a built-in module is there after every boot at which its
\* row was intact or missing.
Pinned ==
    \A r \in Reached, h \in Hashes :
        /\ get(r, h) \in {h, Absent}
        /\ get(r, h) = h => \A e \in Events \ {<<"boot">>} : get(Then(AfterGet(r, h), e), h) = h
        /\ h \in Builtins /\ r.rows[h] \in {h, Absent} => get(Then(r, <<"boot">>), h) = h

\* A call whose memory is there gives it all back, whether the module answers,
\* refuses or traps, so that the coordinator's long-lived instances lose none to
\* bad submissions; only a module that runs out of memory in mid-call keeps some.
MemoryKept ==
    \A name \in DOMAIN CallShape, end \in Ends : \A short \in 0 .. Buffers(name) :
        LET c == Called(name, short, end)
        IN  /\ short = 0 => c.kept = 0
            /\ c.kept < Buffers(name)
            /\ c.kept > 0 => ~c.answers
=============================================================================
