----------------------------- MODULE WireLayout -----------------------------
(***************************************************************************)
(* The wire format between the chain program (programs/sieveworks lib.rs)  *)
(* and its hand-written client (packages/chain): account layouts, the      *)
(* accounts and arguments of every instruction, and the seeds of account   *)
(* addresses.  The client has no generated interface: each side is written *)
(* down from its own source, and SidesAgree compares them.                 *)
(***************************************************************************)
EXTENDS Integers, Sequences, FiniteSetsExt, SequencesExt

Width == [u8 |-> 1, u16 |-> 2, u32 |-> 4, u64 |-> 8, i64 |-> 8, id |-> 16, digest |-> 16, key |-> 32, root |-> 32]
DISCRIMINATOR == 8

\* The program's accounts: field and type, in the order of the struct.
ProgramState ==
    [JobEscrow |->
        << <<"job_id", "id">>, <<"funder", "key">>, <<"coordinator", "key">>, <<"price", "u64">>,
           <<"budget", "u64">>, <<"total_paid", "u64">>, <<"bump", "u8">> >>,
     WorkerStake |->
        << <<"worker", "key">>, <<"amount", "u64">>, <<"state", "u8">>, <<"staked_at_slot", "u64">>, <<"bump", "u8">> >>,
     TrainingLineage |->
        << <<"job_id", "id">>, <<"lineage_idx", "u32">>, <<"coordinator", "key">>, <<"digest", "digest">>,
           <<"generations", "u64">>, <<"bump", "u8">> >>,
     ChunkAssertion |->
        << <<"job_id", "id">>, <<"lineage_idx", "u32">>, <<"gen_start", "u64">>, <<"asserter", "key">>,
           <<"coordinator", "key">>, <<"merkle_root", "root">>, <<"d_start", "digest">>, <<"d_end", "digest">>,
           <<"n_buckets", "u16">>, <<"opened_slot", "u64">>, <<"window_slots", "u64">>, <<"status", "u8">>, <<"bump", "u8">> >>]

\* The client's decoders: field, and the bytes it reads.
JobDecoders ==
    [JobEscrow |->
        {<<"job_id", 8, 24>>, <<"funder", 24, 56>>, <<"coordinator", 56, 88>>, <<"price", 88, 96>>,
         <<"budget", 96, 104>>, <<"total_paid", 104, 112>>, <<"bump", 112, 113>>},
     WorkerStake |->
        {<<"worker", 8, 40>>, <<"amount", 40, 48>>, <<"state", 48, 49>>}]

TrainingDecoders ==
    [TrainingLineage |->
        {<<"job_id", 8, 24>>, <<"lineage_idx", 24, 28>>, <<"coordinator", 28, 60>>, <<"digest", 60, 76>>,
         <<"generations", 76, 84>>, <<"bump", 84, 85>>},
     ChunkAssertion |->
        {<<"job_id", 8, 24>>, <<"lineage_idx", 24, 28>>, <<"gen_start", 28, 36>>, <<"asserter", 36, 68>>,
         <<"coordinator", 68, 100>>, <<"merkle_root", 100, 132>>, <<"d_start", 132, 148>>, <<"d_end", 148, 164>>,
         <<"n_buckets", 164, 166>>, <<"opened_slot", 166, 174>>, <<"window_slots", 174, 182>>,
         <<"status", 182, 183>>, <<"bump", 183, 184>>}]
-----------------------------------------------------------------------------
\* An account of an instruction: its name, whether it signs, whether it is written.
SW(x) == [name |-> x, signs |-> TRUE,  written |-> TRUE]
S(x)  == [name |-> x, signs |-> TRUE,  written |-> FALSE]
W(x)  == [name |-> x, signs |-> FALSE, written |-> TRUE]
R(x)  == [name |-> x, signs |-> FALSE, written |-> FALSE]
Ix(accounts, args) == [accounts |-> accounts, args |-> args]

ProgramJobs ==
    [initialize_job |-> Ix(<<SW("funder"), W("escrow"), R("system")>>, <<"job_id", "budget", "price", "coordinator">>),
     record_find    |-> Ix(<<SW("coordinator"), R("escrow"), W("find"), R("system")>>, <<"job_id", "seed", "score", "finder">>),
     claim          |-> Ix(<<SW("worker"), S("coordinator"), W("escrow"), W("earnings"), R("system")>>, <<"job_id", "cumulative", "nonce">>),
     close_job      |-> Ix(<<SW("funder"), S("coordinator"), W("escrow")>>, <<"job_id">>),
     stake          |-> Ix(<<SW("worker"), W("stake"), R("system")>>, <<"amount">>),
     unstake        |-> Ix(<<SW("worker"), S("coordinator"), W("stake")>>, <<>>),
     slash          |-> Ix(<<S("coordinator"), R("escrow"), W("stake"), W("incinerator")>>, <<"job_id", "amount">>)]

ProgramTraining ==
    [init_lineage  |-> Ix(<<SW("coordinator"), W("lineage"), R("system")>>, <<"job_id", "lineage_idx", "origin">>),
     assert_chunk  |-> Ix(<<SW("coordinator"), R("lineage"), W("assertion"), R("system")>>,
                          <<"job_id", "lineage_idx", "gen_start", "asserter", "root", "d_start", "d_end", "n_buckets", "window">>),
     confirm_chunk |-> Ix(<<SW("coordinator"), W("lineage"), W("assertion")>>, <<"job_id", "lineage_idx", "gen_start">>),
     reject_chunk  |-> Ix(<<SW("coordinator"), W("assertion")>>,
                          <<"job_id", "lineage_idx", "gen_start", "bad_index", "provided", "claimed">>)]

\* The builders; "payer" is who pays the fee of the transaction they are sent in.
ClientJobs ==
    [initialize_job |-> Ix(<<SW("funder"), W("escrow"), R("system")>>, <<"job_id", "budget", "price", "coordinator">>),
     record_find    |-> Ix(<<SW("coordinator"), R("escrow"), W("find"), R("system")>>, <<"job_id", "seed", "score", "finder">>),
     claim          |-> Ix(<<SW("worker"), S("coordinator"), W("escrow"), W("earnings"), R("system")>>, <<"job_id", "cumulative", "nonce">>)]

ClientReturns ==
    [close_job      |-> Ix(<<SW("funder"), S("coordinator"), W("escrow")>>, <<"job_id">>),
     stake          |-> Ix(<<SW("worker"), W("stake"), R("system")>>, <<"amount">>),
     unstake        |-> Ix(<<SW("worker"), S("coordinator"), W("stake")>>, <<>>),
     slash          |-> Ix(<<S("coordinator"), R("escrow"), W("stake"), W("incinerator")>>, <<"job_id", "amount">>)]

Built(ix) == IF ix \in DOMAIN ClientJobs THEN ClientJobs[ix] ELSE ClientReturns[ix]

ClientTraining ==
    [init_lineage  |-> Ix(<<SW("coordinator"), W("lineage"), R("system")>>, <<"job_id", "lineage_idx", "origin">>),
     assert_chunk  |-> Ix(<<SW("coordinator"), R("lineage"), W("assertion"), R("system")>>,
                          <<"job_id", "lineage_idx", "gen_start", "asserter", "root", "d_start", "d_end", "n_buckets", "window">>),
     confirm_chunk |-> Ix(<<S("coordinator"), W("lineage"), W("assertion")>>, <<"job_id", "lineage_idx", "gen_start">>),
     reject_chunk  |-> Ix(<<S("coordinator"), W("assertion")>>,
                          <<"job_id", "lineage_idx", "gen_start", "bad_index", "provided", "claimed">>)]

\* Who pays for each transaction: the wallet that sends it, or the coordinator.
\* Mutant: a relay pays for what the coordinator sends.
PayerRelay(ix) == IF ix \in {"initialize_job", "close_job"} THEN "funder"
                  ELSE IF ix \in {"claim", "stake", "unstake"} THEN "worker" ELSE "relay"

Payer(ix) == IF ix \in {"initialize_job", "close_job"} THEN "funder"
             ELSE IF ix \in {"claim", "stake", "unstake"} THEN "worker" ELSE "coordinator"

\* In a message the payer signs and is written, whatever the instruction says.
InMessage(ix, a) == IF a.name = Payer(ix) THEN SW(a.name) ELSE a

\* What the user signs and the coordinator compares with what it would have built.
CoSigned == {"claim", "unstake", "close_job"}

\* Seeds of the addresses, on the two sides.
ProgramSeeds ==
    [escrow |-> <<"job", "id">>, find |-> <<"find", "id", "u64">>, earnings |-> <<"earn", "id", "key">>,
     stake |-> <<"stake", "key">>, lineage |-> <<"lin", "id", "u32">>, assertion |-> <<"assert", "id", "u32", "u64">>]
ClientSeeds ==
    [escrow |-> <<"job", "id">>, find |-> <<"find", "id", "u64">>, earnings |-> <<"earn", "id", "key">>,
     stake |-> <<"stake", "key">>, lineage |-> <<"lin", "id", "u32">>, assertion |-> <<"assert", "id", "u32", "u64">>]
-----------------------------------------------------------------------------
Offset(fields, i) == DISCRIMINATOR + MapThenSumSet(LAMBDA k : Width[fields[k][2]], 1 .. i - 1)
Layout(fields) ==
    {<<fields[i][1], Offset(fields, i), Offset(fields, i) + Width[fields[i][2]]>> : i \in DOMAIN fields}

Meets(ix, sent, asked) ==
    /\ sent.args = asked.args /\ Len(sent.accounts) = Len(asked.accounts)
    /\ \A i \in DOMAIN sent.accounts :
         LET a == InMessage(ix, sent.accounts[i])
             b == asked.accounts[i]
         IN  a.name = b.name /\ (b.signs => a.signs) /\ (b.written => a.written)

\* Every field the client reads is the program's, at the program's bytes; every
\* instruction carries the program's arguments and accounts in its order, with
\* the rights it demands once the message has a payer; a co-signed instruction
\* comes back from its message as it was built; addresses have one seed.
\* confirm_chunk and reject_chunk ask for a written coordinator that their
\* builders do not mark: they work because the coordinator pays.
SidesAgree ==
    /\ \A t \in DOMAIN JobDecoders : JobDecoders[t] \subseteq Layout(ProgramState[t])
    /\ \A t \in DOMAIN TrainingDecoders : TrainingDecoders[t] \subseteq Layout(ProgramState[t])
    /\ \A ix \in DOMAIN ProgramJobs : Meets(ix, Built(ix), ProgramJobs[ix])
    /\ \A ix \in DOMAIN ProgramTraining : Meets(ix, ClientTraining[ix], ProgramTraining[ix])
    /\ \A ix \in CoSigned, i \in 1 .. 3 : InMessage(ix, Built(ix).accounts[i]) = Built(ix).accounts[i]
    /\ ClientSeeds = ProgramSeeds
=============================================================================
