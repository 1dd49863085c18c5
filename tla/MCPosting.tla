----------------------------- MODULE MCPosting -----------------------------
(* Constants to model-check Posting with. *)
EXTENDS BountyModules, WireLayout, Protocol

Form(kind, start, end, rate, lineages, price, prize) ==
    [kind |-> kind, start |-> start, end |-> end, rate |-> rate,
     lineages |-> lineages, price |-> price, prize |-> prize]

\* Free and priced coverage in one insert and in two, the last chunk cut short;
\* a price below the floor; training with two lineages of two chunks; a prize.
MCForms ==
    {Form("coverage", 1, 4, 1, 0, 0, 0), Form("coverage", 1, 6, 1, 0, 0, 0),
     Form("coverage", 1, 6, 1, 0, 2, 0), Form("coverage", 0, 7, 3, 0, 1, 0),
     Form("training", 0, 4, 0, 2, 2, 0), Form("prize", 0, 1, 0, 0, 0, 3)}

\* Every chunk that a bounty is cut into passes the schema of its assignment.
AssignmentsParse ==
    \A f \in Forms : Accepted(f) => \A i \in DOMAIN FirstRows(f) :
        \A r \in {FirstRows(f)[i]} \cup Successors(f, FirstRows(f)[i]) :
            ChunkAssignment([range_start |-> Text(r[1]), range_end |-> Text(r[2]), bucket_size |-> BUCKET])

\* What one party writes another reads as it was meant, on both wires.  The
\* hand-written chain client builds what the program takes and reads what it
\* writes: accounts in order and with their rights, arguments, fields and
\* addresses.  Between workers and coordinator, signatures bind what they were
\* made over, the schemas let through what verification needs and nothing that
\* reads two ways, and every chunk of a bounty can be assigned.
WiresAgree == Init => SidesAgree /\ MessagesAgree /\ AssignmentsParse
=============================================================================
