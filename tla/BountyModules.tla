--------------------------- MODULE BountyModules ---------------------------
(* The modules that bounties are posted for.  What the gate and the        *)
(* registry promise does not depend on where a bounty is, so it is looked  *)
(* at in the initial states of Posting.                                    *)
EXTENDS Posting, ConformanceGate, ModuleRegistry

\* A module that passes the gate can serve every bounty it may be posted for;
\* it is not turned away for what the gate happens to draw, nor admitted, if it
\* answers the coordinator otherwise than the worker throughout, but by the draws
\* that start like the worker; its row stays its publisher's; verification runs
\* the artifact that the job pins; and a call gives back the module's memory.
GateSound == Init => Served /\ Repeatable /\ PublisherKept(Wallets) /\ Pinned /\ MemoryKept
=============================================================================
