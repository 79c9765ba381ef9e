------------------------- MODULE MCAgentResilience -------------------------
(* Small instances of AgentResilience for TLC. *)
EXTENDS DocumentedClaims, MCCalls, TLC

\* Workers are alike, and so are results.
WorkerSymmetry == Permutations(Workers)
Symmetry == Permutations(Workers) \cup Permutations(Results)
=============================================================================
