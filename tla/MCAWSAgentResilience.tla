------------------------ MODULE MCAWSAgentResilience ------------------------
(* A small instance of AWSAgentResilience for TLC. *)
EXTENDS AWSAgentResilience, MCCalls, TLC

WorkerSymmetry == Permutations(Workers)
=============================================================================
