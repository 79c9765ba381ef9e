------------------------- MODULE MCRecoveryWorkload -------------------------
(* A small instance of RecoveryWorkload for TLC. *)
EXTENDS RecoveryWorkload

\* The calls of the reference agent.
EngineCalls == {[tool |-> tool, environment |-> "production", target |-> "checkout-service"] :
                    tool \in ToolName \ {"delete_database"}}

OnAWS == [adapter |-> "aws", after_restart |-> "healthy", transient |-> {}]

\* A fixture of a case of the evaluation, with the tools whose first call it makes fail.
Fixture(after, tools) ==
    [adapter |-> "scenario", after_restart |-> after, transient |-> tools]

AWSBackends == {OnAWS}
AllBackends == {OnAWS, Fixture("healthy", {"inspect_metrics"}), Fixture("unhealthy", {})}
=============================================================================
