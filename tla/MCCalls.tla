------------------------------- MODULE MCCalls -------------------------------
(* The tool calls of the small instances. *)
EXTENDS Models

Of(tool, environment) == [tool |-> tool, environment |-> environment, target |-> "service"]

Inspect == Of("inspect_metrics", "production")
Restart == Of("restart_service", "production")
Delete  == Of("delete_database", "production")

\* One call the policy blocks and one it sends to a human.
GuardedCalls == {Delete, Restart}

\* A call that needs a human.
RestartCalls == {Restart}

\* A call that runs at once.
InspectCalls == {Inspect}

\* One call that runs at once and one that needs a human.
MixedCalls == {Inspect, Restart}
=============================================================================
