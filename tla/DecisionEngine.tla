--------------------------- MODULE DecisionEngine ---------------------------
(***************************************************************************)
(* DeterministicDecisionEngine (decision.py): the reference agent, a       *)
(* function of the checkpoint.  The other engine asks a language model and *)
(* may decide anything; AgentResilience lets its agent do just that.       *)
(***************************************************************************)
EXTENDS Models, FiniteSetsExt

\* Not the code, as every Mutant... definition: a bug a run must catch.
\* Recovery is looked for before the restart.
MutantSteps == <<"read_alert", "inspect_metrics", "query_logs", "dependency_health",
                 "verify_recovery", "restart_service">>

\* The order in which the engine looks for what is missing.
Steps == <<"read_alert", "inspect_metrics", "query_logs", "dependency_health",
           "restart_service", "verify_recovery">>

\* Every tool is called with the same service and environment.
CallOf(tool) == [tool |-> tool, environment |-> "production", target |-> "checkout-service"]

ASSUME DecisionEngineAssumption ==
    /\ {CallOf(Steps[i]) : i \in DOMAIN Steps} \subseteq Calls
    /\ {"evidence", "healthy", "unhealthy"} \subseteq Results

Missing(checkpoint) == {i \in DOMAIN Steps : checkpoint.evidence[Steps[i]] = NoResult}

\* The first missing step, or the end: an error rate below 1% in the evidence of
\* verify_recovery is "healthy".
decide(checkpoint) ==
    IF Missing(checkpoint) # {} THEN Steps[Min(Missing(checkpoint))]
    ELSE IF checkpoint.evidence["verify_recovery"] = "healthy" THEN "complete" ELSE "fail"
=============================================================================
