-------------------------- MODULE OperationsBackend --------------------------
(***************************************************************************)
(* The two tool backends: ScenarioBackend (tools.py), which answers from a *)
(* fixture, and AWSOperationsBackend (aws_tools.py), which reads and       *)
(* restarts a service that lives on beside the runtime.  The service is    *)
(* the demo workload (demo_service.py) on ECS, its metric is CloudWatch's. *)
(***************************************************************************)
EXTENDS DurableWorker

\* after_restart: what a fixture says of verify_recovery once the service was restarted.
\* transient: the tools whose first attempt a fixture makes fail.
Backend == [adapter : {"scenario", "aws"}, after_restart : {"healthy", "unhealthy"},
            transient : SUBSET ToolName]

CONSTANT Backends       \* the backends the runtime may be started with

ASSUME OperationsBackendAssumption == Backends \subseteq Backend

VARIABLES
    backend,        \* the one it was started with
    unhealthy,      \* the workload answers 503
    rollout,        \* ECS is replacing the tasks of the service
    sample_ok       \* the latest datapoint exists and its error rate is below 1%

serviceVars == <<unhealthy, rollout, sample_ok>>
backendVars == <<backend, serviceVars>>

BackendTypeOK ==
    /\ backend \in Backends
    /\ {unhealthy, rollout, sample_ok} \subseteq BOOLEAN

BackendInit ==
    /\ backend \in Backends
    /\ unhealthy = (backend.adapter = "aws")
    /\ rollout = FALSE
    /\ sample_ok = FALSE

-----------------------------------------------------------------------------
(* ScenarioBackend.execute *)

attempt(w) == Cardinality({i \in DOMAIN state[w].tool_history :
                                state[w].tool_history[i] = call[w].tool})

Transient(w) == call[w].tool \in backend.transient /\ attempt(w) = 1

ScenarioResult(w) ==
    IF call[w].tool # "verify_recovery" THEN "evidence"
    ELSE IF "restart_service" \in completed_steps(state[w]) THEN backend.after_restart
    ELSE "unhealthy"

ScenarioExecute(w) ==
    /\ backend.adapter = "scenario"
    /\ \/ Transient(w) /\ BackendFailsRetryably(w)
       \/ ~Transient(w) /\ BackendSucceeds(w, ScenarioResult(w))
    /\ UNCHANGED serviceVars

-----------------------------------------------------------------------------
(* AWSOperationsBackend.execute *)

\* _classify: throttling and transport errors are retryable, every other error of
\* AWS and a service that does not exist are permanent.
AWSCallFails(w) ==
    /\ BackendFailsRetryably(w) \/ BackendFailsPermanently(w)
    /\ UNCHANGED serviceVars

\* _read_alert, _inspect_metrics, _query_logs, _service_health
ReadService(w) ==
    /\ call[w].tool \notin {"restart_service", "verify_recovery"}
    /\ BackendSucceeds(w, "evidence")
    /\ UNCHANGED serviceVars

\* update_service(forceNewDeployment=True) answers when the rollout starts.
RestartService(w) ==
    /\ call[w].tool = "restart_service"
    /\ BackendSucceeds(w, "evidence") \/ BackendTimesOut(w)
    /\ rollout' = TRUE
    /\ UNCHANGED <<unhealthy, sample_ok>>

\* Not the code, as every Mutant... definition: a bug a run must catch.
\* The metric alone decides.
MutantRecovered == sample_ok

\* The rollout is over and the latest datapoint of the last 15 minutes is good,
\* whenever it was published.
Recovered == ~rollout /\ sample_ok

\* Whatever is not recovery yet is retryable.  The two reads are one step here: only
\* another worker's restart could come between them.
VerifyRecovery(w) ==
    /\ call[w].tool = "verify_recovery"
    /\ \/ Recovered /\ BackendSucceeds(w, "healthy")
       \/ ~Recovered /\ BackendFailsRetryably(w)
    /\ UNCHANGED serviceVars

AWSExecute(w) ==
    /\ backend.adapter = "aws"
    /\ \/ AWSCallFails(w)
       \/ ReadService(w)
       \/ RestartService(w)
       \/ VerifyRecovery(w)

Execute(w) == (ScenarioExecute(w) \/ AWSExecute(w)) /\ UNCHANGED backend

-----------------------------------------------------------------------------
(* The service *)

\* fail_after_seconds after its process started the workload fails.
Degrade ==
    /\ ~unhealthy
    /\ unhealthy' = TRUE
    /\ UNCHANGED <<rollout, sample_ok>>

\* _publish_samples; in a rollout the new process publishes beside the old one.
PublishSample ==
    /\ \/ sample_ok' = ~unhealthy
       \/ rollout /\ sample_ok' = TRUE
    /\ UNCHANGED <<unhealthy, rollout>>

\* The old process is gone and the new one has just started.
RolloutCompletes ==
    /\ rollout
    /\ rollout' = FALSE
    /\ unhealthy' = FALSE
    /\ UNCHANGED sample_ok

ServiceStep ==
    /\ backend.adapter = "aws"
    /\ Degrade \/ PublishSample \/ RolloutCompletes
    /\ UNCHANGED backend
=============================================================================
