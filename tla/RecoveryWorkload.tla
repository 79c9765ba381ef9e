-------------------------- MODULE RecoveryWorkload --------------------------
(***************************************************************************)
(* The runtime with its reference agent and a real backend: the whole way  *)
(* from an alert over the approved restart to verified recovery, with      *)
(* processes that die, leases that pass and answers that are lost.         *)
(***************************************************************************)
EXTENDS AgentResilience, DecisionEngine, OperationsBackend

recoveryVars == <<vars, backendVars>>

\* What the engine decides is applied to the copy the worker holds.
Decide(w) ==
    LET decision == decide(state[w])
    IN  \/ decision \in ToolName /\ DecideTool(w, CallOf(decision))
        \/ decision = "complete" /\ DecideComplete(w)
        \/ decision = "fail" /\ DecideFail(w)

\* process() with the engine and the backend filled in.
RecoveryProcess(w) ==
    \/ Decide(w) /\ UNCHANGED backendVars
    \/ wpc[w] = "backend" /\ Execute(w)
    \/ wpc[w] \notin {"decide", "backend"} /\ ProcessStep(w) /\ UNCHANGED backendVars

RecoveryRunOnce(w) ==
    /\ \/ RecoveryProcess(w) /\ UNCHANGED <<crashes, stalls>>
       \/ wpc[w] \notin RuntimePC /\ RunOnceStep(w) /\ UNCHANGED backendVars
    /\ UNCHANGED handlerVars

RecoveryInit == Init /\ BackendInit

Disturbance ==
    \/ /\ \/ \E w \in Workers : Heartbeat(w) \/ WorkerCrash(w)
          \/ \E i \in DOMAIN queue : LeaseExpires(i)
       /\ UNCHANGED handlerVars
    \/ \E h \in Handlers : HandlerCrash(h)

RecoveryNext ==
    \/ \E w \in Workers : RecoveryRunOnce(w)
    \/ ControlStep /\ UNCHANGED <<workerVars, backendVars>>
    \/ Disturbance /\ UNCHANGED backendVars
    \/ ServiceStep /\ UNCHANGED vars

RecoverySpec == RecoveryInit /\ [][RecoveryNext]_recoveryVars

\* The fairness of FairSpec: workers poll, requests are served, abandoned leases pass.
FairRecoverySpec ==
    /\ RecoverySpec
    /\ \A w \in Workers : WF_recoveryVars(RecoveryRunOnce(w))
    /\ \A h \in Handlers : WF_recoveryVars(HandlerStep(h) /\ UNCHANGED <<workerVars, backendVars>>)
    /\ WF_recoveryVars(AbandonedLeasePasses /\ UNCHANGED backendVars)

-----------------------------------------------------------------------------
RecoveryTypeOK == TypeOK /\ BackendTypeOK

RestartKey(task) == action_id(task, CallOf("restart_service"))

\* No other incident has restarted the service: they all name the same one.
Alone(task) == \A other \in Tasks \ {task} : effects[RestartKey(other)] = 0

\* An incident is closed as recovered only after a restart that a human approved and
\* that took place, and, when it is undisturbed and the only one to restart the service,
\* never while that restart is being rolled out, whatever answer the ledger kept for a
\* worker that died (decide, _verify_recovery, execute).
CompletedIsRecovered ==
    \A task \in Tasks :
        workflows[task].status = "COMPLETED" =>
            /\ approvals[RestartKey(task)] = "APPROVED"
            /\ effects[RestartKey(task)] > 0
            /\ Undisturbed /\ Alone(task) => ~rollout

\* EXPECTED_STEPS of the verifier, in its order.
ExpectedSteps == <<"read_alert", "inspect_metrics", "query_logs", "dependency_health",
                   "restart_service", "verify_recovery">>

\* A worker that takes over goes on at the first step that is missing: steps are
\* completed one by one in the order the verifier expects and none is lost, and the
\* result a worker saves is never that of a step somebody has completed before, whoever
\* resumes after a crash (verify, decide, _execute_tool).
ResumesAtNextStep ==
    [][/\ \A task \in Tasks :
            LET old == completed_steps(workflows[task])
                new == completed_steps(workflows'[task])
            IN  new # old => new = old \cup {ExpectedSteps[Cardinality(old) + 1]}
       /\ \A w \in Workers :
            wpc[w] = "record" /\ wpc'[w] = "ack" =>
                call[w].tool \notin completed_steps(workflows[Task(w)])]_recoveryVars

\* One crash or one injected failure is never taken for an agent that runs in circles:
\* a step may be asked for once more without reaching the threshold of the loop
\* detector, which sees every request and every answer (LoopDetector.reason).
OneFaultIsNoLoop ==
    /\ backend.adapter = "scenario"
    /\ stalls = 0
    /\ crashes + Cardinality(backend.transient) <= 1
    => \A task \in Tasks : workflows[task].status # "LOOP_STOPPED"

\* The requests of a human come between two calls of run_once (evaluate).
Sequential == \A h \in Handlers : hpc[h] # "idle" => \A w \in Workers : wpc[w] = "idle"

\* What a case of the evaluation expects of an incident at its end, or at the approval.
AsExpected(task) ==
    LET status == workflows[task].status
        verdict == approvals[RestartKey(task)]
    IN  \/ status = "WAITING_FOR_APPROVAL" /\ verdict = "PENDING"
        \/ status = "HUMAN_REJECTED" /\ verdict = "REJECTED"
        \/ /\ status = IF backend.after_restart = "healthy" THEN "COMPLETED" ELSE "FAILED"
           /\ verdict = "APPROVED"

\* Every incident of a fixture gets as far as its approval and ends as its case says,
\* if nothing but the injected failures goes wrong (evaluate in run_local.py).
EvaluationPasses ==
    /\ backend.adapter = "scenario"
    /\ [](Sequential /\ crashes + stalls = 0)
    => \A task \in Tasks : task \in created ~> AsExpected(task)

\* docs/milestone4-acceptance.md: "Post-restart ECS/metric convergence is explicitly
\* retryable" (process appends to both histories at every retry of verify_recovery).
ConvergenceIsRetried ==
    \A task \in Tasks :
        workflows[task].status = "LOOP_STOPPED" =>
            ~(rollout /\ "restart_service" \in completed_steps(workflows[task]))
=============================================================================
