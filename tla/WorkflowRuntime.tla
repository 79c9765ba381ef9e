--------------------------- MODULE WorkflowRuntime ---------------------------
(***************************************************************************)
(* WorkflowRuntime.process (runtime.py) with the tool gateway it calls     *)
(* (tools.py): what a worker does with one delivery between claiming it    *)
(* and reporting it to the queue.                                          *)
(*                                                                         *)
(* Each action is one access to the store or one call of the tool backend, *)
(* with the local computation around it; other processes run, and a crash  *)
(* can strike, between any two.  The choice of the agent is local, so it   *)
(* is made in the step that saves it.                                      *)
(*                                                                         *)
(* process() leaves in one of three ways: it returns (wpc = "ack"), raises *)
(* RetryableWorkflowError, which includes a lost version check             *)
(* (wpc = "retry"), or raises PermanentWorkflowError (wpc = "perm_ack").   *)
(***************************************************************************)
EXTENDS SQLiteStore, PermissionPolicy, LoopDetector

CONSTANTS
    Workers,        \* worker processes
    MaxTimeouts     \* bound on tool calls that act and then lose their answer

VARIABLES
    wpc,            \* where each worker stands
    delivery,       \* the delivery it claimed
    state,          \* its copy of the checkpoint (the variable state of process())
    call,           \* the tool call being executed
    result,         \* the result the gateway got
    effects,        \* how often the backend carried out each call (outside the program)
    timeouts        \* how many of those lost their answer

localVars == <<delivery, state, call, result>>
runtimeVars == <<wpc, localVars, effects, timeouts>>

RuntimePC == {"load", "running", "decide", "denied", "pend", "create_approval",
              "approval", "execute", "backend", "save_result", "record"}

\* "dead_delete" is a place on AWS only, between the two calls of retry_or_dead_letter.
WorkerPC == RuntimePC \cup {"idle", "ack", "enqueue", "retry", "dead_delete", "dead",
                            "dead_save", "perm_ack", "perm_load", "perm_save"}

Delivery == [id : Nat, task_id : Tasks, attempts : Nat]

\* A worker at rest holds nothing.
NoDelivery == [id |-> 0, task_id |-> SomeTask, attempts |-> 0]

RuntimeTypeOK ==
    /\ wpc \in [Workers -> WorkerPC]
    /\ delivery \in [Workers -> Delivery]
    /\ state \in [Workers -> Checkpoint]
    /\ call \in [Workers -> Calls \cup {NoCall}]
    /\ result \in [Workers -> Results \cup {NoResult}]
    /\ effects \in [Key -> Nat]
    /\ timeouts \in Nat

RuntimeInit ==
    /\ wpc = [w \in Workers |-> "idle"]
    /\ delivery = [w \in Workers |-> NoDelivery]
    /\ state = [w \in Workers |-> NewWorkflow]
    /\ call = [w \in Workers |-> NoCall]
    /\ result = [w \in Workers |-> NoResult]
    /\ effects = [key \in Key |-> 0]
    /\ timeouts = 0

-----------------------------------------------------------------------------
(* Helpers *)

Task(w) == delivery[w].task_id

CurrentKey(w) == action_id(Task(w), call[w])

Goto(w, pc) == wpc' = [wpc EXCEPT ![w] = pc]

\* process() is over: its local variables are gone.
LeaveProcess(w, pc) ==
    /\ Goto(w, pc)
    /\ state' = [state EXCEPT ![w] = NewWorkflow]
    /\ call' = [call EXCEPT ![w] = NoCall]
    /\ result' = [result EXCEPT ![w] = NoResult]
    /\ UNCHANGED delivery

\* process() returns new: run_once acknowledges and looks at its status only.
Return(w, new) ==
    /\ Goto(w, "ack")
    /\ state' = [state EXCEPT ![w] = [NewWorkflow EXCEPT !.status = new.status]]
    /\ call' = [call EXCEPT ![w] = NoCall]
    /\ result' = [result EXCEPT ![w] = NoResult]
    /\ UNCHANGED delivery

\* save_workflow(new) raised ConcurrentUpdateError, a RetryableWorkflowError.
StaleSave(w, new) ==
    /\ ~VersionMatches(Task(w), new)
    /\ UNCHANGED storeVars
    /\ LeaveProcess(w, "retry")

\* new is saved and process() goes on at pc.
SaveAndGoto(w, new, pc) ==
    \/ /\ save_workflow(Task(w), new)
       /\ state' = [state EXCEPT ![w] = Saved(new)]
       /\ Goto(w, pc)
       /\ UNCHANGED <<delivery, call, result>>
    \/ StaleSave(w, new)

\* new is saved and process() returns it.
SaveAndReturn(w, new) ==
    \/ save_workflow(Task(w), new) /\ Return(w, new)
    \/ StaleSave(w, new)

\* new is saved and the error goes on to run_once, as a failed save does.
SaveAndRaise(w, new) ==
    \/ save_workflow(Task(w), new) /\ LeaveProcess(w, "retry")
    \/ StaleSave(w, new)

\* _fail keeps the pending action.
Fail(w) == SaveAndReturn(w, [state[w] EXCEPT !.status = "FAILED"])

\* A retryable failure is checkpointed as QUEUED before it is raised.
FailRetryably(w) == SaveAndRaise(w, [state[w] EXCEPT !.status = "QUEUED"])

-----------------------------------------------------------------------------
(* process *)

\* The action somebody approved is forgotten.
MutantAfterLoadRestart(checkpoint) == "running"

AfterLoad(checkpoint) ==
    IF checkpoint.pending_action # NoCall THEN "approval" ELSE "running"

Resumable(checkpoint) == ~terminal(checkpoint) /\ checkpoint.status # "WAITING_FOR_APPROVAL"

\* A workflow that is over or waits for a human is returned as it is.
Load(w) ==
    /\ wpc[w] = "load"
    /\ \/ /\ ~Resumable(workflows[Task(w)])
          /\ Return(w, workflows[Task(w)])
       \/ /\ Resumable(workflows[Task(w)])
          /\ Goto(w, AfterLoad(workflows[Task(w)]))
          /\ state' = [state EXCEPT ![w] = workflows[Task(w)]]
          /\ UNCHANGED <<delivery, call, result>>
    /\ UNCHANGED <<storeVars, effects, timeouts>>

SaveRunning(w) ==
    /\ wpc[w] = "running"
    /\ SaveAndGoto(w, [state[w] EXCEPT !.status = "RUNNING"], "decide")
    /\ UNCHANGED <<effects, timeouts>>

\* engine.decide raised RetryableWorkflowError.
ModelFailsRetryably(w) ==
    /\ wpc[w] = "decide"
    /\ FailRetryably(w)
    /\ UNCHANGED <<effects, timeouts>>

\* engine.decide raised PermanentWorkflowError: nothing is saved here.
ModelFailsPermanently(w) ==
    /\ wpc[w] = "decide"
    /\ LeaveProcess(w, "perm_ack")
    /\ UNCHANGED <<storeVars, effects, timeouts>>

DecideComplete(w) ==
    /\ wpc[w] = "decide"
    /\ SaveAndReturn(w, [state[w] EXCEPT !.status = "COMPLETED"])
    /\ UNCHANGED <<effects, timeouts>>

DecideFail(w) ==
    /\ wpc[w] = "decide"
    /\ Fail(w)
    /\ UNCHANGED <<effects, timeouts>>

\* The agent asked for c: the request and the evidence it was made on are recorded.
Requested(checkpoint, c) ==
    [checkpoint EXCEPT !.tool_history = Append(@, c.tool),
                       !.progress_history = Append(@, checkpoint.evidence)]

LoopDetected(checkpoint) == LoopReason(checkpoint.tool_history, checkpoint.progress_history)

\* Not the code, as every Mutant... definition: a bug a run must catch.
\* Only blocked calls are held back.
MutantAfterPolicyNoHuman(c) == IF Allowed(c) THEN "execute" ELSE "denied"

AfterPolicy(c) ==
    CASE ~Allowed(c) -> "denied"
      [] Allowed(c) /\ ApprovalRequired(c) -> "pend"
      [] OTHER -> "execute"

\* Stopped by the loop detector, or saved and passed to the policy.
DecideTool(w, c) ==
    LET requested == Requested(state[w], c)
    IN  /\ wpc[w] = "decide"
        /\ \/ /\ LoopDetected(requested)
              /\ SaveAndReturn(w, [requested EXCEPT !.status = "LOOP_STOPPED"])
           \/ /\ ~LoopDetected(requested)
              /\ save_workflow(Task(w), requested)
              /\ state' = [state EXCEPT ![w] = Saved(requested)]
              /\ call' = [call EXCEPT ![w] = c]
              /\ Goto(w, AfterPolicy(c))
              /\ UNCHANGED <<delivery, result>>
           \/ ~LoopDetected(requested) /\ StaleSave(w, requested)
        /\ UNCHANGED <<effects, timeouts>>

PolicyDenied(w) ==
    /\ wpc[w] = "denied"
    /\ Fail(w)
    /\ UNCHANGED <<effects, timeouts>>

\* process() returns before the approval row is created.
MutantSaveWaitingOnly(w) ==
    /\ wpc[w] = "pend"
    /\ SaveAndReturn(w, [state[w] EXCEPT !.status = "WAITING_FOR_APPROVAL",
                                         !.pending_action = call[w]])
    /\ UNCHANGED <<effects, timeouts>>

\* The checkpoint waits for a human before the approval row exists.
SaveWaiting(w) ==
    /\ wpc[w] = "pend"
    /\ SaveAndGoto(w, [state[w] EXCEPT !.status = "WAITING_FOR_APPROVAL",
                                       !.pending_action = call[w]], "create_approval")
    /\ UNCHANGED <<effects, timeouts>>

CreateApproval(w) ==
    /\ wpc[w] = "create_approval"
    /\ create_approval(CurrentKey(w))
    /\ Return(w, state[w])
    /\ UNCHANGED <<effects, timeouts>>

\* _resume_approved_action: without an approval the copy says WAITING_FOR_APPROVAL
\* but is not saved.
ResumeApprovedAction(w) ==
    LET pending == state[w].pending_action
    IN  /\ wpc[w] = "approval"
        /\ \/ /\ ~IsApproved(action_id(Task(w), pending))
              /\ Return(w, [state[w] EXCEPT !.status = "WAITING_FOR_APPROVAL"])
           \/ /\ IsApproved(action_id(Task(w), pending))
              /\ Goto(w, "execute")
              /\ call' = [call EXCEPT ![w] = pending]
              /\ UNCHANGED <<delivery, state, result>>
        /\ UNCHANGED <<storeVars, effects, timeouts>>

-----------------------------------------------------------------------------
(* _execute_tool and ToolGateway.execute *)

\* The ledger is not consulted.
MutantAfterLookupAgain(w) == IF Allowed(call[w]) THEN "backend" ELSE "denied"

\* The gateway asks the policy again, then the ledger.
AfterLookup(w) ==
    CASE ~Allowed(call[w]) -> "denied"
      [] Allowed(call[w]) /\ tool_results[CurrentKey(w)] # NoResult -> "record"
      [] OTHER -> "backend"

LookupResult(w) ==
    /\ wpc[w] = "execute"
    /\ Goto(w, AfterLookup(w))
    /\ result' = [result EXCEPT ![w] = tool_results[CurrentKey(w)]]
    /\ UNCHANGED <<storeVars, delivery, state, call, effects, timeouts>>

Effect(key) == effects' = [effects EXCEPT ![key] = @ + 1]

\* The result is not persisted.
MutantBackendUnsaved(w, r) ==
    /\ wpc[w] = "backend"
    /\ Effect(CurrentKey(w))
    /\ result' = [result EXCEPT ![w] = r]
    /\ Goto(w, "record")
    /\ UNCHANGED <<storeVars, delivery, state, call, timeouts>>

BackendSucceeds(w, r) ==
    /\ wpc[w] = "backend"
    /\ Effect(CurrentKey(w))
    /\ result' = [result EXCEPT ![w] = r]
    /\ Goto(w, "save_result")
    /\ UNCHANGED <<storeVars, delivery, state, call, timeouts>>

\* The call failed without acting.
BackendFailsRetryably(w) ==
    /\ wpc[w] = "backend"
    /\ FailRetryably(w)
    /\ UNCHANGED <<effects, timeouts>>

\* The call acted and its answer was lost (a client timeout, or an answer the
\* gateway finds invalid): the same error for the runtime.
BackendTimesOut(w) ==
    /\ wpc[w] = "backend"
    /\ timeouts < MaxTimeouts
    /\ timeouts' = timeouts + 1
    /\ Effect(CurrentKey(w))
    /\ FailRetryably(w)

BackendFailsPermanently(w) ==
    /\ wpc[w] = "backend"
    /\ Fail(w)
    /\ UNCHANGED <<effects, timeouts>>

\* Valid answers are refused.
MutantSaveToolResult(w) == wpc[w] = "save_result" /\ FailRetryably(w) /\ UNCHANGED <<effects, timeouts>>

SaveToolResult(w) ==
    /\ wpc[w] = "save_result"
    /\ save_tool_result(CurrentKey(w), result[w])
    /\ Goto(w, "record")
    /\ UNCHANGED <<localVars, effects, timeouts>>

\* The workflow gets a status of the queue.
MutantCompletedPending(checkpoint, tool, r) ==
    LET evidence == [checkpoint.evidence EXCEPT ![tool] = r]
    IN  [checkpoint EXCEPT !.evidence = evidence,
                           !.progress_history = Append(@, evidence),
                           !.pending_action = NoCall,
                           !.status = "PENDING"]

\* The result becomes evidence, whatever the ledger kept, and the step is complete.
Completed(checkpoint, tool, r) ==
    LET evidence == [checkpoint.evidence EXCEPT ![tool] = r]
    IN  [checkpoint EXCEPT !.evidence = evidence,
                           !.progress_history = Append(@, evidence),
                           !.pending_action = NoCall,
                           !.status = "QUEUED"]

RecordResult(w) ==
    /\ wpc[w] = "record"
    /\ SaveAndReturn(w, Completed(state[w], call[w].tool, result[w]))
    /\ UNCHANGED <<effects, timeouts>>

-----------------------------------------------------------------------------
ProcessStep(w) ==
    \/ Load(w)
    \/ SaveRunning(w)
    \/ ModelFailsRetryably(w)
    \/ ModelFailsPermanently(w)
    \/ DecideComplete(w)
    \/ DecideFail(w)
    \/ \E c \in Calls : DecideTool(w, c)
    \/ PolicyDenied(w)
    \/ SaveWaiting(w)
    \/ CreateApproval(w)
    \/ ResumeApprovedAction(w)
    \/ LookupResult(w)
    \/ \E r \in Results : BackendSucceeds(w, r)
    \/ BackendFailsRetryably(w)
    \/ BackendTimesOut(w)
    \/ BackendFailsPermanently(w)
    \/ SaveToolResult(w)
    \/ RecordResult(w)
=============================================================================
