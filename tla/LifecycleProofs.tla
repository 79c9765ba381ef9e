--------------------------- MODULE LifecycleProofs ---------------------------
(***************************************************************************)
(* Status, pending action, approval and ledger of an incident agree        *)
(* although they are written in different transactions by whichever worker *)
(* or request gets to it: a queued action has been approved, and a waiting *)
(* incident has an approval row or a worker about to create it.            *)
(*                                                                         *)
(* The argument is about the ways of a checkpoint (RowChange): a saver     *)
(* holds a copy equal to the row (AgentResilienceProofs), so what it knows *)
(* of its copy when it saves, it knows of the row.                         *)
(*                                                                         *)
(* The same ways show that the deployed runtime implements the lifecycle   *)
(* of an incident.  Each step changes at most one checkpoint, or one       *)
(* approval row, or the effects, or adds an incident; the ways of a        *)
(* checkpoint are lifecycle steps on what the mapping shows of it, and for *)
(* approvals and effects the worker or the request that acts knows enough  *)
(* of the pending action.                                                  *)
(***************************************************************************)
EXTENDS AgentResilienceProofs, Implementation

OpenStatus == {"QUEUED", "RUNNING"}

ToolPC == {"execute", "backend", "save_result", "record"}

\* What a worker inside process() knows of the action it is about.
WorkerWay(w) ==
    /\ wpc[w] \in RuntimePC \ {"load", "create_approval"} => state[w].status \in OpenStatus
    /\ wpc[w] \in {"running", "decide", "pend"} => state[w].pending_action = NoCall
    /\ wpc[w] = "pend" => Allowed(call[w]) /\ ApprovalRequired(call[w])
    /\ wpc[w] = "create_approval" /\ approvals[CurrentKey(w)] = "NONE" =>
            workflows[Task(w)].pending_action = call[w]
    /\ wpc[w] \in ToolPC =>
            \/ state[w].pending_action = NoCall
            \/ state[w].pending_action = call[w] /\ approvals[CurrentKey(w)] = "APPROVED"
    /\ wpc[w] \in {"save_result", "record"} => effects[CurrentKey(w)] > 0

\* What a request knows of the action it resolves.
HandlerWay(h) ==
    /\ hpc[h] \in HandlerPC \ {"idle", "approve_enqueue"} =>
            /\ hstate[h].status = "WAITING_FOR_APPROVAL"
            /\ hstate[h].pending_action # NoCall
    /\ hpc[h] = "approve_save" => approvals[PendingKey(h)] = "APPROVED"
    /\ hpc[h] = "reject_save" => approvals[PendingKey(h)] = "REJECTED"

LedgerPerformed == \A key \in Key : tool_results[key] # NoResult => effects[key] > 0

RowKey(task) == action_id(task, workflows[task].pending_action)

\* A waiting checkpoint whose approval row is missing has a worker about to create that
\* very row, unless a process died.
Asked ==
    crashes = 0 =>
        \A task \in Tasks :
            workflows[task].status = "WAITING_FOR_APPROVAL" =>
                /\ workflows[task].pending_action # NoCall
                /\ approvals[RowKey(task)] = "NONE" =>
                        \E w \in Workers : wpc[w] = "create_approval" /\ CurrentKey(w) = RowKey(task)

LifecycleInv ==
    /\ \A w \in Workers : WorkerWay(w)
    /\ \A h \in Handlers : HandlerWay(h)
    /\ LedgerPerformed
    /\ Asked
    /\ QueuedPendingIsApproved

-----------------------------------------------------------------------------
(* The ways of a checkpoint *)

\* Status and pending action are all that matters here.
Proceeds(task, old, new) ==
    /\ {old.status, new.status} \subseteq OpenStatus
    /\ new.pending_action = old.pending_action
    /\ old.pending_action # NoCall => approvals[action_id(task, old.pending_action)] = "APPROVED"

\* The worker that saved it goes on to create the approval row.
Asks(task, old, new) ==
    /\ old.status \in OpenStatus /\ new.status = "WAITING_FOR_APPROVAL"
    /\ old.pending_action = NoCall /\ new.pending_action \in Calls
    /\ Allowed(new.pending_action) /\ ApprovalRequired(new.pending_action)
    /\ \E w \in Workers :
            wpc'[w] = "create_approval" /\ CurrentKey(w)' = action_id(task, new.pending_action)

Releases(task, old, new) ==
    /\ old.status = "WAITING_FOR_APPROVAL" /\ new.status = "QUEUED"
    /\ new.pending_action = old.pending_action
    /\ old.pending_action # NoCall
    /\ approvals[action_id(task, old.pending_action)] = "APPROVED"

Refuses(task, old, new) ==
    /\ old.status = "WAITING_FOR_APPROVAL" /\ new.status = "HUMAN_REJECTED"
    /\ old.pending_action # NoCall /\ new.pending_action = NoCall
    /\ approvals[action_id(task, old.pending_action)] = "REJECTED"

Concludes(task, old, new) ==
    /\ old.status \in OpenStatus /\ new.status = "QUEUED"
    /\ old.pending_action # NoCall /\ new.pending_action = NoCall
    /\ approvals[action_id(task, old.pending_action)] = "APPROVED"
    /\ effects[action_id(task, old.pending_action)] > 0

Closes(old, new) ==
    /\ old.status \in OpenStatus \cup {"WAITING_FOR_APPROVAL"}
    /\ new.status \in TerminalStatus \ {"HUMAN_REJECTED"}
    /\ new.pending_action = old.pending_action

RowChange(task, old, new) ==
    \/ Proceeds(task, old, new)
    \/ Asks(task, old, new)
    \/ Releases(task, old, new)
    \/ Refuses(task, old, new)
    \/ Concludes(task, old, new)
    \/ Closes(old, new)

\* A replay is the only step that looks at nothing.
Reopens(task) ==
    /\ workflows'[task].status = "QUEUED"
    /\ workflows'[task].pending_action = workflows[task].pending_action
    /\ replays' = replays + 1

RowStep(task) ==
    \/ workflows'[task] = workflows[task]
    \/ RowChange(task, workflows[task], workflows'[task]) /\ replays' = replays
    \/ Reopens(task)

\* The version does not matter.
LEMMA RowChangeSaved ==
  ASSUME NEW task, NEW old, NEW new \in Checkpoint
  PROVE  RowChange(task, old, Saved(new)) <=> RowChange(task, old, new)
<1>1. Saved(new).status = new.status /\ Saved(new).pending_action = new.pending_action
  BY DEF Saved, Checkpoint
<1> QED
  BY <1>1 DEF RowChange, Proceeds, Asks, Releases, Refuses, Concludes, Closes

LEMMA SaveRow ==
  ASSUME StoreTypeOK, NEW task \in Tasks, NEW copy \in Checkpoint, FreshCopy(copy, task),
         NEW new \in Checkpoint, new.version = copy.version, RowChange(task, copy, new),
         save_workflow(task, new), UNCHANGED replays
  PROVE  RowStep(task)
<1>1. workflows[task] = copy
  BY DEF save_workflow, VersionMatches, FreshCopy
<1>2. workflows'[task] = Saved(new)
  BY DEF save_workflow, StoreTypeOK
<1> QED
  BY <1>1, <1>2, RowChangeSaved DEF RowStep

LEMMA WorkerSaveRow ==
  ASSUME NEW w \in Workers, Holding(w), NEW new \in Checkpoint, NEW pc,
         new.version = state[w].version, RowChange(Task(w), state[w], new), UNCHANGED replays,
         \/ save_workflow(Task(w), new) \/ StaleSave(w, new)
         \/ SaveAndReturn(w, new) \/ SaveAndRaise(w, new) \/ SaveAndGoto(w, new, pc)
  PROVE  RowStep(Task(w))
<1>1. StoreTypeOK /\ Task(w) \in Tasks /\ state[w] \in Checkpoint /\ FreshCopy(state[w], Task(w))
  BY HeldTypes DEF Holding, Busy
<1>2. CASE save_workflow(Task(w), new)
  BY <1>1, <1>2, SaveRow
<1>3. CASE UNCHANGED storeVars
  BY <1>3 DEF storeVars, RowStep
<1> QED
  BY <1>2, <1>3 DEF StaleSave, SaveAndReturn, SaveAndRaise, SaveAndGoto

LEMMA StatusFields ==
  ASSUME NEW s \in Checkpoint, NEW status \in WorkflowStatus, NEW new,
         new = [s EXCEPT !.status = status]
  PROVE  /\ new \in Checkpoint /\ new.version = s.version /\ new.status = status
         /\ new.pending_action = s.pending_action
<1>1. new \in Checkpoint
  BY StatusType
<1> QED
  BY <1>1 DEF Checkpoint

LEMMA RequestedFields ==
  ASSUME NEW s \in Checkpoint, NEW c \in Calls
  PROVE  /\ Requested(s, c) \in Checkpoint /\ Requested(s, c).version = s.version
         /\ Requested(s, c).status = s.status
         /\ Requested(s, c).pending_action = s.pending_action
  BY RequestedType DEF Requested, Checkpoint

LEMMA CompletedFields ==
  ASSUME NEW s \in Checkpoint, NEW tool, NEW r \in Results
  PROVE  /\ Completed(s, tool, r) \in Checkpoint /\ Completed(s, tool, r).version = s.version
         /\ Completed(s, tool, r).status = "QUEUED"
         /\ Completed(s, tool, r).pending_action = NoCall
  BY CompletedType DEF Completed, Checkpoint

-----------------------------------------------------------------------------
(* What a worker does to the row of its task *)

LEMMA DecideToolRow ==
  ASSUME NEW w \in Workers, Holding(w), WorkerWay(w), NEW c \in Calls, DecideTool(w, c),
         UNCHANGED replays
  PROVE  RowStep(Task(w))
<1> DEFINE s == state[w]
           requested == Requested(s, c)
           stopped == [requested EXCEPT !.status = "LOOP_STOPPED"]
<1>1. s \in Checkpoint /\ s.status \in OpenStatus /\ s.pending_action = NoCall
  BY HeldTypes DEF Holding, DecideTool, WorkerWay, RuntimePC
<1>2. /\ requested \in Checkpoint /\ requested.version = s.version
      /\ requested.status = s.status /\ requested.pending_action = s.pending_action
  BY <1>1, RequestedFields
<1>3. /\ stopped \in Checkpoint /\ stopped.version = s.version
      /\ stopped.status = "LOOP_STOPPED" /\ stopped.pending_action = s.pending_action
  BY <1>2, StatusFields DEF WorkflowStatus
<1> HIDE DEF requested, stopped
<1>4. RowChange(Task(w), s, requested)
  BY <1>1, <1>2 DEF RowChange, Proceeds
<1>5. RowChange(Task(w), s, stopped)
  BY <1>1, <1>3 DEF RowChange, Closes, TerminalStatus
<1>6. CASE SaveAndReturn(w, stopped)
  BY <1>3, <1>5, <1>6, WorkerSaveRow
<1>7. CASE save_workflow(Task(w), requested) \/ StaleSave(w, requested)
  BY <1>2, <1>4, <1>7, WorkerSaveRow
<1> QED
  BY <1>6, <1>7 DEF DecideTool, requested, stopped

\* A failure keeps the pending action, which is none or approved.
LEMMA FailureRow ==
  ASSUME NEW w \in Workers, Holding(w), WorkerWay(w), UNCHANGED replays,
         NEW status \in {"QUEUED", "RUNNING", "FAILED", "COMPLETED"}, NEW pc,
         status \in OpenStatus => wpc[w] \in {"running", "decide"} \cup ToolPC,
         wpc[w] \in RuntimePC \ {"load", "create_approval"},
         NEW new, new = [state[w] EXCEPT !.status = status],
         SaveAndReturn(w, new) \/ SaveAndRaise(w, new) \/ SaveAndGoto(w, new, pc)
  PROVE  RowStep(Task(w))
<1> DEFINE s == state[w]
<1>1. s \in Checkpoint /\ s.status \in OpenStatus
  BY HeldTypes DEF Holding, WorkerWay
<1>2. /\ new \in Checkpoint /\ new.version = s.version /\ new.status = status
      /\ new.pending_action = s.pending_action
  BY <1>1, StatusFields DEF WorkflowStatus
<1>3. CASE status \in OpenStatus
  <2>1. s.pending_action # NoCall => approvals[action_id(Task(w), s.pending_action)] = "APPROVED"
    BY <1>3 DEF WorkerWay, CurrentKey
  <2>2. RowChange(Task(w), s, new)
    BY <1>1, <1>2, <1>3, <2>1 DEF RowChange, Proceeds
  <2> QED
    BY <1>2, <2>2, WorkerSaveRow
<1>4. CASE status \notin OpenStatus
  <2>1. RowChange(Task(w), s, new)
    BY <1>1, <1>2, <1>4 DEF RowChange, Closes, TerminalStatus, OpenStatus
  <2> QED
    BY <1>2, <2>1, WorkerSaveRow
<1> QED
  BY <1>3, <1>4

LEMMA SaveWaitingRow ==
  ASSUME NEW w \in Workers, Holding(w), WorkerWay(w), SaveWaiting(w), UNCHANGED replays
  PROVE  RowStep(Task(w))
<1> DEFINE s == state[w]
           c == call[w]
           new == [s EXCEPT !.status = "WAITING_FOR_APPROVAL", !.pending_action = c]
<1>1. /\ s \in Checkpoint /\ s.status \in OpenStatus /\ s.pending_action = NoCall
      /\ c \in Calls /\ Allowed(c) /\ ApprovalRequired(c)
  BY HeldTypes
  DEF Holding, Busy, LocalTypeOK, CallChosen, CallPC, SaveWaiting, WorkerWay, RuntimePC
<1>2. SaveAndGoto(w, new, "create_approval")
  BY DEF SaveWaiting
<1>3. /\ new \in Checkpoint /\ new.version = s.version
      /\ new.status = "WAITING_FOR_APPROVAL" /\ new.pending_action = c
  <2>1. c \in Calls \cup {NoCall} /\ "WAITING_FOR_APPROVAL" \in WorkflowStatus
    BY <1>1 DEF WorkflowStatus
  <2>2. new \in Checkpoint
    BY <1>1, <2>1, PendingType
  <2> HIDE DEF s, c
  <2> QED
    BY <1>1, <2>2 DEF Checkpoint
<1> HIDE DEF new
<1>4. CASE StaleSave(w, new)
  BY <1>4 DEF StaleSave, storeVars, RowStep
<1>5. CASE save_workflow(Task(w), new) /\ Goto(w, "create_approval") /\ UNCHANGED <<delivery, call>>
  <2>1. wpc'[w] = "create_approval" /\ CurrentKey(w)' = action_id(Task(w), c)
    BY <1>5 DEF Holding, Busy, LocalTypeOK, Goto, CurrentKey, Task
  <2>2. RowChange(Task(w), s, new)
    BY <1>1, <1>3, <2>1 DEF RowChange, Asks
  <2> QED
    BY <1>3, <1>5, <2>2, WorkerSaveRow
<1> QED
  BY <1>2, <1>4, <1>5 DEF SaveAndGoto

LEMMA RecordRow ==
  ASSUME NEW w \in Workers, Holding(w), ResultInHand, WorkerWay(w), RecordResult(w),
         UNCHANGED replays
  PROVE  RowStep(Task(w))
<1> DEFINE s == state[w]
           new == Completed(s, call[w].tool, result[w])
<1>1. /\ s \in Checkpoint /\ s.status \in OpenStatus /\ result[w] \in Results
      /\ wpc[w] = "record"
  BY HeldTypes DEF Holding, RecordResult, ResultInHand, WorkerWay, RuntimePC
<1>2. SaveAndReturn(w, new)
  BY DEF RecordResult
<1>3. /\ new \in Checkpoint /\ new.version = s.version
      /\ new.status = "QUEUED" /\ new.pending_action = NoCall
  BY <1>1, CompletedFields
<1> HIDE DEF new
<1>4. CASE s.pending_action = NoCall
  <2>1. RowChange(Task(w), s, new)
    BY <1>1, <1>3, <1>4 DEF RowChange, Proceeds, OpenStatus
  <2> QED
    BY <1>2, <1>3, <2>1, WorkerSaveRow
<1>5. CASE s.pending_action # NoCall
  <2>1. /\ s.pending_action = call[w] /\ approvals[CurrentKey(w)] = "APPROVED"
        /\ effects[CurrentKey(w)] > 0
    BY <1>1, <1>5 DEF WorkerWay, ToolPC
  <2>2. RowChange(Task(w), s, new)
    BY <1>1, <1>3, <1>5, <2>1 DEF RowChange, Concludes, CurrentKey
  <2> QED
    BY <1>2, <1>3, <2>2, WorkerSaveRow
<1> QED
  BY <1>4, <1>5

LEMMA ProcessRow ==
  ASSUME NEW w \in Workers, Busy(w), wpc[w] \in CopyPC => FreshCopy(state[w], Task(w)),
         ResultInHand, WorkerWay(w), ProcessStep(w), UNCHANGED replays
  PROVE  RowStep(Task(w))
<1> USE DEF CopyPC, RuntimePC
<1>1. CASE UNCHANGED workflows
  BY <1>1 DEF RowStep
<1>2. CASE SaveRunning(w)
  BY <1>2, FailureRow DEF SaveRunning, Holding
<1>3. CASE \/ ModelFailsRetryably(w) \/ BackendFailsRetryably(w) \/ BackendTimesOut(w)
  BY <1>3, FailureRow
  DEF ModelFailsRetryably, BackendFailsRetryably, BackendTimesOut, FailRetryably, Holding, ToolPC
<1>4. CASE \/ DecideFail(w) \/ DecideComplete(w) \/ PolicyDenied(w) \/ BackendFailsPermanently(w)
  BY <1>4, FailureRow
  DEF DecideFail, DecideComplete, PolicyDenied, BackendFailsPermanently, Fail, Holding, OpenStatus
<1>5. CASE \E c \in Calls : DecideTool(w, c)
  BY <1>5, DecideToolRow DEF DecideTool, Holding
<1>6. CASE SaveWaiting(w)
  BY <1>6, SaveWaitingRow DEF SaveWaiting, Holding
<1>7. CASE RecordResult(w)
  BY <1>7, RecordRow DEF RecordResult, Holding
<1>8. CASE \/ Load(w) \/ ModelFailsPermanently(w) \/ CreateApproval(w)
           \/ ResumeApprovedAction(w) \/ LookupResult(w)
           \/ (\E r \in Results : BackendSucceeds(w, r)) \/ SaveToolResult(w)
  BY <1>1, <1>8
  DEF Load, ModelFailsPermanently, CreateApproval, create_approval, ResumeApprovedAction,
      LookupResult, BackendSucceeds, SaveToolResult, save_tool_result, storeVars
<1> QED
  BY <1>2, <1>3, <1>4, <1>5, <1>6, <1>7, <1>8 DEF ProcessStep

\* The error paths of run_once end a live workflow as it is.
LEMMA ReportRow ==
  ASSUME NEW w \in Workers, Busy(w), wpc[w] \in CopyPC => FreshCopy(state[w], Task(w)),
         ReportStep(w), UNCHANGED replays
  PROVE  RowStep(Task(w))
<1>1. CASE UNCHANGED workflows
  BY <1>1 DEF RowStep
<1>2. ASSUME NEW status \in {"DEAD_LETTERED", "FAILED"}, SaveFinal(w, status),
             wpc[w] \in {"dead_save", "perm_save"}
      PROVE  RowStep(Task(w))
  <2> DEFINE s == state[w]
             new == [s EXCEPT !.status = status]
  <2>1. Holding(w) /\ s \in Checkpoint
    BY <1>2, HeldTypes DEF Holding, CopyPC
  <2>2. /\ new \in Checkpoint /\ new.version = s.version /\ new.status = status
        /\ new.pending_action = s.pending_action
    BY <2>1, StatusFields DEF WorkflowStatus
  <2>3. s.status \in OpenStatus \cup {"WAITING_FOR_APPROVAL"}
    BY <2>1
    DEF Holding, FreshCopy, terminal, TerminalStatus, Checkpoint, WorkflowStatus, OpenStatus
  <2>4. save_workflow(Task(w), new) \/ UNCHANGED workflows
    BY <1>2 DEF SaveFinal, storeVars
  <2> HIDE DEF new
  <2>5. RowChange(Task(w), s, new)
    BY <2>2, <2>3 DEF RowChange, Closes, TerminalStatus
  <2> QED
    BY <1>1, <2>1, <2>2, <2>4, <2>5, WorkerSaveRow
<1> QED
  BY <1>1, <1>2
  DEF ReportStep, Acknowledge, Enqueue, RetryOrDeadLetter, DeadLoad, DeadSave,
      PermanentAcknowledge, PermanentLoad, PermanentSave, Reload, storeVars,
      acknowledge, enqueue, retry_or_dead_letter

-----------------------------------------------------------------------------
(* What the API does to the row of its incident *)

LEMMA HandlerRow ==
  ASSUME StoreTypeOK, ControlTypeOK, NEW h \in Handlers, HandlerStep(h), HandlerWay(h),
         hpc[h] # "idle" => FreshCopy(hstate[h], htask[h])
  PROVE  RowStep(htask[h])
<1> DEFINE s == hstate[h]
           task == htask[h]
<1>1. s \in Checkpoint /\ task \in Tasks
  BY HandlerTypes
<1>2. CASE UNCHANGED workflows
  BY <1>2 DEF RowStep
<1>3. CASE ApproveSave(h) /\ ~UNCHANGED workflows
  <2> DEFINE new == [s EXCEPT !.status = "QUEUED"]
  <2>1. /\ new \in Checkpoint /\ new.version = s.version /\ new.status = "QUEUED"
        /\ new.pending_action = s.pending_action
    BY <1>1, StatusFields DEF WorkflowStatus
  <2>2. save_workflow(task, new) /\ hpc[h] = "approve_save" /\ UNCHANGED replays
    BY <1>3 DEF ApproveSave, HGoto, StaleRequest, storeVars
  <2> HIDE DEF new
  <2>3. RowChange(task, s, new)
    BY <2>1, <2>2 DEF HandlerWay, PendingKey, RowChange, Releases, HandlerPC
  <2> QED
    BY <1>1, <2>1, <2>2, <2>3, SaveRow
<1>4. CASE RejectSave(h) /\ ~UNCHANGED workflows
  <2> DEFINE new == [s EXCEPT !.status = "HUMAN_REJECTED", !.pending_action = NoCall]
  <2>1. /\ new \in Checkpoint /\ new.version = s.version
        /\ new.status = "HUMAN_REJECTED" /\ new.pending_action = NoCall
    <3>1. new \in Checkpoint
      BY <1>1, PendingType DEF WorkflowStatus
    <3> HIDE DEF s
    <3> QED
      BY <1>1, <3>1 DEF Checkpoint
  <2>2. save_workflow(task, new) /\ hpc[h] = "reject_save" /\ UNCHANGED replays
    BY <1>4 DEF RejectSave, Respond, StaleRequest, storeVars
  <2> HIDE DEF new
  <2>3. RowChange(task, s, new)
    BY <2>1, <2>2 DEF HandlerWay, PendingKey, RowChange, Refuses, HandlerPC
  <2> QED
    BY <1>1, <2>1, <2>2, <2>3, SaveRow
<1> QED
  BY <1>2, <1>3, <1>4
  DEF HandlerStep, ApproveResolve, RejectResolve, Resolve, resolve_approval, ApproveEnqueue,
      enqueue, storeVars

LEMMA ReplayRow ==
  ASSUME StoreTypeOK, NEW id \in DOMAIN queue, ReplayDeadLetter(id)
  PROVE  Reopens(queue[id].task_id)
<1> DEFINE task == queue[id].task_id
           new == [workflows[task] EXCEPT !.status = "QUEUED"]
<1>1. task \in Tasks /\ workflows[task] \in Checkpoint
  BY RowType DEF QueueRow, StoreTypeOK
<1>2. /\ new \in Checkpoint /\ new.status = "QUEUED"
      /\ new.pending_action = workflows[task].pending_action
  BY <1>1, StatusFields DEF WorkflowStatus
<1>3. workflows'[task] = Saved(new) /\ replays' = replays + 1
  BY <1>1 DEF ReplayDeadLetter, replay_dead_letter, StoreTypeOK
<1> HIDE DEF new
<1>4. Saved(new).status = "QUEUED" /\ Saved(new).pending_action = new.pending_action
  BY <1>2 DEF Saved, Checkpoint
<1> QED
  BY <1>2, <1>3, <1>4 DEF Reopens

-----------------------------------------------------------------------------
(* What the others leave alone *)

EffectsGrow == \A key \in Key : effects[key] > 0 => effects'[key] > 0

\* A pending action is forgotten only once a human has answered.
PendingSettled ==
    \A task \in Tasks :
        LET old == workflows[task].pending_action
        IN  \/ workflows'[task].pending_action = old
            \/ old = NoCall
            \/ approvals[action_id(task, old)] \in {"APPROVED", "REJECTED"}

OtherRowsKept(task) == \A t \in Tasks \ {task} : workflows'[t] = workflows[t]

LEMMA RowSettled ==
  ASSUME NEW task \in Tasks, RowStep(task), OtherRowsKept(task)
  PROVE  PendingSettled
  BY DEF RowStep, RowChange, Proceeds, Asks, Releases, Refuses, Concludes, Closes, Reopens,
         OtherRowsKept, PendingSettled

LEMMA WorkerWayKept ==
  ASSUME TypeOK, ApprovalsForward, EffectsGrow, PendingSettled, NEW v \in Workers, WorkerWay(v),
         wpc'[v] = wpc[v], delivery'[v] = delivery[v], state'[v] = state[v], call'[v] = call[v]
  PROVE  WorkerWay(v)'
<1>1. CurrentKey(v)' = CurrentKey(v) /\ Task(v)' = Task(v)
  BY DEF CurrentKey, Task
<1>2. wpc[v] \in CallPC => call[v] \in Calls /\ CurrentKey(v) \in Key /\ Task(v) \in Tasks
  BY TypeParts, KeyType DEF LocalTypeOK, CallChosen, CallPC, Busy, Delivery, Task
<1>3. call[v] \in Calls => call[v] # NoCall
  BY ModelsAssumption
<1>4. wpc[v] = "create_approval" /\ approvals'[CurrentKey(v)] = "NONE" =>
        workflows'[Task(v)].pending_action = call[v]
  BY <1>2, <1>3 DEF CallPC, WorkerWay, ApprovalsForward, PendingSettled, CurrentKey
<1>5. wpc[v] \in ToolPC /\ approvals[CurrentKey(v)] = "APPROVED" =>
        approvals'[CurrentKey(v)] = "APPROVED"
  BY <1>2 DEF CallPC, ToolPC, ApprovalsForward
<1>6. wpc[v] \in {"save_result", "record"} => effects'[CurrentKey(v)] > 0
  BY <1>2 DEF CallPC, WorkerWay, EffectsGrow
<1> QED
  BY <1>1, <1>4, <1>5, <1>6 DEF WorkerWay

LEMMA HandlerWayKept ==
  ASSUME ControlTypeOK, ApprovalsForward, NEW h \in Handlers, HandlerWay(h),
         hpc'[h] = hpc[h], htask'[h] = htask[h], hstate'[h] = hstate[h]
  PROVE  HandlerWay(h)'
<1>1. PendingKey(h)' = PendingKey(h)
  BY DEF PendingKey
<1>2. hpc[h] \in {"approve_save", "reject_save"} => PendingKey(h) \in Key
  BY HandlerTypes DEF HandlerWay, HandlerPC, PendingKey, action_id, Key, Checkpoint
<1> QED
  BY <1>1, <1>2 DEF HandlerWay, ApprovalsForward

-----------------------------------------------------------------------------
(* The way of a worker through process() *)

Outside(w) == wpc'[w] \notin RuntimePC \ {"load"}

LEMMA OutsideWay ==
  ASSUME NEW w \in Workers, Outside(w)
  PROVE  WorkerWay(w)'
  BY DEF Outside, WorkerWay, RuntimePC, ToolPC

LEMMA LeaveOutside ==
  ASSUME LocalTypeOK, NEW w \in Workers,
         \/ \E new : StaleSave(w, new) \/ SaveAndReturn(w, new) \/ SaveAndRaise(w, new) \/ Return(w, new)
         \/ \E pc \in WorkerPC \ RuntimePC : LeaveProcess(w, pc) \/ Goto(w, pc)
         \/ Finish(w)
  PROVE  Outside(w)
  BY DEF LocalTypeOK, StaleSave, SaveAndReturn, SaveAndRaise, Return, LeaveProcess, Finish, Goto,
         Outside, RuntimePC, WorkerPC

LEMMA LoadWay ==
  ASSUME NEW w \in Workers, Busy(w), Load(w)
  PROVE  WorkerWay(w)'
<1>1. CASE Return(w, workflows[Task(w)])
  BY <1>1, LeaveOutside, OutsideWay DEF Busy
<1>2. CASE /\ Resumable(workflows[Task(w)])
           /\ Goto(w, AfterLoad(workflows[Task(w)]))
           /\ state' = [state EXCEPT ![w] = workflows[Task(w)]]
  <2>1. /\ state'[w] = workflows[Task(w)]
        /\ wpc'[w] = AfterLoad(workflows[Task(w)])
    BY <1>2 DEF Busy, LocalTypeOK, Goto
  <2>2. workflows[Task(w)].status \in OpenStatus
    BY <1>2, HeldTypes
    DEF Resumable, terminal, TerminalStatus, Checkpoint, WorkflowStatus, OpenStatus
  <2> QED
    BY <2>1, <2>2 DEF AfterLoad, WorkerWay, ToolPC
<1> QED
  BY <1>1, <1>2 DEF Load

LEMMA SaveRunningWay ==
  ASSUME NEW w \in Workers, Busy(w), WorkerWay(w), SaveRunning(w)
  PROVE  WorkerWay(w)'
<1> DEFINE new == [state[w] EXCEPT !.status = "RUNNING"]
<1>1. /\ new \in Checkpoint /\ new.status = "RUNNING"
      /\ new.pending_action = state[w].pending_action
  BY HeldTypes, StatusFields DEF WorkflowStatus
<1>2. SaveAndGoto(w, new, "decide") /\ wpc[w] = "running"
  BY DEF SaveRunning
<1> HIDE DEF new
<1>3. CASE StaleSave(w, new)
  BY <1>3, LeaveOutside, OutsideWay DEF Busy
<1>4. CASE state' = [state EXCEPT ![w] = Saved(new)] /\ Goto(w, "decide")
  <2>1. wpc'[w] = "decide" /\ state'[w] = Saved(new)
    BY <1>4 DEF Busy, LocalTypeOK, Goto
  <2>2. Saved(new).status = "RUNNING" /\ Saved(new).pending_action = NoCall
    BY <1>1, <1>2 DEF WorkerWay, Saved, Checkpoint
  <2> QED
    BY <2>1, <2>2 DEF WorkerWay, OpenStatus, ToolPC
<1> QED
  BY <1>2, <1>3, <1>4 DEF SaveAndGoto

LEMMA DecideToolWay ==
  ASSUME NEW w \in Workers, Busy(w), WorkerWay(w), NEW c \in Calls, DecideTool(w, c)
  PROVE  WorkerWay(w)'
<1> DEFINE requested == Requested(state[w], c)
<1>1. /\ requested \in Checkpoint /\ requested.status \in OpenStatus
      /\ requested.pending_action = NoCall
  BY HeldTypes, RequestedFields DEF DecideTool, WorkerWay, RuntimePC
<1> HIDE DEF requested
<1>2. CASE Outside(w)
  BY <1>2, OutsideWay
<1>3. CASE /\ state' = [state EXCEPT ![w] = Saved(requested)]
           /\ call' = [call EXCEPT ![w] = c] /\ Goto(w, AfterPolicy(c))
  <2>1. wpc'[w] = AfterPolicy(c) /\ state'[w] = Saved(requested) /\ call'[w] = c
    BY <1>3 DEF Busy, LocalTypeOK, Goto
  <2>2. Saved(requested).status \in OpenStatus /\ Saved(requested).pending_action = NoCall
    BY <1>1 DEF Saved, Checkpoint
  <2>3. /\ AfterPolicy(c) \in {"denied", "pend", "execute"}
        /\ AfterPolicy(c) = "pend" => Allowed(c) /\ ApprovalRequired(c)
    BY DEF AfterPolicy
  <2> QED
    BY <2>1, <2>2, <2>3 DEF WorkerWay, ToolPC
<1> QED
  BY <1>2, <1>3, LeaveOutside DEF DecideTool, requested, Busy

LEMMA SaveWaitingWay ==
  ASSUME NEW w \in Workers, Busy(w), WorkerWay(w), SaveWaiting(w)
  PROVE  WorkerWay(w)'
<1> DEFINE s == state[w]
           c == call[w]
           new == [s EXCEPT !.status = "WAITING_FOR_APPROVAL", !.pending_action = c]
<1>1. s \in Checkpoint /\ Task(w) \in Tasks
  BY HeldTypes
<1>2. new.pending_action = c
  BY <1>1 DEF Checkpoint
<1>3. SaveAndGoto(w, new, "create_approval")
  BY DEF SaveWaiting
<1> HIDE DEF new
<1>4. CASE StaleSave(w, new)
  BY <1>4, LeaveOutside, OutsideWay DEF Busy
<1>5. CASE save_workflow(Task(w), new) /\ Goto(w, "create_approval") /\ UNCHANGED <<delivery, call>>
  <2>1. /\ wpc'[w] = "create_approval" /\ call'[w] = c /\ Task(w)' = Task(w)
        /\ workflows'[Task(w)] = Saved(new)
    BY <1>1, <1>5 DEF Busy, LocalTypeOK, StoreTypeOK, Goto, save_workflow, Task
  <2>2. Saved(new).pending_action = c
    <3>1. new \in Checkpoint
      <4>1. c \in Calls \cup {NoCall}
        BY HeldTypes
      <4> QED
        BY <1>1, <4>1, PendingType DEF new, WorkflowStatus
    <3> QED
      BY <1>2, <3>1 DEF Saved, Checkpoint
  <2> QED
    BY <2>1, <2>2 DEF WorkerWay, ToolPC, RuntimePC
<1> QED
  BY <1>3, <1>4, <1>5 DEF SaveAndGoto

LEMMA ResumeWay ==
  ASSUME NEW w \in Workers, Busy(w), WorkerWay(w), ResumeApprovedAction(w)
  PROVE  WorkerWay(w)'
<1> DEFINE pending_action == state[w].pending_action
<1>1. CASE Return(w, [state[w] EXCEPT !.status = "WAITING_FOR_APPROVAL"])
  BY <1>1, LeaveOutside, OutsideWay DEF Busy
<1>2. CASE /\ IsApproved(action_id(Task(w), pending_action))
           /\ Goto(w, "execute")
           /\ call' = [call EXCEPT ![w] = pending_action]
           /\ UNCHANGED <<delivery, state, result>>
  <2>1. /\ wpc'[w] = "execute" /\ call'[w] = pending_action /\ state'[w] = state[w]
        /\ CurrentKey(w)' = action_id(Task(w), pending_action)
    BY <1>2 DEF Busy, LocalTypeOK, Goto, CurrentKey, Task, action_id
  <2>2. state[w].status \in OpenStatus
    BY DEF ResumeApprovedAction, WorkerWay, RuntimePC
  <2>3. approvals' = approvals
    BY DEF ResumeApprovedAction, storeVars
  <2> QED
    BY <1>2, <2>1, <2>2, <2>3 DEF WorkerWay, IsApproved
<1> QED
  BY <1>1, <1>2 DEF ResumeApprovedAction

\* A result in the ledger is the result of a call that was carried out.
LEMMA LookupWay ==
  ASSUME NEW w \in Workers, Busy(w), WorkerWay(w), LedgerPerformed, LookupResult(w)
  PROVE  WorkerWay(w)'
<1>1. /\ wpc[w] = "execute" /\ wpc'[w] = AfterLookup(w)
      /\ UNCHANGED <<approvals, workflows, delivery, state, call, effects>>
  BY DEF Busy, LocalTypeOK, Goto, LookupResult, storeVars
<1>2. CurrentKey(w)' = CurrentKey(w) /\ Task(w)' = Task(w)
  BY <1>1 DEF CurrentKey, Task
<1>3. CurrentKey(w) \in Key
  BY <1>1, KeyType DEF Busy, LocalTypeOK, CallChosen, CallPC
<1>4. /\ AfterLookup(w) \in {"denied", "record", "backend"}
      /\ AfterLookup(w) = "record" => effects[CurrentKey(w)] > 0
  BY <1>3 DEF AfterLookup, LedgerPerformed
<1> QED
  BY <1>1, <1>2, <1>4 DEF WorkerWay, ToolPC, RuntimePC

LEMMA BackendWay ==
  ASSUME NEW w \in Workers, Busy(w), EffectsTypeOK, WorkerWay(w),
         NEW r \in Results, BackendSucceeds(w, r)
  PROVE  WorkerWay(w)'
<1>1. /\ wpc[w] = "backend" /\ wpc'[w] = "save_result"
      /\ UNCHANGED <<approvals, workflows, delivery, state, call>>
  BY DEF Busy, LocalTypeOK, Goto, BackendSucceeds, storeVars
<1>2. CurrentKey(w)' = CurrentKey(w) /\ Task(w)' = Task(w)
  BY <1>1 DEF CurrentKey, Task
<1>3. CurrentKey(w) \in Key
  BY <1>1, KeyType DEF Busy, LocalTypeOK, CallChosen, CallPC
<1>4. effects'[CurrentKey(w)] > 0
  BY <1>3, SMT DEF BackendSucceeds, Effect, EffectsTypeOK
<1> QED
  BY <1>1, <1>2, <1>4 DEF WorkerWay, ToolPC, RuntimePC

LEMMA SaveToolResultWay ==
  ASSUME NEW w \in Workers, Busy(w), WorkerWay(w), SaveToolResult(w)
  PROVE  WorkerWay(w)'
<1>1. /\ wpc[w] = "save_result" /\ wpc'[w] = "record"
      /\ UNCHANGED <<approvals, workflows, delivery, state, call, effects>>
  BY DEF Busy, LocalTypeOK, Goto, SaveToolResult, save_tool_result, localVars
<1>2. CurrentKey(w)' = CurrentKey(w) /\ Task(w)' = Task(w)
  BY <1>1 DEF CurrentKey, Task
<1> QED
  BY <1>1, <1>2 DEF WorkerWay, ToolPC, RuntimePC

LEMMA OwnWay ==
  ASSUME TypeOK, LedgerPerformed, NEW w \in Workers, WorkerWay(w), RunOnceStep(w)
  PROVE  WorkerWay(w)'
<1>1. StoreTypeOK /\ LocalTypeOK /\ EffectsTypeOK
  BY TypeParts
<1>2. CASE \E i \in DOMAIN queue : Claim(w, i)
  BY <1>1, <1>2, OutsideWay DEF Claim, Goto, LocalTypeOK, Outside, RuntimePC
<1>3. CASE ReportStep(w)
  <2>1. Outside(w)
    BY <1>1, <1>3
    DEF ReportStep, Acknowledge, Enqueue, RetryOrDeadLetter, DeadLoad, DeadSave,
        PermanentAcknowledge, PermanentLoad, PermanentSave, Reload, SaveFinal, LeaveProcess,
        Finish, Goto, LocalTypeOK, Outside, RuntimePC
  <2> QED
    BY <2>1, OutsideWay
<1>4. CASE ProcessStep(w)
  <2>1. Busy(w)
    BY <1>1, <1>4
    DEF Busy, ProcessStep, Load, SaveRunning, ModelFailsRetryably, ModelFailsPermanently,
        DecideComplete, DecideFail, DecideTool, PolicyDenied, SaveWaiting, CreateApproval,
        ResumeApprovedAction, LookupResult, BackendSucceeds, BackendFailsRetryably,
        BackendTimesOut, BackendFailsPermanently, SaveToolResult, RecordResult
  <2>2. CASE \/ ModelFailsRetryably(w) \/ ModelFailsPermanently(w) \/ DecideComplete(w)
             \/ DecideFail(w) \/ PolicyDenied(w) \/ CreateApproval(w)
             \/ BackendFailsRetryably(w) \/ BackendTimesOut(w)
             \/ BackendFailsPermanently(w) \/ RecordResult(w)
    <3>1. "perm_ack" \in WorkerPC \ RuntimePC
      BY DEF WorkerPC, RuntimePC
    <3> QED
      BY <1>1, <2>2, <3>1, LeaveOutside, OutsideWay
      DEF ModelFailsRetryably, ModelFailsPermanently, DecideComplete, DecideFail, PolicyDenied,
          CreateApproval, BackendFailsRetryably, BackendTimesOut, BackendFailsPermanently,
          RecordResult, Fail, FailRetryably
  <2> QED
    BY <1>1, <1>4, <2>1, <2>2, LoadWay, SaveRunningWay, DecideToolWay, SaveWaitingWay, ResumeWay,
       LookupWay, BackendWay, SaveToolResultWay
    DEF ProcessStep
<1> QED
  BY <1>2, <1>3, <1>4 DEF RunOnceStep, ReportStep

LEMMA LedgerNext ==
  ASSUME TypeOK, LedgerPerformed, EffectsGrow, NEW w \in Workers, WorkerWay(w), RunOnceStep(w)
  PROVE  LedgerPerformed'
<1>1. CASE UNCHANGED tool_results
  BY <1>1 DEF LedgerPerformed, EffectsGrow
<1>2. CASE SaveToolResult(w)
  <2>1. /\ effects' = effects /\ effects[CurrentKey(w)] > 0
        /\ \A key \in Key \ {CurrentKey(w)} : tool_results'[key] = tool_results[key]
    BY <1>2 DEF SaveToolResult, save_tool_result, WorkerWay, TypeOK, StoreTypeOK
  <2> QED
    BY <2>1 DEF LedgerPerformed
<1>3. CASE ReportStep(w) \/ \E i \in DOMAIN queue : Claim(w, i)
  BY <1>1, <1>3
  DEF Claim, claim, ReportStep, Acknowledge, Enqueue, RetryOrDeadLetter, DeadLoad, DeadSave,
      PermanentAcknowledge, PermanentLoad, PermanentSave, Reload, SaveFinal, storeVars,
      acknowledge, enqueue, retry_or_dead_letter, save_workflow
<1>4. CASE ProcessStep(w) /\ ~SaveToolResult(w)
  <2>1. ASSUME NEW new, NEW pc,
               \/ SaveAndReturn(w, new) \/ SaveAndRaise(w, new) \/ SaveAndGoto(w, new, pc)
               \/ StaleSave(w, new)
        PROVE  UNCHANGED tool_results
    BY <2>1 DEF SaveAndReturn, SaveAndRaise, SaveAndGoto, StaleSave, save_workflow, storeVars
  <2>2. ASSUME NEW c \in Calls, DecideTool(w, c) PROVE UNCHANGED tool_results
    BY <2>1, <2>2 DEF DecideTool, save_workflow
  <2> QED
    BY <1>1, <1>4, <2>1, <2>2
    DEF ProcessStep, Load, SaveRunning, ModelFailsRetryably, ModelFailsPermanently,
        DecideComplete, DecideFail, PolicyDenied, SaveWaiting, CreateApproval, create_approval,
        ResumeApprovedAction, LookupResult, BackendSucceeds, BackendFailsRetryably,
        BackendTimesOut, BackendFailsPermanently, RecordResult, Fail, FailRetryably, storeVars
<1> QED
  BY <1>2, <1>3, <1>4 DEF RunOnceStep, ReportStep

-----------------------------------------------------------------------------
(* Status and approval agree *)

LEMMA QueuedNext ==
  ASSUME TypeOK, QueuedPendingIsApproved, ApprovalsForward, NEW task \in Tasks, RowStep(task),
         OtherRowsKept(task), replays' >= replays
  PROVE  QueuedPendingIsApproved'
<1> SUFFICES ASSUME replays' = 0, NEW t \in Tasks,
                    workflows'[t].status = "QUEUED", workflows'[t].pending_action # NoCall
             PROVE  approvals'[action_id(t, workflows'[t].pending_action)] = "APPROVED"
  BY DEF QueuedPendingIsApproved
<1> DEFINE old == workflows[t]
           key == action_id(t, old.pending_action)
<1>1. replays = 0
  BY SMT DEF TypeOK, ControlTypeOK
<1>2. old.pending_action # NoCall => key \in Key
  BY DEF TypeOK, StoreTypeOK, Checkpoint, action_id, Key
<1>3. ~Reopens(t)
  BY <1>1, SMT DEF Reopens
<1>4. workflows'[t].pending_action = old.pending_action /\ approvals[key] = "APPROVED"
  <2>1. CASE workflows'[t] = old
    BY <1>1, <2>1 DEF QueuedPendingIsApproved
  <2>2. CASE RowChange(t, old, workflows'[t])
    BY <2>2
    DEF RowChange, Proceeds, Asks, Releases, Refuses, Concludes, Closes, TerminalStatus
  <2> QED
    BY <1>3, <2>1, <2>2 DEF RowStep, OtherRowsKept
<1> QED
  BY <1>2, <1>4 DEF ApprovalsForward

\* Whoever is about to create a missing approval row is still about to.
CreatorsStay ==
    \A w \in Workers :
        wpc[w] = "create_approval" /\ approvals'[CurrentKey(w)] = "NONE" =>
            wpc'[w] = "create_approval" /\ CurrentKey(w)' = CurrentKey(w)

LEMMA AskedNext ==
  ASSUME TypeOK, Asked, ApprovalsForward, NEW task \in Tasks, RowStep(task),
         OtherRowsKept(task), crashes' >= crashes, crashes' = 0 => CreatorsStay
  PROVE  Asked'
<1> SUFFICES ASSUME crashes' = 0, NEW t \in Tasks,
                    workflows'[t].status = "WAITING_FOR_APPROVAL"
             PROVE  /\ workflows'[t].pending_action # NoCall
                    /\ approvals'[RowKey(t)'] = "NONE" =>
                        \E w \in Workers :
                            wpc'[w] = "create_approval" /\ CurrentKey(w)' = RowKey(t)'
  BY DEF Asked
<1>1. crashes = 0
  BY SMT DEF TypeOK, WorkerTypeOK
<1>2. CASE workflows'[t] = workflows[t]
  <2>1. workflows[t].pending_action # NoCall /\ RowKey(t)' = RowKey(t)
    BY <1>1, <1>2 DEF Asked, RowKey
  <2>2. RowKey(t) \in Key
    BY <2>1 DEF TypeOK, StoreTypeOK, Checkpoint, RowKey, action_id, Key
  <2>3. ASSUME approvals'[RowKey(t)] = "NONE"
        PROVE  \E w \in Workers : wpc'[w] = "create_approval" /\ CurrentKey(w)' = RowKey(t)
    <3>1. approvals[RowKey(t)] = "NONE"
      BY <2>2, <2>3 DEF ApprovalsForward
    <3>2. PICK w \in Workers : wpc[w] = "create_approval" /\ CurrentKey(w) = RowKey(t)
      BY <1>1, <1>2, <3>1 DEF Asked
    <3> QED
      BY <2>3, <3>2 DEF CreatorsStay
  <2> QED
    BY <1>2, <2>1, <2>3
<1>3. CASE workflows'[t] # workflows[t]
  <2>1. Asks(t, workflows[t], workflows'[t])
    BY <1>3
    DEF RowStep, OtherRowsKept, RowChange, Proceeds, Releases, Refuses, Concludes, Closes,
        Reopens, OpenStatus, TerminalStatus
  <2> QED
    BY <2>1, ModelsAssumption DEF Asks, RowKey
<1> QED
  BY <1>2, <1>3

LEMMA NothingAsked ==
  ASSUME UNCHANGED workflows, NEW task
  PROVE  RowStep(task) /\ OtherRowsKept(task)
  BY DEF RowStep, OtherRowsKept

-----------------------------------------------------------------------------
(* Steps *)

\* What the lemmas below show of a step: each row goes one of its ways, approvals go
\* forward, and nothing that was carried out is undone.
StepWay ==
    /\ ApprovalsForward /\ EffectsGrow
    /\ \E task \in Tasks : RowStep(task) /\ OtherRowsKept(task)

LEMMA EffectGrows ==
  ASSUME EffectsTypeOK, NEW key, Effect(key) \/ UNCHANGED effects
  PROVE  EffectsGrow
<1> SUFFICES ASSUME NEW k \in Key, effects[k] > 0 PROVE effects'[k] > 0
  BY DEF EffectsGrow
<1>1. effects[k] \in Nat
  BY DEF EffectsTypeOK
<1>2. effects'[k] = effects[k] \/ effects'[k] = effects[k] + 1
  BY DEF Effect, EffectsTypeOK
<1> QED
  BY <1>1, <1>2, SMT

LEMMA RunOnceStepWay ==
  ASSUME TypeOK, CheckpointInv, LifecycleInv, NEW w \in Workers, RunOnceStep(w),
         ApprovalsForward, UNCHANGED handlerVars
  PROVE  /\ StepWay
         /\ RowStep(Task(w)) /\ OtherRowsKept(Task(w))
         /\ Task(w) \in Tasks
<1>1. /\ StoreTypeOK /\ LocalTypeOK /\ EffectsTypeOK /\ HoldsRow
      /\ CopiesFresh /\ ResultInHand /\ WorkerWay(w) /\ UNCHANGED replays
  BY TypeParts DEF CheckpointInv, LifecycleInv, handlerVars
<1>2. Task(w) \in Tasks
  BY <1>1 DEF LocalTypeOK, Task, Delivery
<1>3. RowStep(Task(w))
  <2>1. CASE \E i \in DOMAIN queue : Claim(w, i)
    BY <2>1, NothingAsked DEF Claim, claim
  <2>2. CASE ProcessStep(w) /\ wpc[w] # "idle"
    BY <1>1, <2>2, ProcessRow DEF Busy, CopiesFresh
  <2>3. CASE ReportStep(w) /\ wpc[w] # "idle"
    BY <1>1, <2>3, ReportRow DEF Busy, CopiesFresh
  <2>4. ProcessStep(w) \/ ReportStep(w) => wpc[w] # "idle"
    BY DEF ReportStep, Acknowledge, Enqueue, RetryOrDeadLetter, DeadLoad,
        DeadSave, PermanentAcknowledge, PermanentLoad, PermanentSave,
        ProcessStep, Load, SaveRunning, ModelFailsRetryably, ModelFailsPermanently,
        DecideComplete, DecideFail, DecideTool, PolicyDenied, SaveWaiting, CreateApproval,
        ResumeApprovedAction, LookupResult, BackendSucceeds, BackendFailsRetryably,
        BackendTimesOut, BackendFailsPermanently, SaveToolResult, RecordResult
  <2> QED
    BY <2>1, <2>2, <2>3, <2>4 DEF RunOnceStep, ReportStep
<1>4. OtherRowsKept(Task(w))
  BY <1>1, RunOnceOnlyTask DEF OnlyTask, OtherRowsKept
<1>5. EffectsGrow
  BY <1>1, EffectsOnlyAtBackend, EffectGrows
<1> QED
  BY <1>2, <1>3, <1>4, <1>5 DEF StepWay

LEMMA RunOnceLifecycle ==
  ASSUME TypeOK, CheckpointInv, LifecycleInv, NEW w \in Workers, RunOnceStep(w),
         ApprovalsForward, UNCHANGED handlerVars
  PROVE  StepWay /\ LifecycleInv'
<1>1. /\ StepWay /\ EffectsGrow /\ RowStep(Task(w)) /\ OtherRowsKept(Task(w))
      /\ Task(w) \in Tasks
  BY RunOnceStepWay DEF StepWay
<1>2. LocalTypeOK /\ StoreTypeOK /\ ControlTypeOK
  BY TypeParts
<1>3. PendingSettled
  BY <1>1, RowSettled
<1>4. OthersKeep(w)
  BY <1>2, RunOnceOthersKeep
<1>5. \A v \in Workers : WorkerWay(v)'
  BY <1>1, <1>3, <1>4, WorkerWayKept, OwnWay DEF LifecycleInv, OthersKeep
<1>6. \A h \in Handlers : HandlerWay(h)'
  BY <1>2, HandlerWayKept DEF LifecycleInv, handlerVars
<1>7. LedgerPerformed'
  BY <1>1, LedgerNext DEF LifecycleInv
<1>8. UNCHANGED <<crashes, replays>>
  BY DEF handlerVars, RunOnceStep, Claim, Budgets, Acknowledge, Enqueue, RetryOrDeadLetter,
         DeadLoad, DeadSave, PermanentAcknowledge, PermanentLoad, PermanentSave, Reload, SaveFinal
<1>9. crashes' >= crashes /\ replays' >= replays
  BY <1>2, <1>8, SMT DEF TypeOK, WorkerTypeOK, ControlTypeOK
<1>10. CreatorsStay
  <2>1. ASSUME NEW v \in Workers \ {w}, wpc[v] = "create_approval"
        PROVE  wpc'[v] = "create_approval" /\ CurrentKey(v)' = CurrentKey(v)
    BY <1>4, <2>1 DEF OthersKeep, CurrentKey, Task
  <2>2. ASSUME wpc[w] = "create_approval" PROVE approvals'[CurrentKey(w)] # "NONE"
    <3>1. CreateApproval(w)
      BY <2>2
      DEF RunOnceStep, Claim, Acknowledge, Enqueue, RetryOrDeadLetter, DeadLoad, DeadSave,
          PermanentAcknowledge, PermanentLoad, PermanentSave,
          ProcessStep, Load, SaveRunning, ModelFailsRetryably, ModelFailsPermanently,
          DecideComplete, DecideFail, DecideTool, PolicyDenied, SaveWaiting,
          ResumeApprovedAction, LookupResult, BackendSucceeds, BackendFailsRetryably,
          BackendTimesOut, BackendFailsPermanently, SaveToolResult, RecordResult
    <3>2. CurrentKey(w) \in Key
      BY <1>2, <2>2, KeyType DEF Busy, LocalTypeOK, CallChosen, CallPC
    <3> QED
      BY <1>2, <3>1, <3>2 DEF CreateApproval, create_approval, StoreTypeOK
  <2> QED
    BY <2>1, <2>2 DEF CreatorsStay
<1>11. QueuedPendingIsApproved' /\ Asked'
  BY <1>1, <1>9, <1>10, QueuedNext, AskedNext DEF LifecycleInv
<1> QED
  BY <1>1, <1>5, <1>6, <1>7, <1>11 DEF LifecycleInv

\* A step that leaves rows, ledger and effects alone, and workers where they are, or out of
\* process().
LEMMA QuietLifecycle ==
  ASSUME TypeOK, LifecycleInv, ApprovalsForward, StepWay, UNCHANGED <<tool_results, effects>>,
         \A w \in Workers :
            \/ /\ wpc'[w] = wpc[w] /\ delivery'[w] = delivery[w]
               /\ state'[w] = state[w] /\ call'[w] = call[w]
            \/ wpc'[w] = "idle" /\ crashes' > 0,
         crashes' >= crashes, replays' >= replays,
         \A h \in Handlers : HandlerWay(h)'
  PROVE  LifecycleInv'
<1>1. PICK task \in Tasks : RowStep(task) /\ OtherRowsKept(task)
  BY DEF StepWay
<1>2. PendingSettled /\ EffectsGrow
  BY <1>1, RowSettled DEF StepWay
<1>3. ASSUME NEW w \in Workers PROVE WorkerWay(w)'
  <2>1. CASE wpc'[w] = "idle"
    BY <2>1, OutsideWay DEF Outside, RuntimePC
  <2> QED
    BY <1>2, <2>1, WorkerWayKept DEF LifecycleInv
<1>4. LedgerPerformed'
  BY DEF LifecycleInv, LedgerPerformed
<1>5. ASSUME crashes' = 0 PROVE CreatorsStay
  <2>1. ~(crashes' > 0)
    BY <1>5, SMT
  <2> QED
    BY <2>1 DEF CreatorsStay, CurrentKey, Task
<1> QED
  BY <1>1, <1>3, <1>4, <1>5, QueuedNext, AskedNext DEF LifecycleInv

LEMMA ClockLifecycle ==
  ASSUME TypeOK, LifecycleInv, ApprovalsForward, UNCHANGED handlerVars,
         \/ \E w \in Workers : Heartbeat(w) \/ WorkerCrash(w)
         \/ \E i \in DOMAIN queue : LeaseExpires(i)
  PROVE  StepWay /\ LifecycleInv'
<1>1. LocalTypeOK /\ ControlTypeOK /\ BudgetsTypeOK /\ EffectsTypeOK
  BY TypeParts
<1>2. UNCHANGED <<workflows, tool_results, effects, replays>>
  BY DEF Heartbeat, extend_lease, WorkerCrash, storeVars, LeaseExpires, workerVars, runtimeVars,
         handlerVars
<1>3. StepWay
  BY <1>1, <1>2, NothingAsked, EffectGrows, SomeTaskType DEF StepWay
<1>4. \A w \in Workers :
        \/ /\ wpc'[w] = wpc[w] /\ delivery'[w] = delivery[w]
           /\ state'[w] = state[w] /\ call'[w] = call[w]
        \/ wpc'[w] = "idle" /\ crashes' > 0
  <2>1. ASSUME NEW v \in Workers, WorkerCrash(v), NEW w \in Workers
        PROVE  \/ /\ wpc'[w] = wpc[w] /\ delivery'[w] = delivery[w]
                  /\ state'[w] = state[w] /\ call'[w] = call[w]
               \/ wpc'[w] = "idle" /\ crashes' > 0
    <3>1. crashes' > 0
      BY <1>1, <2>1, SMT DEF WorkerCrash, BudgetsTypeOK
    <3> QED
      BY <1>1, <2>1, <3>1 DEF WorkerCrash, Finish, Goto, LocalTypeOK
  <2> QED
    BY <2>1 DEF Heartbeat, LeaseExpires, workerVars, runtimeVars, localVars
<1>5. crashes' >= crashes /\ replays' >= replays
  <2>1. crashes' = crashes \/ crashes' = crashes + 1
    BY DEF Heartbeat, workerVars, WorkerCrash, LeaseExpires
  <2> QED
    BY <1>1, <1>2, <2>1, SMT DEF BudgetsTypeOK, ControlTypeOK
<1>6. \A h \in Handlers : HandlerWay(h)'
  BY <1>1, HandlerWayKept DEF LifecycleInv, handlerVars
<1> QED
  BY <1>2, <1>3, <1>4, <1>5, <1>6, QuietLifecycle

\* A request leaves what the others know alone, and knows the answer it has just given.
LEMMA HandlerOwnWay ==
  ASSUME TypeOK, LifecycleInv, ApprovalsForward, NEW h \in Handlers,
         \/ HandlerStep(h)
         \/ \E task \in Tasks : Approve(h, task) \/ Reject(h, task)
         \/ HandlerCrash(h)
  PROVE  \A g \in Handlers : HandlerWay(g)'
<1>1. StoreTypeOK /\ ControlTypeOK /\ HandlerWay(h)
  BY TypeParts DEF LifecycleInv
<1>2. ASSUME NEW g \in Handlers \ {h} PROVE HandlerWay(g)'
  <2>1. hpc'[g] = hpc[g] /\ htask'[g] = htask[g] /\ hstate'[g] = hstate[g]
    BY <1>1, <1>2
    DEF HandlerStep, ApproveResolve, ApproveSave, ApproveEnqueue, RejectResolve, RejectSave,
        Resolve, StaleRequest, Respond, HGoto, ControlTypeOK, Approve, Reject, Open, HandlerCrash
  <2> QED
    BY <1>1, <2>1, HandlerWayKept DEF LifecycleInv
<1>3. HandlerWay(h)'
  <2>1. CASE hpc'[h] \in {"idle", "approve_enqueue"}
    BY <2>1 DEF HandlerWay
  <2>2. ASSUME NEW task \in Tasks, NEW pc \in {"approve_resolve", "reject_resolve"},
               Open(h, task, pc)
        PROVE  HandlerWay(h)'
    BY <1>1, <2>2 DEF Open, HandlerWay, ControlTypeOK
  <2>3. ASSUME NEW resolution, NEW pc, resolve_approval(PendingKey(h), resolution), HGoto(h, pc),
               hpc[h] \in {"approve_resolve", "reject_resolve"},
               \/ resolution = "APPROVED" /\ pc = "approve_save"
               \/ resolution = "REJECTED" /\ pc = "reject_save"
        PROVE  HandlerWay(h)'
    <3>1. /\ hpc'[h] = pc /\ UNCHANGED <<htask, hstate>> /\ PendingKey(h)' = PendingKey(h)
      BY <1>1, <2>3 DEF HGoto, ControlTypeOK, PendingKey
    <3>2. hstate[h].status = "WAITING_FOR_APPROVAL" /\ hstate[h].pending_action # NoCall
      BY <1>1, <2>3 DEF HandlerWay, HandlerPC
    <3>3. PendingKey(h) \in Key
      BY <1>1, <3>2, HandlerTypes DEF PendingKey, action_id, Key, Checkpoint
    <3>4. approvals'[PendingKey(h)] = resolution
      BY <1>1, <2>3, <3>3 DEF resolve_approval, StoreTypeOK
    <3> QED
      BY <2>3, <3>1, <3>2, <3>4 DEF HandlerWay
  <2>4. CASE ApproveResolve(h) \/ RejectResolve(h)
    <3>1. CASE Respond(h)
      BY <1>1, <2>1, <3>1 DEF Respond, ControlTypeOK
    <3> QED
      BY <2>3, <2>4, <3>1 DEF ApproveResolve, RejectResolve, Resolve
  <2>5. CASE ApproveSave(h) \/ ApproveEnqueue(h) \/ RejectSave(h) \/ HandlerCrash(h)
    BY <1>1, <2>1, <2>5
    DEF ApproveSave, ApproveEnqueue, RejectSave, HandlerCrash, StaleRequest, Respond, HGoto,
        ControlTypeOK
  <2> QED
    BY <2>2, <2>4, <2>5 DEF HandlerStep, Approve, Reject
<1> QED
  BY <1>2, <1>3

LEMMA ControlLifecycle ==
  ASSUME TypeOK, CheckpointInv, LifecycleInv, ApprovalsForward,
         \/ ControlStep /\ UNCHANGED workerVars
         \/ \E h \in Handlers : HandlerCrash(h)
  PROVE  StepWay /\ LifecycleInv'
<1>1. /\ StoreTypeOK /\ LocalTypeOK /\ ControlTypeOK /\ EffectsTypeOK /\ BudgetsTypeOK
      /\ CopiesFresh /\ OnlyCreated
  BY TypeParts DEF CheckpointInv
<1>2. UNCHANGED <<wpc, delivery, state, call, effects>>
  BY DEF workerVars, runtimeVars, localVars, HandlerCrash
<1>3. UNCHANGED tool_results
  BY DEF ControlStep, CreateIncident, create_workflow, Approve, Reject, Open, HandlerStep,
         ApproveResolve, ApproveSave, ApproveEnqueue, RejectResolve, RejectSave, Resolve,
         resolve_approval, StaleRequest, save_workflow, enqueue, ReplayDeadLetter,
         replay_dead_letter, HandlerCrash, storeVars
<1>4. crashes' >= crashes
  <2>1. crashes' = crashes \/ crashes' = crashes + 1
    BY DEF workerVars, HandlerCrash
  <2> QED
    BY <1>1, <2>1, SMT DEF BudgetsTypeOK
<1>5. replays' = replays \/ replays' = replays + 1
  BY DEF ControlStep, CreateIncident, handlerVars, Approve, Reject, Open, HandlerStep,
         ApproveResolve, ApproveSave, ApproveEnqueue, RejectResolve, RejectSave, Resolve,
         StaleRequest, Respond, HGoto, ReplayDeadLetter, HandlerCrash
<1>6. replays' >= replays
  BY <1>1, <1>5, SMT DEF ControlTypeOK
<1>7. \A h \in Handlers : HandlerWay(h)'
  <2>1. CASE UNCHANGED <<hpc, htask, hstate>>
    BY <1>1, <2>1, HandlerWayKept DEF LifecycleInv
  <2> QED
    BY <2>1, HandlerOwnWay DEF ControlStep, CreateIncident, handlerVars, ReplayDeadLetter
<1>8. \E task \in Tasks : RowStep(task) /\ OtherRowsKept(task)
  <2>1. CASE UNCHANGED workflows
    BY <2>1, NothingAsked, SomeTaskType
  <2>2. ASSUME NEW task \in Tasks, CreateIncident(task) PROVE UNCHANGED workflows
    BY <1>1, <2>2, CreateShape
  <2>3. ASSUME NEW h \in Handlers, HandlerStep(h)
        PROVE  \E task \in Tasks : RowStep(task) /\ OtherRowsKept(task)
    BY <1>1, <2>3, HandlerRow, HandlerStepShape, HandlerTypes
    DEF CopiesFresh, LifecycleInv, OnlyTask, OtherRowsKept
  <2>4. ASSUME NEW id \in DOMAIN queue, ReplayDeadLetter(id)
        PROVE  \E task \in Tasks : RowStep(task) /\ OtherRowsKept(task)
    BY <1>1, <2>4, ReplayRow, ReplayShape, RowType DEF RowStep, OnlyTask, OtherRowsKept, QueueRow
  <2> QED
    BY <2>1, <2>2, <2>3, <2>4 DEF ControlStep, Approve, Reject, Open, HandlerCrash, storeVars
<1>9. StepWay
  BY <1>1, <1>2, <1>8, EffectGrows DEF StepWay
<1> QED
  BY <1>2, <1>3, <1>4, <1>6, <1>7, <1>9, QuietLifecycle

LEMMA LifecycleInvNext ==
  ASSUME TypeOK, CheckpointInv, LifecycleInv, [Next]_vars
  PROVE  StepWay /\ LifecycleInv'
<1>1. ApprovalsForward
  BY ApprovalsForwardNext
<1>2. CASE WorkerNext /\ UNCHANGED handlerVars
  BY <1>1, <1>2, RunOnceLifecycle, ClockLifecycle DEF WorkerNext
<1>3. CASE (ControlStep /\ UNCHANGED workerVars) \/ (\E h \in Handlers : HandlerCrash(h))
  BY <1>1, <1>3, ControlLifecycle
<1>4. CASE UNCHANGED vars
  <2>1. /\ UNCHANGED <<workflows, tool_results, approvals, effects, crashes, replays>>
        /\ UNCHANGED <<wpc, delivery, state, call>> /\ UNCHANGED <<hpc, htask, hstate>>
    BY <1>4 DEF vars, storeVars, workerVars, runtimeVars, localVars, handlerVars
  <2>2. StepWay
    BY <1>1, <2>1, TypeParts, NothingAsked, EffectGrows, SomeTaskType DEF StepWay
  <2>3. \A h \in Handlers : HandlerWay(h)'
    BY <1>1, <2>1, TypeParts, HandlerWayKept DEF LifecycleInv
  <2>4. crashes' >= crashes /\ replays' >= replays
    BY <2>1, TypeParts, SMT DEF BudgetsTypeOK, ControlTypeOK
  <2> QED
    BY <1>1, <2>1, <2>2, <2>3, <2>4, QuietLifecycle
<1> QED
  BY <1>2, <1>3, <1>4 DEF Next

LEMMA LifecycleInvInit == Init => LifecycleInv
<1> SUFFICES ASSUME Init PROVE LifecycleInv
  OBVIOUS
<1>1. (\A w \in Workers : WorkerWay(w)) /\ (\A h \in Handlers : HandlerWay(h))
  BY DEF Init, WorkerInit, RuntimeInit, ControlInit, WorkerWay, HandlerWay, RuntimePC, ToolPC
<1>2. LedgerPerformed
  BY DEF Init, StoreInit, LedgerPerformed
<1>3. \A task \in Tasks :
        /\ workflows[task].status = "QUEUED"
        /\ workflows[task].pending_action = NoCall
  BY DEF Init, StoreInit, NewWorkflow
<1> QED
  BY <1>1, <1>2, <1>3 DEF LifecycleInv, Asked, QueuedPendingIsApproved

-----------------------------------------------------------------------------
\* What workers and requests know of the pending action stays true for as long as they act
\* on it (process, _execute_tool, _resume_approved_action, approve, reject).
THEOREM LifecycleInvHolds == Spec => []LifecycleInv
<1>1. TypeOK /\ CheckpointInv /\ LifecycleInv /\ [Next]_vars => LifecycleInv'
  BY LifecycleInvNext
<1> QED
  BY <1>1, LifecycleInvInit, TypeCorrect, CopiesStayFresh, PTL DEF Spec

\* Only approve() takes a workflow out of WAITING_FOR_APPROVAL with its action still pending:
\* what is queued with a pending action has been approved.
THEOREM QueuedPendingIsApprovedHolds == Spec => []QueuedPendingIsApproved
<1>1. LifecycleInv => QueuedPendingIsApproved
  BY DEF LifecycleInv
<1> QED
  BY <1>1, LifecycleInvHolds, PTL

\* Without a crash a waiting checkpoint has its approval row, or the worker that saved it is
\* about to create it (SaveWaiting before CreateApproval in process).
THEOREM WaitingHasApprovalHolds == Spec => []WaitingHasApproval
<1>1. TypeOK /\ LifecycleInv => WaitingHasApproval
  <2> SUFFICES ASSUME TypeOK, Asked, crashes = 0, NEW task \in Tasks,
                      workflows[task].status = "WAITING_FOR_APPROVAL",
                      approvals[RowKey(task)] = "NONE"
               PROVE  \E w \in Workers : wpc[w] = "create_approval" /\ Task(w) = task
    BY DEF LifecycleInv, WaitingHasApproval, RowKey
  <2>1. PICK w \in Workers : wpc[w] = "create_approval" /\ CurrentKey(w) = RowKey(task)
    BY DEF Asked
  <2> QED
    BY <2>1 DEF CurrentKey, RowKey, action_id
<1> QED
  BY <1>1, TypeCorrect, LifecycleInvHolds, PTL

-----------------------------------------------------------------------------
(* The runtime implements the lifecycle *)

LifecycleStep == [Lifecycle!LifecycleNext]_Lifecycle!lifecycleVars

\* The mapping shows the same policy and the same keys on both sides.
LEMMA SamePolicy ==
  /\ Lifecycle!Key = Key
  /\ \A c : (Lifecycle!Allowed(c) <=> Allowed(c))
        /\ (Lifecycle!ApprovalRequired(c) <=> ApprovalRequired(c))
  /\ \A task, c : Lifecycle!action_id(task, c) = action_id(task, c)
  BY DEF Lifecycle!Key, Key, Lifecycle!Allowed, Allowed, Lifecycle!ApprovalRequired,
         ApprovalRequired, Lifecycle!evaluate, evaluate, Lifecycle!action_id, action_id

\* What the mapping shows of a step that leaves everything it looks at alone.
LEMMA Invisible ==
  ASSUME UNCHANGED <<created, workflows, approvals, effects, replays>>
  PROVE  LifecycleStep
  BY DEF LifecycleStep, Lifecycle!lifecycleVars, phase, pending, performed

-----------------------------------------------------------------------------
(* A step that changes one checkpoint *)

\* The other incidents look the same before and after.
LEMMA OneRow ==
  ASSUME StoreTypeOK, NEW task \in created, OtherRowsKept(task), UNCHANGED created
  PROVE  /\ phase' = [phase EXCEPT ![task] = PhaseOf(workflows'[task].status)]
         /\ pending' = [pending EXCEPT ![task] = workflows'[task].pending_action]
         /\ phase[task] = PhaseOf(workflows[task].status)
         /\ pending[task] = workflows[task].pending_action
         /\ task \in Tasks
<1>1. task \in Tasks
  BY DEF StoreTypeOK
<1> QED
  BY <1>1 DEF OtherRowsKept, phase, pending

LEMMA RowImplements ==
  ASSUME StoreTypeOK, NEW task \in created, OtherRowsKept(task),
         UNCHANGED <<created, approvals, effects>>,
         \/ RowStep(task) /\ UNCHANGED replays
         \/ Reopens(task)
  PROVE  LifecycleStep
<1> DEFINE old == workflows[task]
           new == workflows'[task]
<1>1. /\ phase' = [phase EXCEPT ![task] = PhaseOf(new.status)]
      /\ pending' = [pending EXCEPT ![task] = new.pending_action]
      /\ phase[task] = PhaseOf(old.status)
      /\ pending[task] = old.pending_action
      /\ task \in Tasks
  BY OneRow
<1>2. UNCHANGED <<approvals, performed>>
  BY DEF performed
<1>3. ASSUME new.pending_action = old.pending_action PROVE pending' = pending
  BY <1>1, <1>3 DEF pending
<1>4. ASSUME PhaseOf(new.status) = PhaseOf(old.status) PROVE phase' = phase
  BY <1>1, <1>4 DEF phase
<1>5. PhaseOf(old.status) \in {"OPEN", "WAITING", "CLOSED", "REJECTED"}
  BY DEF PhaseOf
<1>6. ASSUME Lifecycle!LifecycleNext PROVE LifecycleStep
  BY <1>6 DEF LifecycleStep
<1>7. CASE Reopens(task)
  <2>1. Lifecycle!Reopen(task)
    BY <1>1, <1>2, <1>3, <1>5, <1>7 DEF Reopens, PhaseOf, Lifecycle!Reopen, Lifecycle!Enter
  <2> QED
    BY <1>1, <1>6, <2>1 DEF Lifecycle!LifecycleNext
<1>8. ASSUME UNCHANGED replays, RowStep(task), ~Reopens(task)
      PROVE  LifecycleStep
  <2>1. CASE new = old \/ Proceeds(task, old, new)
    <3>1. pending' = pending /\ phase' = phase
      BY <1>3, <1>4, <2>1 DEF Proceeds, PhaseOf, OpenStatus
    <3> QED
      BY <1>2, <1>8, <3>1 DEF LifecycleStep, Lifecycle!lifecycleVars
  <2>2. CASE Asks(task, old, new)
    <3>1. Lifecycle!Ask(task, new.pending_action)
      BY <1>1, <1>2, <1>8, <2>2, SamePolicy
      DEF Asks, PhaseOf, OpenStatus, Lifecycle!Ask, Lifecycle!Enter
    <3>2. new.pending_action \in Calls
      BY <2>2 DEF Asks
    <3> QED
      BY <1>1, <1>6, <3>1, <3>2 DEF Lifecycle!LifecycleNext
  <2>3. CASE Releases(task, old, new)
    <3>1. Lifecycle!Release(task)
      BY <1>1, <1>2, <1>3, <1>8, <2>3, SamePolicy
      DEF Releases, PhaseOf, Lifecycle!Release, Lifecycle!Enter
    <3> QED
      BY <1>1, <1>6, <3>1 DEF Lifecycle!LifecycleNext
  <2>4. CASE Refuses(task, old, new)
    <3>1. Lifecycle!Refuse(task)
      BY <1>1, <1>2, <1>8, <2>4, SamePolicy
      DEF Refuses, PhaseOf, Lifecycle!Refuse, Lifecycle!Enter
    <3> QED
      BY <1>1, <1>6, <3>1 DEF Lifecycle!LifecycleNext
  <2>5. CASE Concludes(task, old, new)
    <3>1. phase' = phase
      BY <1>4, <2>5 DEF Concludes, PhaseOf, OpenStatus
    <3>2. action_id(task, old.pending_action) \in performed
      BY <1>1, <2>5 DEF Concludes, performed, StoreTypeOK, Checkpoint, action_id, Key
    <3>3. Lifecycle!Conclude(task)
      BY <1>1, <1>2, <1>8, <2>5, <3>1, <3>2, SamePolicy
      DEF Concludes, PhaseOf, OpenStatus, Lifecycle!Conclude
    <3> QED
      BY <1>1, <1>6, <3>3 DEF Lifecycle!LifecycleNext
  <2>6. CASE Closes(old, new)
    <3>1. PhaseOf(new.status) = "CLOSED" /\ PhaseOf(old.status) \in {"OPEN", "WAITING"}
      BY <2>6 DEF Closes, PhaseOf, OpenStatus, TerminalStatus
    <3>2. Lifecycle!Close(task)
      BY <1>1, <1>2, <1>3, <1>8, <2>6, <3>1 DEF Closes, Lifecycle!Close, Lifecycle!Enter
    <3> QED
      BY <1>1, <1>6, <3>2 DEF Lifecycle!LifecycleNext
  <2> QED
    BY <1>8, <2>1, <2>2, <2>3, <2>4, <2>5, <2>6 DEF RowStep, RowChange
<1> QED
  BY <1>7, <1>8

-----------------------------------------------------------------------------
(* A step that changes something else *)

LEMMA SameRow ==
  ASSUME StoreTypeOK, NEW task \in created, OtherRowsKept(task), UNCHANGED created,
         PhaseOf(workflows'[task].status) = PhaseOf(workflows[task].status),
         workflows'[task].pending_action = workflows[task].pending_action
  PROVE  UNCHANGED <<phase, pending>>
  BY OneRow DEF phase, pending

LEMMA CreateImplements ==
  ASSUME TypeOK, OnlyCreated, NEW task \in Tasks, CreateIncident(task), UNCHANGED effects
  PROVE  LifecycleStep
<1>1. /\ UNCHANGED workflows /\ created' = created \cup {task} /\ task \notin created
      /\ UNCHANGED <<approvals, replays>>
  BY CreateShape DEF CreateIncident, create_workflow, handlerVars
<1>2. workflows[task].status = "QUEUED"
  BY <1>1 DEF OnlyCreated, NewWorkflow
<1>3. phase[task] = "NONE" /\ phase' = [phase EXCEPT ![task] = "OPEN"]
  BY <1>1, <1>2 DEF phase, PhaseOf
<1>4. Lifecycle!Submit(task)
  BY <1>1, <1>3 DEF Lifecycle!Submit, Lifecycle!Enter, pending, performed
<1> QED
  BY <1>4 DEF LifecycleStep, Lifecycle!LifecycleNext

\* The approval row a worker creates is about the action its task waits with.
LEMMA PresentImplements ==
  ASSUME TypeOK, NEW w \in Workers, WorkerWay(w), CreateApproval(w), UNCHANGED replays
  PROVE  LifecycleStep
<1> DEFINE key == CurrentKey(w)
<1>1. UNCHANGED <<created, workflows, effects>> /\ wpc[w] = "create_approval"
  BY DEF CreateApproval, create_approval
<1>2. StoreTypeOK /\ key \in Key
  BY <1>1, TypeParts, KeyType DEF Busy, LocalTypeOK, CallChosen, CallPC
<1>3. CASE approvals[key] = "NONE"
  <2>1. pending[key[1]] = key[2]
    BY <1>1, <1>2, <1>3 DEF WorkerWay, CurrentKey, action_id, Key, pending
  <2>2. approvals' = [approvals EXCEPT ![key] = "PENDING"]
    BY <1>3 DEF CreateApproval, create_approval
  <2>3. UNCHANGED <<phase, pending, performed>>
    BY <1>1 DEF phase, pending, performed
  <2>4. Lifecycle!Present(key)
    BY <1>3, <2>1, <2>2, <2>3 DEF Lifecycle!Present
  <2> QED
    BY <1>2, <2>4, SamePolicy DEF LifecycleStep, Lifecycle!LifecycleNext
<1>4. CASE approvals[key] # "NONE"
  <2>1. UNCHANGED approvals
    BY <1>2, <1>4 DEF CreateApproval, create_approval, StoreTypeOK
  <2> QED
    BY <1>1, <2>1, Invisible
<1> QED
  BY <1>3, <1>4

LEMMA AnswerImplements ==
  ASSUME TypeOK, NEW h \in Handlers, HandlerWay(h), ApproveResolve(h) \/ RejectResolve(h),
         UNCHANGED effects
  PROVE  LifecycleStep
<1> DEFINE key == PendingKey(h)
<1>1. UNCHANGED <<created, workflows, replays>>
  BY DEF ApproveResolve, RejectResolve, Resolve, resolve_approval, HGoto, Respond, storeVars
<1>2. key \in Key
  BY TypeParts, HandlerTypes
  DEF HandlerWay, HandlerPC, ApproveResolve, RejectResolve, PendingKey, action_id, Key, Checkpoint
<1>3. ASSUME NEW answer \in {"APPROVED", "REJECTED"}, resolve_approval(key, answer)
      PROVE  LifecycleStep
  <2>1. UNCHANGED <<phase, pending, performed>>
    BY <1>1 DEF phase, pending, performed
  <2>2. Lifecycle!Answer(key, answer)
    BY <1>1, <1>3, <2>1 DEF resolve_approval, Lifecycle!Answer
  <2> QED
    BY <1>2, <2>2, SamePolicy DEF LifecycleStep, Lifecycle!LifecycleNext
<1>4. CASE UNCHANGED approvals
  BY <1>1, <1>4, Invisible
<1> QED
  BY <1>3, <1>4 DEF ApproveResolve, RejectResolve, Resolve, storeVars

LEMMA PerformImplements ==
  ASSUME TypeOK, CheckpointInv, NEW w \in Workers, Gated(w), WorkerWay(w),
         \/ \E r \in Results : BackendSucceeds(w, r)
         \/ BackendTimesOut(w),
         UNCHANGED replays
  PROVE  LifecycleStep
<1> DEFINE key == CurrentKey(w)
           task == Task(w)
<1>1. wpc[w] = "backend" /\ Effect(key) /\ UNCHANGED <<created, approvals>>
  BY DEF BackendSucceeds, BackendTimesOut, FailRetryably, SaveAndRaise, StaleSave,
         save_workflow, storeVars
<1>2. /\ StoreTypeOK /\ EffectsTypeOK /\ Busy(w) /\ task \in created /\ key \in Key
      /\ key[1] = task /\ key[2] = call[w]
  BY <1>1, TypeParts, KeyType
  DEF Busy, LocalTypeOK, CallChosen, CallPC, CheckpointInv, OnlyCreated, CurrentKey, action_id
<1>3. UNCHANGED <<phase, pending>>
  <2>1. CASE UNCHANGED workflows
    BY <1>1, <2>1 DEF phase, pending
  <2>2. ASSUME NEW new, new = [state[w] EXCEPT !.status = "QUEUED"], save_workflow(task, new)
        PROVE  UNCHANGED <<phase, pending>>
    <3>1. state[w] \in Checkpoint /\ state[w].status \in OpenStatus
      BY <1>1, <1>2, HeldTypes DEF WorkerWay, RuntimePC
    <3>2. /\ new \in Checkpoint /\ new.version = state[w].version /\ new.status = "QUEUED"
          /\ new.pending_action = state[w].pending_action
      BY <2>2, <3>1, StatusFields DEF WorkflowStatus
    <3>3. workflows[task] = state[w]
      BY <1>1, <2>2, <3>2
      DEF CheckpointInv, CopiesFresh, CopyPC, RuntimePC, FreshCopy, save_workflow, VersionMatches
    <3>4. /\ workflows'[task] = Saved(new) /\ OtherRowsKept(task)
      BY <1>2, <2>2 DEF save_workflow, StoreTypeOK, OtherRowsKept
    <3>5. Saved(new).status = "QUEUED" /\ Saved(new).pending_action = new.pending_action
      BY <3>2 DEF Saved, Checkpoint
    <3> QED
      BY <1>1, <1>2, <3>1, <3>2, <3>3, <3>4, <3>5, SameRow DEF PhaseOf, OpenStatus
  <2> QED
    BY <2>1, <2>2
    DEF BackendSucceeds, BackendTimesOut, FailRetryably, SaveAndRaise, StaleSave, storeVars
<1>4. performed' = performed \cup {key}
  <2>1. \A k \in Key : effects[k] \in Nat
    BY <1>2 DEF EffectsTypeOK
  <2>2. \A k \in Key : effects'[k] = IF k = key THEN effects[k] + 1 ELSE effects[k]
    BY <1>1, <1>2 DEF Effect, EffectsTypeOK
  <2>3. \A k \in Key : effects'[k] > 0 <=> effects[k] > 0 \/ k = key
    BY <2>1, <2>2, SMT
  <2> QED
    BY <1>2, <2>3 DEF performed
<1>5. phase[key[1]] # "NONE"
  BY <1>2 DEF StoreTypeOK, phase, PhaseOf
<1>6. Lifecycle!Perform(key)
  BY <1>1, <1>2, <1>3, <1>4, <1>5, SamePolicy DEF Gated, Lifecycle!Perform
<1> QED
  BY <1>2, <1>6, SamePolicy DEF LifecycleStep, Lifecycle!LifecycleNext

-----------------------------------------------------------------------------
(* Every step *)

\* Approvals change in CreateApproval alone, effects in the two ends of a backend call.
LEMMA OtherProcessSteps ==
  ASSUME NEW w \in Workers, ProcessStep(w), ~CreateApproval(w), ~BackendTimesOut(w),
         ~\E r \in Results : BackendSucceeds(w, r)
  PROVE  UNCHANGED <<approvals, effects>>
<1>1. ASSUME NEW new, NEW pc,
             \/ SaveAndReturn(w, new) \/ SaveAndRaise(w, new) \/ SaveAndGoto(w, new, pc)
             \/ StaleSave(w, new)
      PROVE  UNCHANGED approvals
  BY <1>1 DEF SaveAndReturn, SaveAndRaise, SaveAndGoto, StaleSave, save_workflow, storeVars
<1>2. ASSUME NEW c \in Calls, DecideTool(w, c) PROVE UNCHANGED <<approvals, effects>>
  BY <1>1, <1>2 DEF DecideTool, save_workflow
<1> QED
  BY <1>1, <1>2
  DEF ProcessStep, Load, SaveRunning, ModelFailsRetryably, ModelFailsPermanently,
      DecideComplete, DecideFail, PolicyDenied, SaveWaiting, ResumeApprovedAction,
      LookupResult, BackendFailsRetryably, BackendFailsPermanently, SaveToolResult,
      save_tool_result, RecordResult, Fail, FailRetryably, storeVars

LEMMA RunOnceImplements ==
  ASSUME TypeOK, CheckpointInv, GateInv, LifecycleInv, NEW w \in Workers, RunOnceStep(w),
         ApprovalsForward, UNCHANGED handlerVars
  PROVE  LifecycleStep
<1>1. /\ StoreTypeOK /\ LocalTypeOK /\ HoldsRow /\ Gated(w) /\ WorkerWay(w) /\ UNCHANGED replays
  BY TypeParts DEF GateInv, LifecycleInv, handlerVars
<1>2. CASE \E i \in DOMAIN queue : Claim(w, i)
  BY <1>1, <1>2, Invisible DEF Claim, claim, Budgets
<1>3. CASE CreateApproval(w)
  BY <1>1, <1>3, PresentImplements
<1>4. CASE (\E r \in Results : BackendSucceeds(w, r)) \/ BackendTimesOut(w)
  BY <1>1, <1>4, PerformImplements
<1>5. CASE UNCHANGED <<approvals, effects>> /\ wpc[w] # "idle"
  <2>1. Task(w) \in created /\ RowStep(Task(w)) /\ OtherRowsKept(Task(w)) /\ UNCHANGED created
    BY <1>1, <1>5, RunOnceStepWay, RunOnceOnlyTask DEF CheckpointInv, OnlyCreated, OnlyTask
  <2> QED
    BY <1>1, <1>5, <2>1, RowImplements
<1>6. ReportStep(w) => UNCHANGED <<approvals, effects>>
  BY DEF ReportStep, Acknowledge, Enqueue, RetryOrDeadLetter, DeadLoad, DeadSave,
         PermanentAcknowledge, PermanentLoad, PermanentSave, Reload, SaveFinal, Budgets, storeVars,
         acknowledge, enqueue, retry_or_dead_letter, save_workflow
<1>7. ProcessStep(w) \/ ReportStep(w) => wpc[w] # "idle"
  BY DEF ReportStep, Acknowledge, Enqueue, RetryOrDeadLetter, DeadLoad,
         DeadSave, PermanentAcknowledge, PermanentLoad, PermanentSave,
         ProcessStep, Load, SaveRunning, ModelFailsRetryably, ModelFailsPermanently,
         DecideComplete, DecideFail, DecideTool, PolicyDenied, SaveWaiting, CreateApproval,
         ResumeApprovedAction, LookupResult, BackendSucceeds, BackendFailsRetryably,
         BackendTimesOut, BackendFailsPermanently, SaveToolResult, RecordResult
<1> QED
  BY <1>2, <1>3, <1>4, <1>5, <1>6, <1>7, OtherProcessSteps DEF RunOnceStep, ReportStep

LEMMA ControlImplements ==
  ASSUME TypeOK, CheckpointInv, LifecycleInv, ControlStep, UNCHANGED workerVars
  PROVE  LifecycleStep
<1>1. /\ StoreTypeOK /\ ControlTypeOK /\ OnlyCreated /\ CopiesFresh
      /\ UNCHANGED effects
  BY TypeParts DEF CheckpointInv, workerVars, runtimeVars
<1>2. ASSUME NEW task \in Tasks, CreateIncident(task) PROVE LifecycleStep
  BY <1>1, <1>2, CreateImplements
<1>3. ASSUME NEW h \in Handlers, NEW task \in Tasks, Approve(h, task) \/ Reject(h, task)
      PROVE  LifecycleStep
  BY <1>1, <1>3, Invisible DEF Approve, Reject, Open, storeVars
<1>4. ASSUME NEW h \in Handlers, ApproveResolve(h) \/ RejectResolve(h)
      PROVE  LifecycleStep
  BY <1>1, <1>4, AnswerImplements DEF LifecycleInv
<1>5. ASSUME NEW h \in Handlers, ApproveSave(h) \/ ApproveEnqueue(h) \/ RejectSave(h)
      PROVE  LifecycleStep
  <2>1. HandlerStep(h) /\ UNCHANGED <<approvals, replays>>
    BY <1>5 DEF HandlerStep, ApproveSave, ApproveEnqueue, RejectSave, StaleRequest, HGoto, Respond,
                save_workflow, enqueue, storeVars
  <2>2. hpc[h] # "idle" /\ OnlyTask(htask[h])
    BY <1>1, <2>1, HandlerStepShape
  <2>3. htask[h] \in created /\ OtherRowsKept(htask[h]) /\ UNCHANGED created
    BY <1>1, <2>2 DEF OnlyCreated, OnlyTask, OtherRowsKept
  <2>4. RowStep(htask[h])
    BY <1>1, <2>1, <2>2, HandlerRow DEF LifecycleInv, CopiesFresh
  <2> QED
    BY <1>1, <2>1, <2>3, <2>4, RowImplements
<1>6. ASSUME NEW id \in DOMAIN queue, ReplayDeadLetter(id) PROVE LifecycleStep
  <2>1. /\ queue[id].task_id \in created /\ OtherRowsKept(queue[id].task_id)
        /\ UNCHANGED <<created, approvals>>
    BY <1>1, <1>6, ReplayShape
    DEF OnlyCreated, OnlyTask, OtherRowsKept, ReplayDeadLetter, replay_dead_letter
  <2> QED
    BY <1>1, <1>6, <2>1, ReplayRow, RowImplements
<1> QED
  BY <1>2, <1>3, <1>4, <1>5, <1>6 DEF ControlStep, HandlerStep

LEMMA NextImplements ==
  ASSUME TypeOK, CheckpointInv, GateInv, LifecycleInv, [Next]_vars
  PROVE  LifecycleStep
<1>1. CASE \E w \in Workers : RunOnceStep(w) /\ UNCHANGED handlerVars
  BY <1>1, ApprovalsForwardNext, RunOnceImplements
<1>2. CASE ControlStep /\ UNCHANGED workerVars
  BY <1>2, ControlImplements
<1>3. CASE \/ /\ \/ \E w \in Workers : Heartbeat(w) \/ WorkerCrash(w)
                 \/ \E i \in DOMAIN queue : LeaseExpires(i)
              /\ UNCHANGED handlerVars
           \/ \E h \in Handlers : HandlerCrash(h)
           \/ UNCHANGED vars
  BY <1>3, Invisible
  DEF Heartbeat, extend_lease, WorkerCrash, LeaseExpires, HandlerCrash, Respond, vars, storeVars,
      workerVars, runtimeVars, handlerVars
<1> QED
  BY <1>1, <1>2, <1>3 DEF Next, WorkerNext

\* Whatever crashes, stalls, times out, races or is replayed, what can be seen of an incident
\* is a behaviour of the lifecycle (process, run_once, approve, reject, replay_dead_letter).
THEOREM ImplementsLifecycleHolds == Spec => ImplementsLifecycle
<1>1. Init => Lifecycle!LifecycleInit
  BY SamePolicy
  DEF Init, StoreInit, WorkerInit, RuntimeInit, ControlInit, NewWorkflow, Lifecycle!LifecycleInit,
      phase, pending, performed
<1>2. Init => GateInv
  BY DEF Init, StoreInit, WorkerInit, RuntimeInit, GateInv, Gated, PolicyGate, Key, action_id
<1>3. TypeOK /\ GateInv /\ [Next]_vars => GateInv'
  BY GateInvNext
<1>4. TypeOK /\ CheckpointInv /\ GateInv /\ LifecycleInv /\ [Next]_vars
        => [Lifecycle!LifecycleNext]_Lifecycle!lifecycleVars
  BY NextImplements DEF LifecycleStep
<1> QED
  BY <1>1, <1>2, <1>3, <1>4, TypeCorrect, CopiesStayFresh, LifecycleInvHolds, PTL
  DEF Spec, ImplementsLifecycle, Lifecycle!LifecycleSpec
=============================================================================
