----------------------- MODULE AgentResilienceProofs -----------------------
(***************************************************************************)
(* Theorems about AgentResilience for every set of tasks, workers,         *)
(* handlers, calls and results, and every bound: its types, PolicyGate for *)
(* any number of crashes, stalls, lost answers and replays, and, in the    *)
(* second half, what the optimistic version check protects.                *)
(*                                                                         *)
(* PolicyGate speaks of effects that have happened.  What makes it         *)
(* inductive is what is known of a worker on its way to one: where it      *)
(* stands, the call in its hand has already passed the policy and, if it   *)
(* needs a human, its approval row is APPROVED; and no step takes an       *)
(* APPROVED row back.                                                      *)
(***************************************************************************)
EXTENDS AgentResilience, SequenceTheorems, TLAPS

-----------------------------------------------------------------------------
(* Types of the values that initialise or reset a variable *)

LEMMA SomeTaskType == SomeTask \in Tasks
  BY ModelsAssumption DEF SomeTask

LEMMA NewWorkflowType == NewWorkflow \in Checkpoint
  BY ModelsAssumption, SMT DEF NewWorkflow, Checkpoint, Evidence, WorkflowStatus

LEMMA NoDeliveryType == NoDelivery \in Delivery
  BY SomeTaskType, SMT DEF NoDelivery, Delivery

LEMMA NewRowType == ASSUME NEW task \in Tasks PROVE NewRow(task) \in QueueRow
  BY SMT DEF NewRow, QueueRow, QueueStatus

LEMMA SavedType ==
  ASSUME NEW s \in Checkpoint
  PROVE  /\ Saved(s) \in Checkpoint
         /\ Saved(s).version = s.version + 1
  BY SMT DEF Saved, Checkpoint

\* The assignments the program makes to a checkpoint.

LEMMA StatusType ==
  ASSUME NEW s \in Checkpoint, NEW status \in WorkflowStatus
  PROVE  [s EXCEPT !.status = status] \in Checkpoint
  BY DEF Checkpoint

LEMMA PendingType ==
  ASSUME NEW s \in Checkpoint, NEW status \in WorkflowStatus, NEW c \in Calls \cup {NoCall}
  PROVE  [s EXCEPT !.status = status, !.pending_action = c] \in Checkpoint
  BY DEF Checkpoint

LEMMA RequestedType ==
  ASSUME NEW s \in Checkpoint, NEW c \in Calls
  PROVE  /\ Requested(s, c) \in Checkpoint
         /\ Requested(s, c).version = s.version
<1>1. c.tool \in Tools
  BY DEF Tools
<1>2. /\ Append(s.tool_history, c.tool) \in Seq(Tools)
      /\ Append(s.progress_history, s.evidence) \in Seq(Evidence)
  BY <1>1, AppendProperties DEF Checkpoint
<1> QED
  BY <1>2 DEF Requested, Checkpoint

LEMMA CompletedType ==
  ASSUME NEW s \in Checkpoint, NEW tool, NEW r \in Results \cup {NoResult}
  PROVE  /\ Completed(s, tool, r) \in Checkpoint
         /\ Completed(s, tool, r).version = s.version
<1> DEFINE evidence == [s.evidence EXCEPT ![tool] = r]
<1>1. evidence \in Evidence
  BY DEF Checkpoint, Evidence
<1>2. Append(s.progress_history, evidence) \in Seq(Evidence)
  BY <1>1, AppendProperties DEF Checkpoint
<1> HIDE DEF evidence
<1>3. Completed(s, tool, r) =
        [s EXCEPT !.evidence = evidence,
                  !.progress_history = Append(s.progress_history, evidence),
                  !.pending_action = NoCall,
                  !.status = "QUEUED"]
  BY DEF Completed, evidence
<1> QED
  BY <1>1, <1>2, <1>3 DEF Checkpoint, WorkflowStatus

-----------------------------------------------------------------------------
(* The store keeps its types, and a row of the queue keeps its task *)

RowsKept == \A i \in DOMAIN queue :
                i \in DOMAIN queue' /\ queue'[i].task_id = queue[i].task_id

LEMMA CreateWorkflowType ==
  ASSUME StoreTypeOK, NEW task \in Tasks, create_workflow(task)
  PROVE  StoreTypeOK' /\ RowsKept
  BY NewWorkflowType, NewRowType, AppendProperties, LenProperties, SMT
  DEF StoreTypeOK, create_workflow, RowsKept

LEMMA SaveWorkflowType ==
  ASSUME StoreTypeOK, NEW task \in Tasks, NEW s \in Checkpoint, save_workflow(task, s)
  PROVE  StoreTypeOK' /\ RowsKept
  BY SavedType, SMT DEF StoreTypeOK, save_workflow, RowsKept

LEMMA EnqueueType ==
  ASSUME StoreTypeOK, NEW task \in Tasks, enqueue(task)
  PROVE  StoreTypeOK' /\ RowsKept
<1>1. CASE queue' = queue
  BY <1>1 DEF StoreTypeOK, enqueue, RowsKept
<1>2. CASE queue' = Append(queue, NewRow(task))
  BY <1>2, NewRowType, AppendProperties, LenProperties, SMT DEF StoreTypeOK, enqueue, RowsKept
<1> QED
  BY <1>1, <1>2 DEF enqueue

\* One row is rewritten.
LEMMA UpdateRow ==
  ASSUME StoreTypeOK, NEW i \in DOMAIN queue, NEW row \in QueueRow,
         row.task_id = queue[i].task_id, queue' = [queue EXCEPT ![i] = row]
  PROVE  queue' \in Seq(QueueRow) /\ RowsKept
<1>1. queue \in Seq(QueueRow) /\ i \in 1 .. Len(queue)
  BY LenProperties DEF StoreTypeOK
<1>2. /\ queue' \in Seq(QueueRow)
      /\ Len(queue') = Len(queue)
      /\ \A j \in 1 .. Len(queue) : queue'[j] = IF j = i THEN row ELSE queue[j]
  BY <1>1, ExceptSeq
<1>3. DOMAIN queue = 1 .. Len(queue) /\ DOMAIN queue' = 1 .. Len(queue)
  BY <1>1, <1>2, LenProperties
<1> QED
  BY <1>2, <1>3 DEF RowsKept

LEMMA RowType == ASSUME StoreTypeOK, NEW i \in DOMAIN queue PROVE queue[i] \in QueueRow
  BY ElementOfSeq, LenProperties DEF StoreTypeOK

LEMMA ReclaimedType ==
  ASSUME NEW row \in QueueRow
  PROVE  /\ Reclaimed(row) \in QueueRow
         /\ Reclaimed(row).task_id = row.task_id
  BY DEF Reclaimed, QueueRow, QueueStatus

LEMMA ClaimType ==
  ASSUME StoreTypeOK, NEW i \in DOMAIN queue, claim(i)
  PROVE  StoreTypeOK' /\ RowsKept
<1> DEFINE rows == [j \in DOMAIN queue |-> Reclaimed(queue[j])]
           claimed == [rows[i] EXCEPT !.status = "PROCESSING", !.attempts = @ + 1,
                                      !.delayed = FALSE, !.expired = FALSE]
<1>1. rows \in [DOMAIN queue -> QueueRow]
  BY ReclaimedType, RowType
<1>2. claimed \in QueueRow /\ claimed.task_id = queue[i].task_id
  <2>1. rows[i] \in QueueRow /\ rows[i].task_id = queue[i].task_id
    BY ReclaimedType, RowType
  <2>2. rows[i].attempts + 1 \in Nat
    BY <2>1, SMT DEF QueueRow
  <2> HIDE DEF rows
  <2> QED
    BY <2>1, <2>2, Zenon DEF QueueRow, QueueStatus
<1>3. queue' = [rows EXCEPT ![i] = claimed]
  BY DEF claim
<1>4. \A j \in DOMAIN queue : rows[j].task_id = queue[j].task_id
  BY ReclaimedType, RowType
<1>5. Len(queue) \in Nat /\ DOMAIN queue = 1 .. Len(queue)
  BY LenProperties DEF StoreTypeOK
<1> HIDE DEF rows, claimed
<1>6. queue' \in [DOMAIN queue -> QueueRow]
  BY <1>1, <1>2, <1>3
<1>7. queue' \in Seq(QueueRow) /\ DOMAIN queue' = DOMAIN queue
  BY <1>5, <1>6, SMT
<1>8. RowsKept
  BY <1>1, <1>2, <1>3, <1>4, <1>7 DEF RowsKept
<1> QED
  BY <1>7, <1>8 DEF claim, StoreTypeOK

LEMMA AcknowledgeType ==
  ASSUME StoreTypeOK, NEW i \in DOMAIN queue, acknowledge(i)
  PROVE  StoreTypeOK' /\ RowsKept
<1> DEFINE row == [queue[i] EXCEPT !.status = "COMPLETED", !.expired = FALSE]
<1>1. row \in QueueRow /\ row.task_id = queue[i].task_id
  BY RowType DEF QueueRow, QueueStatus
<1>2. queue' = [queue EXCEPT ![i] = row]
  BY DEF acknowledge
<1> QED
  BY <1>1, <1>2, UpdateRow DEF acknowledge, StoreTypeOK

LEMMA ExtendLeaseType ==
  ASSUME StoreTypeOK, NEW i \in DOMAIN queue, extend_lease(i)
  PROVE  StoreTypeOK' /\ RowsKept
<1> DEFINE row == [queue[i] EXCEPT !.expired = @ /\ queue[i].status # "PROCESSING"]
<1>1. row \in QueueRow /\ row.task_id = queue[i].task_id
  BY RowType DEF QueueRow, QueueStatus
<1>2. queue' = [queue EXCEPT ![i] = row]
  BY DEF extend_lease
<1> QED
  BY <1>1, <1>2, UpdateRow DEF extend_lease, StoreTypeOK

LEMMA RetryType ==
  ASSUME StoreTypeOK, NEW d \in Delivery, d.id \in DOMAIN queue, retry_or_dead_letter(d)
  PROVE  StoreTypeOK' /\ RowsKept
<1> DEFINE row == [queue[d.id] EXCEPT !.status = IF IsDead(d) THEN "DEAD" ELSE "PENDING",
                                      !.delayed = ~IsDead(d),
                                      !.expired = FALSE]
<1>1. row \in QueueRow /\ row.task_id = queue[d.id].task_id
  BY RowType DEF QueueRow, QueueStatus
<1>2. queue' = [queue EXCEPT ![d.id] = row]
  BY DEF retry_or_dead_letter
<1> QED
  BY <1>1, <1>2, UpdateRow DEF retry_or_dead_letter, StoreTypeOK

LEMMA ReplayType ==
  ASSUME StoreTypeOK, NEW i \in DOMAIN queue, replay_dead_letter(i)
  PROVE  StoreTypeOK' /\ RowsKept
<1> DEFINE task == queue[i].task_id
           requeued == Saved([workflows[task] EXCEPT !.status = "QUEUED"])
<1>1. task \in Tasks
  BY RowType, SMT DEF QueueRow
<1>2. NewRow(task) \in QueueRow /\ NewRow(task).task_id = queue[i].task_id
  BY <1>1, NewRowType DEF NewRow
<1>3. queue' = [queue EXCEPT ![i] = NewRow(task)]
  BY DEF replay_dead_letter
<1>4. queue' \in Seq(QueueRow) /\ RowsKept
  BY <1>2, <1>3, UpdateRow
<1>5. requeued \in Checkpoint
  BY <1>1, SavedType, StatusType DEF StoreTypeOK, WorkflowStatus
<1>6. workflows' = [workflows EXCEPT ![task] = requeued]
  BY DEF replay_dead_letter
<1> QED
  BY <1>4, <1>5, <1>6 DEF replay_dead_letter, StoreTypeOK

LEMMA LedgerType ==
  ASSUME StoreTypeOK, NEW key, NEW r \in Results \cup {NoResult}, save_tool_result(key, r)
  PROVE  StoreTypeOK' /\ RowsKept
  BY DEF StoreTypeOK, save_tool_result, RowsKept

LEMMA ApprovalType ==
  ASSUME StoreTypeOK, NEW key, NEW resolution \in ApprovalStatus,
         create_approval(key) \/ resolve_approval(key, resolution)
  PROVE  StoreTypeOK' /\ RowsKept
  BY DEF StoreTypeOK, create_approval, resolve_approval, ApprovalStatus, RowsKept

-----------------------------------------------------------------------------
LEMMA InitType == Init => TypeOK
<1> SUFFICES ASSUME Init PROVE TypeOK
  OBVIOUS
<1>1. StoreTypeOK
  BY NewWorkflowType, ModelsAssumption, SMT DEF Init, StoreInit, StoreTypeOK, Key, ApprovalStatus
<1>2. WorkerTypeOK
  BY NewWorkflowType, NoDeliveryType, ModelsAssumption, SMT
  DEF Init, WorkerInit, RuntimeInit, WorkerTypeOK, RuntimeTypeOK, WorkerPC
<1>3. ControlTypeOK
  BY NewWorkflowType, SomeTaskType, SMT DEF Init, ControlInit, ControlTypeOK, HandlerPC
<1> QED
  BY <1>1, <1>2, <1>3 DEF TypeOK, Init, WorkerInit, RuntimeInit, CallChosen, CallPC

-----------------------------------------------------------------------------
(* The ways a step of a worker ends *)

\* The part of TypeOK about the local state of the workers.
LocalTypeOK ==
    /\ wpc \in [Workers -> WorkerPC]
    /\ delivery \in [Workers -> Delivery]
    /\ state \in [Workers -> Checkpoint]
    /\ call \in [Workers -> Calls \cup {NoCall}]
    /\ result \in [Workers -> Results \cup {NoResult}]
    /\ CallChosen

\* Nobody got a delivery in this step.
NothingClaimed ==
    \A w \in Workers : wpc'[w] # "idle" => wpc[w] # "idle" /\ delivery'[w] = delivery[w]

StoreStepOK == StoreTypeOK' /\ RowsKept

LocalStepOK == LocalTypeOK' /\ NothingClaimed

Busy(w) == StoreTypeOK /\ LocalTypeOK /\ wpc[w] # "idle"

\* Where process() is over.
AfterPC == WorkerPC \ (RuntimePC \cup {"idle"})

LEMMA StoreUnchanged ==
  ASSUME StoreTypeOK, UNCHANGED storeVars
  PROVE  StoreStepOK
  BY DEF StoreTypeOK, storeVars, StoreStepOK, RowsKept

LEMMA LocalUnchanged ==
  ASSUME LocalTypeOK, UNCHANGED <<wpc, localVars>>
  PROVE  LocalStepOK
  BY DEF LocalTypeOK, localVars, LocalStepOK, NothingClaimed, CallChosen

LEMMA HeldTypes ==
  ASSUME NEW w \in Workers, Busy(w)
  PROVE  /\ Task(w) \in Tasks
         /\ workflows[Task(w)] \in Checkpoint
         /\ state[w] \in Checkpoint
         /\ state[w].pending_action \in Calls \cup {NoCall}
         /\ call[w] \in Calls \cup {NoCall}
         /\ result[w] \in Results \cup {NoResult}
         /\ delivery[w] \in Delivery
  BY DEF Busy, LocalTypeOK, StoreTypeOK, Task, Delivery, Checkpoint

LEMMA LeaveProcessType ==
  ASSUME NEW w \in Workers, Busy(w), NEW pc \in AfterPC, LeaveProcess(w, pc)
  PROVE  LocalStepOK
<1>1. pc \in WorkerPC /\ pc \notin CallPC /\ pc # "approval"
  BY DEF AfterPC, CallPC, RuntimePC
<1> QED
  BY <1>1, NewWorkflowType
  DEF Busy, LocalTypeOK, LocalStepOK, NothingClaimed, LeaveProcess, Goto, CallChosen

LEMMA ReturnType ==
  ASSUME NEW w \in Workers, Busy(w), NEW new \in Checkpoint, Return(w, new)
  PROVE  LocalStepOK
<1>1. [NewWorkflow EXCEPT !.status = new.status] \in Checkpoint
  BY NewWorkflowType, StatusType DEF Checkpoint
<1>2. "ack" \in WorkerPC /\ "ack" \notin CallPC
  BY DEF WorkerPC, CallPC
<1> QED
  BY <1>1, <1>2 DEF Busy, LocalTypeOK, LocalStepOK, NothingClaimed, Return, Goto, CallChosen

LEMMA FinishType ==
  ASSUME NEW w \in Workers, LocalTypeOK, Finish(w)
  PROVE  LocalStepOK
<1>1. "idle" \in WorkerPC /\ "idle" \notin CallPC
  BY DEF WorkerPC, CallPC
<1> QED
  BY <1>1, NewWorkflowType, NoDeliveryType
  DEF LocalTypeOK, LocalStepOK, NothingClaimed, Finish, Goto, CallChosen

LEMMA StaleSaveType ==
  ASSUME NEW w \in Workers, Busy(w), NEW new, StaleSave(w, new)
  PROVE  StoreStepOK /\ LocalStepOK
  BY LeaveProcessType, StoreUnchanged DEF StaleSave, Busy, AfterPC, WorkerPC, RuntimePC

LEMMA SaveStoreType ==
  ASSUME NEW w \in Workers, Busy(w), NEW new \in Checkpoint, save_workflow(Task(w), new)
  PROVE  StoreStepOK
  BY HeldTypes, SaveWorkflowType DEF Busy, StoreStepOK

LEMMA SaveAndGotoType ==
  ASSUME NEW w \in Workers, Busy(w), NEW new \in Checkpoint, NEW pc \in WorkerPC,
         pc # "approval", pc \in CallPC => call[w] \in Calls, SaveAndGoto(w, new, pc)
  PROVE  StoreStepOK /\ LocalStepOK
<1>1. CASE StaleSave(w, new)
  BY <1>1, StaleSaveType
<1>2. CASE /\ save_workflow(Task(w), new)
           /\ state' = [state EXCEPT ![w] = Saved(new)]
           /\ Goto(w, pc)
           /\ UNCHANGED <<delivery, call, result>>
  <2>1. StoreStepOK
    BY <1>2, SaveStoreType
  <2>2. LocalStepOK
    BY <1>2, SavedType DEF Busy, LocalTypeOK, LocalStepOK, NothingClaimed, Goto, CallChosen
  <2> QED
    BY <2>1, <2>2
<1> QED
  BY <1>1, <1>2 DEF SaveAndGoto

LEMMA SaveAndReturnType ==
  ASSUME NEW w \in Workers, Busy(w), NEW new \in Checkpoint, SaveAndReturn(w, new)
  PROVE  StoreStepOK /\ LocalStepOK
  BY StaleSaveType, SaveStoreType, ReturnType DEF SaveAndReturn

LEMMA SaveAndRaiseType ==
  ASSUME NEW w \in Workers, Busy(w), NEW new \in Checkpoint, SaveAndRaise(w, new)
  PROVE  StoreStepOK /\ LocalStepOK
<1>1. "retry" \in AfterPC
  BY DEF AfterPC, WorkerPC, RuntimePC
<1> QED
  BY <1>1, StaleSaveType, SaveStoreType, LeaveProcessType DEF SaveAndRaise

LEMMA FailType ==
  ASSUME NEW w \in Workers, Busy(w), Fail(w) \/ FailRetryably(w)
  PROVE  StoreStepOK /\ LocalStepOK
<1>1. /\ [state[w] EXCEPT !.status = "FAILED"] \in Checkpoint
      /\ [state[w] EXCEPT !.status = "QUEUED"] \in Checkpoint
  BY HeldTypes, StatusType DEF WorkflowStatus
<1> QED
  BY <1>1, SaveAndReturnType, SaveAndRaiseType DEF Fail, FailRetryably

-----------------------------------------------------------------------------
(* The steps of process() *)

EffectsTypeOK == effects \in [Key -> Nat] /\ timeouts \in Nat

LEMMA EffectType ==
  ASSUME EffectsTypeOK, NEW key, Effect(key)
  PROVE  effects' \in [Key -> Nat]
<1>1. \A k \in Key : effects[k] + 1 \in Nat
  BY SMT DEF EffectsTypeOK
<1>2. effects' = [k \in Key |-> IF k = key THEN effects[k] + 1 ELSE effects[k]]
  BY Zenon DEF EffectsTypeOK, Effect
<1> QED
  BY <1>1, <1>2, Zenon DEF EffectsTypeOK

LEMMA EffectsStepType ==
  ASSUME EffectsTypeOK, NEW w \in Workers, ProcessStep(w)
  PROVE  EffectsTypeOK'
<1>1. CASE UNCHANGED <<effects, timeouts>>
  BY <1>1 DEF EffectsTypeOK
<1>2. CASE Effect(CurrentKey(w)) /\ UNCHANGED timeouts
  BY <1>2, EffectType DEF EffectsTypeOK
<1>3. CASE Effect(CurrentKey(w)) /\ timeouts' = timeouts + 1
  BY <1>3, EffectType DEF EffectsTypeOK
<1> QED
  BY <1>1, <1>2, <1>3
  DEF ProcessStep, Load, SaveRunning, ModelFailsRetryably, ModelFailsPermanently,
      DecideComplete, DecideFail, DecideTool, PolicyDenied, SaveWaiting, CreateApproval,
      ResumeApprovedAction, LookupResult, BackendSucceeds, BackendFailsRetryably,
      BackendTimesOut, BackendFailsPermanently, SaveToolResult, RecordResult

LEMMA LoadType ==
  ASSUME NEW w \in Workers, Busy(w), Load(w)
  PROVE  StoreStepOK /\ LocalStepOK
<1>1. StoreStepOK
  BY StoreUnchanged DEF Load, Busy
<1>2. CASE Return(w, workflows[Task(w)])
  BY <1>1, <1>2, HeldTypes, ReturnType
<1>3. CASE /\ Goto(w, AfterLoad(workflows[Task(w)]))
           /\ state' = [state EXCEPT ![w] = workflows[Task(w)]]
           /\ UNCHANGED <<delivery, call, result>>
  <2>1. AfterLoad(workflows[Task(w)]) \in WorkerPC
    BY DEF AfterLoad, WorkerPC, RuntimePC
  <2>2. /\ AfterLoad(workflows[Task(w)]) \notin CallPC
        /\ AfterLoad(workflows[Task(w)]) = "approval"
                => workflows[Task(w)].pending_action \in Calls
    BY HeldTypes DEF AfterLoad, CallPC, Checkpoint
  <2>3. LocalStepOK
    BY <1>3, <2>1, <2>2, HeldTypes
    DEF Busy, LocalTypeOK, LocalStepOK, NothingClaimed, Goto, CallChosen
  <2> QED
    BY <1>1, <2>3
<1> QED
  BY <1>2, <1>3 DEF Load

LEMMA DecideToolType ==
  ASSUME NEW w \in Workers, Busy(w), NEW c \in Calls, DecideTool(w, c)
  PROVE  StoreStepOK /\ LocalStepOK
<1> DEFINE requested == Requested(state[w], c)
           stopped == [requested EXCEPT !.status = "LOOP_STOPPED"]
<1>1. requested \in Checkpoint
  BY HeldTypes, RequestedType
<1>2. stopped \in Checkpoint
  BY <1>1, StatusType DEF WorkflowStatus
<1> HIDE DEF requested, stopped
<1>3. CASE SaveAndReturn(w, stopped)
  BY <1>2, <1>3, SaveAndReturnType
<1>4. CASE StaleSave(w, requested)
  BY <1>4, StaleSaveType
<1>5. CASE /\ save_workflow(Task(w), requested)
           /\ state' = [state EXCEPT ![w] = Saved(requested)]
           /\ call' = [call EXCEPT ![w] = c]
           /\ Goto(w, AfterPolicy(c))
           /\ UNCHANGED <<delivery, result>>
  <2>1. StoreStepOK
    BY <1>1, <1>5, SaveStoreType
  <2>2. AfterPolicy(c) \in WorkerPC /\ AfterPolicy(c) # "approval"
    BY DEF AfterPolicy, WorkerPC, RuntimePC
  <2>3. LocalStepOK
    BY <1>1, <1>5, <2>2, SavedType
    DEF Busy, LocalTypeOK, LocalStepOK, NothingClaimed, Goto, CallChosen
  <2> QED
    BY <2>1, <2>3
<1> QED
  BY <1>3, <1>4, <1>5 DEF DecideTool, requested, stopped

LEMMA KeyType ==
  ASSUME NEW w \in Workers, Busy(w), call[w] \in Calls
  PROVE  CurrentKey(w) \in Key
  BY HeldTypes DEF CurrentKey, action_id, Key

LEMMA ProcessStepType ==
  ASSUME NEW w \in Workers, Busy(w), ProcessStep(w)
  PROVE  StoreStepOK /\ LocalStepOK
<1>1. ASSUME Load(w) PROVE StoreStepOK /\ LocalStepOK
  BY <1>1, LoadType
<1>2. ASSUME SaveRunning(w) PROVE StoreStepOK /\ LocalStepOK
  <2>1. [state[w] EXCEPT !.status = "RUNNING"] \in Checkpoint
    BY HeldTypes, StatusType DEF WorkflowStatus
  <2>2. "decide" \in WorkerPC /\ "decide" \notin CallPC
    BY DEF WorkerPC, RuntimePC, CallPC
  <2> QED
    BY <1>2, <2>1, <2>2, SaveAndGotoType DEF SaveRunning
<1>3. ASSUME \/ ModelFailsRetryably(w)
             \/ DecideFail(w)
             \/ PolicyDenied(w)
             \/ BackendFailsRetryably(w)
             \/ BackendTimesOut(w)
             \/ BackendFailsPermanently(w)
      PROVE  StoreStepOK /\ LocalStepOK
  BY <1>3, FailType
  DEF ModelFailsRetryably, DecideFail, PolicyDenied, BackendFailsRetryably, BackendTimesOut,
      BackendFailsPermanently
<1>4. ASSUME ModelFailsPermanently(w) PROVE StoreStepOK /\ LocalStepOK
  BY <1>4, LeaveProcessType, StoreUnchanged 
  DEF ModelFailsPermanently, Busy, AfterPC, WorkerPC, RuntimePC
<1>5. ASSUME DecideComplete(w) PROVE StoreStepOK /\ LocalStepOK
  <2>1. [state[w] EXCEPT !.status = "COMPLETED"] \in Checkpoint
    BY HeldTypes, StatusType DEF WorkflowStatus
  <2> QED
    BY <1>5, <2>1, SaveAndReturnType DEF DecideComplete
<1>6. ASSUME NEW c \in Calls, DecideTool(w, c) PROVE StoreStepOK /\ LocalStepOK
  BY <1>6, DecideToolType
<1>7. ASSUME SaveWaiting(w) PROVE StoreStepOK /\ LocalStepOK
  <2>1. [state[w] EXCEPT !.status = "WAITING_FOR_APPROVAL",
                         !.pending_action = call[w]] \in Checkpoint
    BY HeldTypes, PendingType DEF WorkflowStatus
  <2>2. "create_approval" \in WorkerPC /\ call[w] \in Calls
    BY <1>7
    DEF SaveWaiting, Busy, LocalTypeOK, CallChosen, CallPC, WorkerPC, RuntimePC
  <2> QED
    BY <1>7, <2>1, <2>2, SaveAndGotoType DEF SaveWaiting
<1>8. ASSUME CreateApproval(w) PROVE StoreStepOK /\ LocalStepOK
  <2>1. StoreStepOK
    BY <1>8, ApprovalType DEF CreateApproval, Busy, StoreStepOK, ApprovalStatus
  <2> QED
    BY <1>8, <2>1, HeldTypes, ReturnType DEF CreateApproval
<1>9. ASSUME ResumeApprovedAction(w) PROVE StoreStepOK /\ LocalStepOK
  <2>1. StoreStepOK
    BY <1>9, StoreUnchanged DEF ResumeApprovedAction, Busy
  <2>2. CASE Return(w, [state[w] EXCEPT !.status = "WAITING_FOR_APPROVAL"])
    <3>1. [state[w] EXCEPT !.status = "WAITING_FOR_APPROVAL"] \in Checkpoint
      BY HeldTypes, StatusType DEF WorkflowStatus
    <3> QED
      BY <2>1, <2>2, <3>1, ReturnType
  <2>3. CASE /\ Goto(w, "execute")
             /\ call' = [call EXCEPT ![w] = state[w].pending_action]
             /\ UNCHANGED <<delivery, state, result>>
    <3>1. state[w].pending_action \in Calls
      BY <1>9 DEF ResumeApprovedAction, Busy, LocalTypeOK, CallChosen
    <3>2. LocalStepOK
      BY <2>3, <3>1
      DEF Busy, LocalTypeOK, LocalStepOK, NothingClaimed, Goto, CallChosen, WorkerPC, RuntimePC
    <3> QED
      BY <2>1, <3>2
  <2> QED
    BY <1>9, <2>2, <2>3 DEF ResumeApprovedAction
<1>10. ASSUME LookupResult(w) PROVE StoreStepOK /\ LocalStepOK
  <2>1. AfterLookup(w) \in WorkerPC /\ AfterLookup(w) # "approval"
    BY DEF AfterLookup, WorkerPC, RuntimePC
  <2>2. call[w] \in Calls
    BY <1>10 DEF LookupResult, Busy, LocalTypeOK, CallChosen, CallPC
  <2>3. tool_results[CurrentKey(w)] \in Results \cup {NoResult}
    BY <2>2, KeyType DEF Busy, StoreTypeOK
  <2>4. LocalStepOK
    BY <1>10, <2>1, <2>2, <2>3
    DEF LookupResult, Busy, LocalTypeOK, LocalStepOK, NothingClaimed, Goto, CallChosen
  <2> QED
    BY <1>10, <2>4, StoreUnchanged DEF LookupResult, Busy
<1>11. ASSUME NEW r \in Results, BackendSucceeds(w, r) PROVE StoreStepOK /\ LocalStepOK
  <2>1. call[w] \in Calls
    BY <1>11 DEF BackendSucceeds, Busy, LocalTypeOK, CallChosen, CallPC
  <2>2. LocalStepOK
    BY <1>11, <2>1
    DEF BackendSucceeds, Busy, LocalTypeOK, LocalStepOK, NothingClaimed, Goto, CallChosen,
        WorkerPC, RuntimePC
  <2> QED
    BY <1>11, <2>2, StoreUnchanged DEF BackendSucceeds, Busy
<1>12. ASSUME SaveToolResult(w) PROVE StoreStepOK /\ LocalStepOK
  <2>1. StoreStepOK
    BY <1>12, HeldTypes, LedgerType DEF SaveToolResult, Busy, StoreStepOK
  <2>2. call[w] \in Calls
    BY <1>12 DEF SaveToolResult, Busy, LocalTypeOK, CallChosen, CallPC
  <2>3. LocalStepOK
    BY <1>12, <2>2
    DEF SaveToolResult, localVars, Busy, LocalTypeOK, LocalStepOK, NothingClaimed, Goto,
        CallChosen, WorkerPC, RuntimePC
  <2> QED
    BY <2>1, <2>3
<1>13. ASSUME RecordResult(w) PROVE StoreStepOK /\ LocalStepOK
  BY <1>13, HeldTypes, CompletedType, SaveAndReturnType DEF RecordResult
<1> QED
  BY <1>1, <1>2, <1>3, <1>4, <1>5, <1>6, <1>7, <1>8, <1>9, <1>10, <1>11, <1>12, <1>13
  DEF ProcessStep

-----------------------------------------------------------------------------
(* The steps of run_once around process(), the heartbeat and the clock *)

LEMMA ReloadType ==
  ASSUME NEW w \in Workers, Busy(w), NEW pc \in AfterPC, Reload(w, pc)
  PROVE  StoreStepOK /\ LocalStepOK
<1>1. StoreStepOK
  BY StoreUnchanged DEF Reload, Busy
<1>2. CASE Finish(w)
  BY <1>1, <1>2, FinishType DEF Busy
<1>3. CASE /\ state' = [state EXCEPT ![w] = workflows[Task(w)]]
           /\ Goto(w, pc)
           /\ UNCHANGED <<delivery, call, result>>
  <2>1. pc \in WorkerPC /\ pc \notin CallPC /\ pc # "approval"
    BY DEF AfterPC, CallPC, RuntimePC
  <2>2. LocalStepOK
    BY <1>3, <2>1, HeldTypes
    DEF Busy, LocalTypeOK, LocalStepOK, NothingClaimed, Goto, CallChosen
  <2> QED
    BY <1>1, <2>2
<1> QED
  BY <1>2, <1>3 DEF Reload

LEMMA SaveFinalType ==
  ASSUME NEW w \in Workers, Busy(w), NEW status \in WorkflowStatus, SaveFinal(w, status)
  PROVE  StoreStepOK /\ LocalStepOK
<1> DEFINE new == [state[w] EXCEPT !.status = status]
<1>1. new \in Checkpoint
  BY HeldTypes, StatusType
<1> HIDE DEF new
<1>2. StoreStepOK
  BY <1>1, SaveStoreType, StoreUnchanged DEF SaveFinal, new, Busy
<1>3. LocalStepOK
  BY FinishType DEF SaveFinal, Busy
<1> QED
  BY <1>2, <1>3

\* The steps in which run_once tells the queue or the workflow how it went.
ReportStep(w) ==
    \/ Acknowledge(w)
    \/ Enqueue(w)
    \/ RetryOrDeadLetter(w)
    \/ DeadLoad(w)
    \/ DeadSave(w)
    \/ PermanentAcknowledge(w)
    \/ PermanentLoad(w)
    \/ PermanentSave(w)

LEMMA ReportStepType ==
  ASSUME NEW w \in Workers, Busy(w), delivery[w].id \in DOMAIN queue, ReportStep(w)
  PROVE  StoreStepOK /\ LocalStepOK
<1> USE DEF StoreStepOK
<1>1. {"enqueue", "dead", "dead_save", "perm_load", "perm_save"} \subseteq AfterPC
  BY DEF AfterPC, WorkerPC, RuntimePC
<1>2. ASSUME Acknowledge(w) PROVE StoreStepOK /\ LocalStepOK
  <2>1. StoreStepOK
    BY <1>2, AcknowledgeType DEF Acknowledge, Busy
  <2> QED
    BY <1>1, <1>2, <2>1, LeaveProcessType, FinishType DEF Acknowledge, Busy
<1>3. ASSUME Enqueue(w) PROVE StoreStepOK /\ LocalStepOK
  BY <1>3, HeldTypes, EnqueueType, FinishType DEF Enqueue, Busy
<1>4. ASSUME RetryOrDeadLetter(w) PROVE StoreStepOK /\ LocalStepOK
  <2>1. StoreStepOK
    BY <1>4, HeldTypes, RetryType DEF RetryOrDeadLetter, Busy
  <2> QED
    BY <1>1, <1>4, <2>1, LeaveProcessType, FinishType DEF RetryOrDeadLetter, Busy
<1>5. ASSUME DeadLoad(w) \/ PermanentLoad(w) PROVE StoreStepOK /\ LocalStepOK
  BY <1>1, <1>5, ReloadType DEF DeadLoad, PermanentLoad
<1>6. ASSUME DeadSave(w) \/ PermanentSave(w) PROVE StoreStepOK /\ LocalStepOK
  BY <1>6, SaveFinalType DEF DeadSave, PermanentSave, WorkflowStatus
<1>7. ASSUME PermanentAcknowledge(w) PROVE StoreStepOK /\ LocalStepOK
  <2>1. StoreStepOK
    BY <1>7, AcknowledgeType DEF PermanentAcknowledge, Busy
  <2>2. "perm_load" \in WorkerPC /\ "perm_load" \notin CallPC
    BY DEF WorkerPC, CallPC
  <2>3. LocalStepOK
    BY <1>7, <2>2
    DEF PermanentAcknowledge, localVars, Busy, LocalTypeOK, LocalStepOK, NothingClaimed, Goto,
        CallChosen
  <2> QED
    BY <2>1, <2>3
<1> QED
  BY <1>2, <1>3, <1>4, <1>5, <1>6, <1>7 DEF ReportStep

LEMMA ClaimStepType ==
  ASSUME StoreTypeOK, LocalTypeOK, NEW w \in Workers, NEW i \in DOMAIN queue, Claim(w, i)
  PROVE  /\ StoreStepOK
         /\ LocalTypeOK'
         /\ delivery'[w].id = i
         /\ \A v \in Workers : v # w => delivery'[v] = delivery[v] /\ wpc'[v] = wpc[v]
<1> DEFINE new == [id |-> i, task_id |-> queue[i].task_id, attempts |-> queue[i].attempts + 1]
<1>1. StoreStepOK
  BY ClaimType DEF Claim, StoreStepOK
<1>2. new \in Delivery /\ new.id = i
  <2>1. queue[i] \in QueueRow /\ i \in Nat
    BY RowType, LenProperties, SMT DEF StoreTypeOK
  <2>2. queue[i].attempts + 1 \in Nat /\ queue[i].task_id \in Tasks
    BY <2>1, SMT DEF QueueRow
  <2> QED
    BY <2>1, <2>2 DEF Delivery
<1>3. delivery' = [delivery EXCEPT ![w] = new]
  BY DEF Claim
<1> HIDE DEF new
<1>4. "load" \in WorkerPC /\ "load" \notin CallPC
  BY DEF WorkerPC, RuntimePC, CallPC
<1> QED
  BY <1>1, <1>2, <1>3, <1>4 DEF Claim, LocalTypeOK, Goto, CallChosen

LEMMA LeaseExpiresType ==
  ASSUME StoreTypeOK, NEW i \in DOMAIN queue, LeaseExpires(i)
  PROVE  StoreStepOK
<1> DEFINE row == [queue[i] EXCEPT !.expired = TRUE]
<1>1. row \in QueueRow /\ row.task_id = queue[i].task_id
  BY RowType DEF QueueRow
<1>2. queue' = [queue EXCEPT ![i] = row]
  BY DEF LeaseExpires
<1> QED
  BY <1>1, <1>2, UpdateRow DEF LeaseExpires, StoreTypeOK, StoreStepOK

-----------------------------------------------------------------------------
(* The steps of the API *)

LEMMA RespondType ==
  ASSUME ControlTypeOK, NEW h \in Handlers, Respond(h)
  PROVE  ControlTypeOK'
  BY SomeTaskType, NewWorkflowType DEF ControlTypeOK, Respond, HandlerPC

LEMMA HGotoType ==
  ASSUME ControlTypeOK, NEW h \in Handlers, NEW pc \in HandlerPC, HGoto(h, pc)
  PROVE  ControlTypeOK'
  BY DEF ControlTypeOK, HGoto

LEMMA OpenType ==
  ASSUME StoreTypeOK, ControlTypeOK, NEW h \in Handlers, NEW task \in Tasks,
         NEW pc \in HandlerPC, Open(h, task, pc)
  PROVE  StoreStepOK /\ ControlTypeOK'
<1>1. StoreStepOK
  BY StoreUnchanged DEF Open
<1>2. workflows[task] \in Checkpoint
  BY DEF StoreTypeOK
<1>3. ControlTypeOK'
  BY <1>2 DEF Open, ControlTypeOK
<1> QED
  BY <1>1, <1>3

LEMMA HandlerTypes ==
  ASSUME ControlTypeOK, NEW h \in Handlers
  PROVE  htask[h] \in Tasks /\ hstate[h] \in Checkpoint
  BY DEF ControlTypeOK

LEMMA ResolveType ==
  ASSUME StoreTypeOK, ControlTypeOK, NEW h \in Handlers, NEW pc \in HandlerPC,
         NEW resolution \in ApprovalStatus, Resolve(h, resolution, pc)
  PROVE  StoreStepOK /\ ControlTypeOK'
  BY ApprovalType, StoreUnchanged, HGotoType, RespondType DEF Resolve, StoreStepOK

LEMMA HandlerStepType ==
  ASSUME StoreTypeOK, ControlTypeOK, NEW h \in Handlers, HandlerStep(h)
  PROVE  StoreStepOK /\ ControlTypeOK'
<1> USE DEF StoreStepOK
<1>1. /\ {"approve_resolve", "approve_save", "approve_enqueue", "reject_save"} \subseteq HandlerPC
      /\ {"APPROVED", "REJECTED"} \subseteq ApprovalStatus
  BY DEF HandlerPC, ApprovalStatus
<1>2. ASSUME ApproveResolve(h) \/ RejectResolve(h) PROVE StoreStepOK /\ ControlTypeOK'
  BY <1>1, <1>2, ResolveType DEF ApproveResolve, RejectResolve
<1>3. ASSUME StaleRequest(h) PROVE StoreStepOK /\ ControlTypeOK'
  BY <1>3, StoreUnchanged, RespondType DEF StaleRequest
<1>4. ASSUME ApproveSave(h) PROVE StoreStepOK /\ ControlTypeOK'
  <2>1. [hstate[h] EXCEPT !.status = "QUEUED"] \in Checkpoint
    BY HandlerTypes, StatusType DEF WorkflowStatus
  <2> QED
    BY <1>1, <1>3, <1>4, <2>1, HandlerTypes, SaveWorkflowType, HGotoType DEF ApproveSave
<1>5. ASSUME ApproveEnqueue(h) PROVE StoreStepOK /\ ControlTypeOK'
  BY <1>5, HandlerTypes, EnqueueType, RespondType DEF ApproveEnqueue
<1>6. ASSUME RejectSave(h) PROVE StoreStepOK /\ ControlTypeOK'
  <2>1. [hstate[h] EXCEPT !.status = "HUMAN_REJECTED", !.pending_action = NoCall] \in Checkpoint
    BY HandlerTypes, PendingType DEF WorkflowStatus
  <2> QED
    BY <1>3, <1>6, <2>1, HandlerTypes, SaveWorkflowType, RespondType DEF RejectSave
<1> QED
  BY <1>2, <1>4, <1>5, <1>6 DEF HandlerStep

LEMMA ControlStepType ==
  ASSUME StoreTypeOK, ControlTypeOK, ControlStep
  PROVE  StoreStepOK /\ ControlTypeOK'
<1>1. ASSUME NEW task \in Tasks, CreateIncident(task) PROVE StoreStepOK /\ ControlTypeOK'
  BY <1>1, CreateWorkflowType DEF CreateIncident, handlerVars, ControlTypeOK, StoreStepOK
<1>2. ASSUME NEW h \in Handlers, NEW task \in Tasks, Approve(h, task) \/ Reject(h, task)
      PROVE  StoreStepOK /\ ControlTypeOK'
  BY <1>2, OpenType DEF Approve, Reject, HandlerPC
<1>3. ASSUME NEW id \in DOMAIN queue, ReplayDeadLetter(id) PROVE StoreStepOK /\ ControlTypeOK'
  <2>1. StoreStepOK
    BY <1>3, ReplayType DEF ReplayDeadLetter, StoreStepOK
  <2>2. replays' \in Nat
    BY <1>3, SMT DEF ReplayDeadLetter, ControlTypeOK
  <2> QED
    BY <1>3, <2>1, <2>2 DEF ReplayDeadLetter, ControlTypeOK
<1> QED
  BY <1>1, <1>2, <1>3, HandlerStepType DEF ControlStep

-----------------------------------------------------------------------------
(* What the workers leave alone *)

\* A step of w touches the local state of no other worker.
OthersKeep(w) ==
    \A v \in Workers \ {w} :
        /\ wpc'[v] = wpc[v]
        /\ delivery'[v] = delivery[v]
        /\ state'[v] = state[v]
        /\ call'[v] = call[v]
        /\ result'[v] = result[v]

LEMMA RunOnceOthersKeep ==
  ASSUME LocalTypeOK, NEW w \in Workers, RunOnceStep(w)
  PROVE  OthersKeep(w)
<1> USE DEF LocalTypeOK, OthersKeep, Goto
<1>1. ASSUME NEW i, Claim(w, i) PROVE OthersKeep(w)
  BY <1>1 DEF Claim
<1>2. ASSUME NEW pc, LeaveProcess(w, pc) PROVE OthersKeep(w)
  BY <1>2 DEF LeaveProcess
<1>3. ASSUME NEW new, Return(w, new) PROVE OthersKeep(w)
  BY <1>3 DEF Return
<1>4. ASSUME Finish(w) PROVE OthersKeep(w)
  BY <1>4 DEF Finish
<1>5. ASSUME NEW new, StaleSave(w, new) PROVE OthersKeep(w)
  BY <1>2, <1>5 DEF StaleSave
<1>6. ASSUME NEW new, NEW pc, SaveAndGoto(w, new, pc) PROVE OthersKeep(w)
  BY <1>5, <1>6 DEF SaveAndGoto
<1>7. ASSUME NEW new, SaveAndReturn(w, new) PROVE OthersKeep(w)
  BY <1>3, <1>5, <1>7 DEF SaveAndReturn
<1>8. ASSUME NEW new, SaveAndRaise(w, new) PROVE OthersKeep(w)
  BY <1>2, <1>5, <1>8 DEF SaveAndRaise
<1>9. ASSUME NEW pc, Reload(w, pc) PROVE OthersKeep(w)
  BY <1>4, <1>9 DEF Reload
<1>10. ASSUME NEW c \in Calls, DecideTool(w, c) PROVE OthersKeep(w)
  BY <1>5, <1>7, <1>10 DEF DecideTool
<1>11. ASSUME ProcessStep(w) PROVE OthersKeep(w)
  <2>1. CASE Load(w)
    BY <1>3, <2>1 DEF Load
  <2>2. CASE ResumeApprovedAction(w)
    BY <1>3, <2>2 DEF ResumeApprovedAction
  <2>3. CASE LookupResult(w)
    BY <2>3 DEF LookupResult
  <2>4. CASE \E r \in Results : BackendSucceeds(w, r)
    BY <2>4 DEF BackendSucceeds
  <2>5. CASE SaveToolResult(w)
    BY <2>5 DEF SaveToolResult, localVars
  <2>6. CASE \/ SaveRunning(w) \/ ModelFailsRetryably(w) \/ ModelFailsPermanently(w)
             \/ DecideComplete(w) \/ DecideFail(w) \/ PolicyDenied(w) \/ SaveWaiting(w)
             \/ CreateApproval(w) \/ BackendFailsRetryably(w) \/ BackendTimesOut(w)
             \/ BackendFailsPermanently(w) \/ RecordResult(w)
    BY <1>2, <1>3, <1>6, <1>7, <1>8, <2>6
    DEF SaveRunning, ModelFailsRetryably, ModelFailsPermanently, DecideComplete, DecideFail,
        PolicyDenied, SaveWaiting, CreateApproval, BackendFailsRetryably, BackendTimesOut,
        BackendFailsPermanently, RecordResult, Fail, FailRetryably
  <2> QED
    BY <1>10, <1>11, <2>1, <2>2, <2>3, <2>4, <2>5, <2>6 DEF ProcessStep
<1>12. ASSUME ReportStep(w) PROVE OthersKeep(w)
  <2>1. CASE PermanentAcknowledge(w)
    BY <2>1 DEF PermanentAcknowledge, localVars
  <2> QED
    BY <1>2, <1>4, <1>9, <1>12, <2>1
    DEF ReportStep, Acknowledge, Enqueue, RetryOrDeadLetter, DeadLoad, DeadSave,
        PermanentLoad, PermanentSave, SaveFinal
<1> QED
  BY <1>1, <1>11, <1>12 DEF RunOnceStep, ReportStep

-----------------------------------------------------------------------------
(* Type correctness *)

HoldsRow == \A w \in Workers : wpc[w] # "idle" => delivery[w].id \in DOMAIN queue

BudgetsTypeOK == crashes \in Nat /\ stalls \in Nat

LEMMA TypeParts ==
  TypeOK <=> /\ StoreTypeOK /\ LocalTypeOK /\ EffectsTypeOK /\ BudgetsTypeOK
             /\ ControlTypeOK /\ HoldsRow
  BY DEF TypeOK, WorkerTypeOK, RuntimeTypeOK, LocalTypeOK, EffectsTypeOK, BudgetsTypeOK,
         HoldsRow

LEMMA TypePartsNext ==
  ASSUME StoreTypeOK', LocalTypeOK', EffectsTypeOK', BudgetsTypeOK', ControlTypeOK', HoldsRow'
  PROVE  TypeOK'
  BY DEF TypeOK, WorkerTypeOK, RuntimeTypeOK, LocalTypeOK, EffectsTypeOK, BudgetsTypeOK,
         HoldsRow

\* A step in which nobody gets a delivery keeps every holder on a row.
LEMMA HoldsRowKept ==
  ASSUME HoldsRow, RowsKept, NothingClaimed
  PROVE  HoldsRow'
  BY DEF HoldsRow, RowsKept, NothingClaimed

LEMMA RunOnceStepType ==
  ASSUME TypeOK, NEW w \in Workers, RunOnceStep(w)
  PROVE  StoreTypeOK' /\ LocalTypeOK' /\ EffectsTypeOK' /\ BudgetsTypeOK' /\ HoldsRow'
<1>1. /\ StoreTypeOK /\ LocalTypeOK /\ EffectsTypeOK /\ BudgetsTypeOK
      /\ ControlTypeOK /\ HoldsRow
  BY TypeParts
<1>2. CASE \E i \in DOMAIN queue : Claim(w, i)
  <2>1. PICK i \in DOMAIN queue : Claim(w, i)
    BY <1>2
  <2>2. /\ StoreStepOK
        /\ LocalTypeOK'
        /\ delivery'[w].id = i
        /\ \A v \in Workers : v # w => delivery'[v] = delivery[v] /\ wpc'[v] = wpc[v]
    BY <1>1, <2>1, ClaimStepType
  <2>3. HoldsRow'
    BY <1>1, <2>2 DEF HoldsRow, StoreStepOK, RowsKept
  <2>4. EffectsTypeOK' /\ BudgetsTypeOK'
    BY <1>1, <2>1 DEF Claim, Budgets, EffectsTypeOK, BudgetsTypeOK
  <2> QED
    BY <2>2, <2>3, <2>4 DEF StoreStepOK
<1>3. CASE ProcessStep(w) /\ UNCHANGED <<crashes, stalls>>
  <2>1. Busy(w)
    BY <1>1, <1>3
    DEF Busy, ProcessStep, Load, SaveRunning, ModelFailsRetryably, ModelFailsPermanently,
        DecideComplete, DecideFail, DecideTool, PolicyDenied, SaveWaiting, CreateApproval,
        ResumeApprovedAction, LookupResult, BackendSucceeds, BackendFailsRetryably,
        BackendTimesOut, BackendFailsPermanently, SaveToolResult, RecordResult
  <2>2. StoreStepOK /\ LocalStepOK
    BY <1>3, <2>1, ProcessStepType
  <2>3. EffectsTypeOK'
    BY <1>1, <1>3, EffectsStepType
  <2>4. HoldsRow'
    BY <1>1, <2>2, HoldsRowKept DEF StoreStepOK, LocalStepOK
  <2> QED
    BY <1>1, <1>3, <2>2, <2>3, <2>4 DEF StoreStepOK, LocalStepOK, BudgetsTypeOK
<1>4. CASE ReportStep(w)
  <2>1. Busy(w) /\ delivery[w].id \in DOMAIN queue
    BY <1>1, <1>4
    DEF Busy, HoldsRow, ReportStep, Acknowledge, Enqueue, RetryOrDeadLetter, DeadLoad,
        DeadSave, PermanentAcknowledge, PermanentLoad, PermanentSave
  <2>2. StoreStepOK /\ LocalStepOK
    BY <1>4, <2>1, ReportStepType
  <2>3. UNCHANGED Budgets
    BY <1>4
    DEF ReportStep, Acknowledge, Enqueue, RetryOrDeadLetter, DeadLoad, Reload,
        DeadSave, PermanentAcknowledge, PermanentLoad, PermanentSave, SaveFinal
  <2>4. HoldsRow'
    BY <1>1, <2>2, HoldsRowKept DEF StoreStepOK, LocalStepOK
  <2> QED
    BY <1>1, <2>2, <2>3, <2>4
    DEF StoreStepOK, LocalStepOK, Budgets, EffectsTypeOK, BudgetsTypeOK
<1> QED
  BY <1>2, <1>3, <1>4 DEF RunOnceStep, ReportStep

LEMMA WorkerNextType ==
  ASSUME TypeOK, WorkerNext
  PROVE  StoreTypeOK' /\ LocalTypeOK' /\ EffectsTypeOK' /\ BudgetsTypeOK' /\ HoldsRow'
<1>1. /\ StoreTypeOK /\ LocalTypeOK /\ EffectsTypeOK /\ BudgetsTypeOK
      /\ ControlTypeOK /\ HoldsRow
  BY TypeParts
<1>2. ASSUME NEW w \in Workers, Heartbeat(w)
      PROVE  StoreTypeOK' /\ LocalTypeOK' /\ EffectsTypeOK' /\ BudgetsTypeOK' /\ HoldsRow'
  <2>1. wpc[w] # "idle"
    BY <1>2 DEF Heartbeat, Suspended
  <2>2. StoreTypeOK' /\ RowsKept
    BY <1>1, <1>2, <2>1, ExtendLeaseType DEF Heartbeat, HoldsRow
  <2>3. LocalStepOK
    BY <1>1, <1>2, LocalUnchanged DEF Heartbeat, workerVars, runtimeVars
  <2>4. HoldsRow'
    BY <1>1, <2>2, <2>3, HoldsRowKept DEF LocalStepOK
  <2> QED
    BY <1>1, <1>2, <2>2, <2>3, <2>4
    DEF Heartbeat, workerVars, runtimeVars, LocalStepOK, EffectsTypeOK, BudgetsTypeOK
<1>3. ASSUME NEW w \in Workers, WorkerCrash(w)
      PROVE  StoreTypeOK' /\ LocalTypeOK' /\ EffectsTypeOK' /\ BudgetsTypeOK' /\ HoldsRow'
  <2>1. StoreStepOK /\ LocalStepOK
    BY <1>1, <1>3, StoreUnchanged, FinishType DEF WorkerCrash
  <2>2. crashes' \in Nat
    BY <1>1, <1>3, SMT DEF WorkerCrash, BudgetsTypeOK
  <2>3. HoldsRow'
    BY <1>1, <2>1, HoldsRowKept DEF StoreStepOK, LocalStepOK
  <2> QED
    BY <1>1, <1>3, <2>1, <2>2, <2>3
    DEF WorkerCrash, StoreStepOK, LocalStepOK, EffectsTypeOK, BudgetsTypeOK
<1>4. ASSUME NEW i \in DOMAIN queue, LeaseExpires(i)
      PROVE  StoreTypeOK' /\ LocalTypeOK' /\ EffectsTypeOK' /\ BudgetsTypeOK' /\ HoldsRow'
  <2>1. StoreStepOK
    BY <1>1, <1>4, LeaseExpiresType
  <2>2. LocalStepOK
    BY <1>1, <1>4, LocalUnchanged DEF LeaseExpires, runtimeVars
  <2>3. stalls' \in Nat
    BY <1>1, <1>4, SMT DEF LeaseExpires, BudgetsTypeOK
  <2>4. HoldsRow'
    BY <1>1, <2>1, <2>2, HoldsRowKept DEF StoreStepOK, LocalStepOK
  <2> QED
    BY <1>1, <1>4, <2>1, <2>2, <2>3, <2>4
    DEF LeaseExpires, runtimeVars, StoreStepOK, LocalStepOK, EffectsTypeOK, BudgetsTypeOK
<1> QED
  BY <1>2, <1>3, <1>4, RunOnceStepType DEF WorkerNext

LEMMA NextType ==
  ASSUME TypeOK, [Next]_vars
  PROVE  TypeOK'
<1>1. /\ StoreTypeOK /\ LocalTypeOK /\ EffectsTypeOK /\ BudgetsTypeOK
      /\ ControlTypeOK /\ HoldsRow
  BY TypeParts
<1>2. CASE WorkerNext /\ UNCHANGED handlerVars
  BY <1>1, <1>2, WorkerNextType, TypePartsNext DEF handlerVars, ControlTypeOK
<1>3. CASE ControlStep /\ UNCHANGED workerVars
  <2>1. StoreStepOK /\ ControlTypeOK'
    BY <1>1, <1>3, ControlStepType
  <2>2. LocalStepOK
    BY <1>1, <1>3, LocalUnchanged DEF workerVars, runtimeVars
  <2>3. EffectsTypeOK' /\ BudgetsTypeOK'
    BY <1>1, <1>3 DEF workerVars, runtimeVars, EffectsTypeOK, BudgetsTypeOK
  <2>4. HoldsRow'
    BY <1>1, <2>1, <2>2, HoldsRowKept DEF StoreStepOK, LocalStepOK
  <2> QED
    BY <2>1, <2>2, <2>3, <2>4, TypePartsNext DEF StoreStepOK, LocalStepOK
<1>4. ASSUME NEW h \in Handlers, HandlerCrash(h) PROVE TypeOK'
  <2>1. StoreStepOK /\ LocalStepOK
    BY <1>1, <1>4, StoreUnchanged, LocalUnchanged DEF HandlerCrash, runtimeVars
  <2>2. crashes' \in Nat
    BY <1>1, <1>4, SMT DEF HandlerCrash, BudgetsTypeOK
  <2>3. EffectsTypeOK' /\ BudgetsTypeOK'
    BY <1>1, <1>4, <2>2 DEF HandlerCrash, runtimeVars, EffectsTypeOK, BudgetsTypeOK
  <2>4. ControlTypeOK'
    BY <1>1, <1>4, RespondType DEF HandlerCrash
  <2>5. HoldsRow'
    BY <1>1, <2>1, HoldsRowKept DEF StoreStepOK, LocalStepOK
  <2> QED
    BY <2>1, <2>3, <2>4, <2>5, TypePartsNext DEF StoreStepOK, LocalStepOK
<1>5. CASE UNCHANGED vars
  <2>1. StoreStepOK /\ LocalStepOK
    BY <1>1, <1>5, StoreUnchanged, LocalUnchanged DEF vars, workerVars, runtimeVars
  <2>2. EffectsTypeOK' /\ BudgetsTypeOK' /\ ControlTypeOK'
    BY <1>1, <1>5
    DEF vars, workerVars, runtimeVars, handlerVars, EffectsTypeOK, BudgetsTypeOK, ControlTypeOK
  <2>3. HoldsRow'
    BY <1>1, <2>1, HoldsRowKept DEF StoreStepOK, LocalStepOK
  <2> QED
    BY <2>1, <2>2, <2>3, TypePartsNext DEF StoreStepOK, LocalStepOK
<1> QED
  BY <1>2, <1>3, <1>4, <1>5 DEF Next

\* Every variable keeps its type; in particular a worker that reports on a delivery
\* names a row that exists, and one that executes a call has one to execute.
THEOREM TypeCorrect == Spec => []TypeOK
<1>1. Init => TypeOK
  BY InitType
<1>2. TypeOK /\ [Next]_vars => TypeOK'
  BY NextType
<1> QED
  BY <1>1, <1>2, PTL DEF Spec

-----------------------------------------------------------------------------
(* No call runs against the policy *)

Gated(w) ==
    /\ wpc[w] \in {"execute", "backend"} /\ ApprovalRequired(call[w])
            => approvals[CurrentKey(w)] = "APPROVED"
    /\ wpc[w] = "backend" => Allowed(call[w])

GateInv == PolicyGate /\ \A w \in Workers : Gated(w)

-----------------------------------------------------------------------------
(* What a step leaves alone *)

\* An approval is asked for once and resolved once, and then stays as it is.
ApprovalsForward ==
    \A key \in Key :
        \/ approvals'[key] = approvals[key]
        \/ approvals[key] = "NONE" /\ approvals'[key] = "PENDING"
        \/ approvals[key] = "PENDING" /\ approvals'[key] \in {"APPROVED", "REJECTED"}

\* Only two of the store's operations touch the approvals.
LEMMA ApprovalOps ==
  ASSUME StoreTypeOK, NEW key, NEW resolution \in {"APPROVED", "REJECTED"},
         create_approval(key) \/ resolve_approval(key, resolution)
  PROVE  ApprovalsForward
  BY DEF StoreTypeOK, create_approval, resolve_approval, ApprovalsForward

LEMMA ProcessApprovals ==
  ASSUME StoreTypeOK, NEW w \in Workers, ProcessStep(w)
  PROVE  ApprovalsForward
<1>1. CASE UNCHANGED approvals
  BY <1>1 DEF ApprovalsForward
<1>2. CASE CreateApproval(w)
  BY <1>2, ApprovalOps DEF CreateApproval
<1>3. ASSUME NEW new, SaveAndReturn(w, new) \/ SaveAndRaise(w, new) \/ StaleSave(w, new)
      PROVE  UNCHANGED approvals
  BY <1>3 DEF SaveAndReturn, SaveAndRaise, StaleSave, save_workflow, storeVars
<1>4. ASSUME NEW new, NEW pc, SaveAndGoto(w, new, pc) PROVE UNCHANGED approvals
  BY <1>3, <1>4 DEF SaveAndGoto, save_workflow
<1>5. ASSUME NEW c \in Calls, DecideTool(w, c) PROVE UNCHANGED approvals
  BY <1>3, <1>5 DEF DecideTool, save_workflow
<1>6. CASE \/ Load(w) \/ SaveRunning(w) \/ ModelFailsRetryably(w) \/ ModelFailsPermanently(w)
           \/ DecideComplete(w) \/ DecideFail(w) \/ PolicyDenied(w) \/ SaveWaiting(w)
           \/ ResumeApprovedAction(w) \/ LookupResult(w)
           \/ (\E r \in Results : BackendSucceeds(w, r))
           \/ BackendFailsRetryably(w) \/ BackendTimesOut(w) \/ BackendFailsPermanently(w)
           \/ SaveToolResult(w) \/ RecordResult(w)
  BY <1>1, <1>3, <1>4, <1>6
  DEF Load, SaveRunning, ModelFailsRetryably, ModelFailsPermanently, DecideComplete,
      DecideFail, PolicyDenied, SaveWaiting, ResumeApprovedAction, LookupResult,
      BackendSucceeds, BackendFailsRetryably, BackendTimesOut, BackendFailsPermanently,
      SaveToolResult, RecordResult, Fail, FailRetryably, save_tool_result, storeVars
<1> QED
  BY <1>1, <1>2, <1>5, <1>6 DEF ProcessStep

LEMMA ApprovalsForwardNext ==
  ASSUME TypeOK, [Next]_vars
  PROVE  ApprovalsForward
<1>1. StoreTypeOK /\ ControlTypeOK
  BY TypeParts
<1>2. CASE UNCHANGED approvals
  BY <1>2 DEF ApprovalsForward
<1>3. ASSUME NEW w \in Workers, RunOnceStep(w) PROVE ApprovalsForward
  <2>1. CASE \E i \in DOMAIN queue : Claim(w, i)
    BY <1>2, <2>1 DEF Claim, claim
  <2>2. CASE ReportStep(w)
    BY <1>2, <2>2
    DEF ReportStep, Acknowledge, Enqueue, RetryOrDeadLetter, DeadLoad, DeadSave,
        PermanentAcknowledge, PermanentLoad, PermanentSave, Reload, SaveFinal, storeVars,
        acknowledge, enqueue, retry_or_dead_letter, save_workflow
  <2> QED
    BY <1>1, <1>3, <2>1, <2>2, ProcessApprovals DEF RunOnceStep, ReportStep
<1>4. ASSUME NEW w \in Workers, Heartbeat(w) \/ WorkerCrash(w) PROVE ApprovalsForward
  BY <1>2, <1>4 DEF Heartbeat, extend_lease, WorkerCrash, storeVars
<1>5. ASSUME NEW i \in DOMAIN queue, LeaseExpires(i) PROVE ApprovalsForward
  BY <1>2, <1>5 DEF LeaseExpires
<1>6. ASSUME NEW h \in Handlers, HandlerStep(h) PROVE ApprovalsForward
  <2>1. ASSUME NEW resolution \in {"APPROVED", "REJECTED"}, NEW pc, Resolve(h, resolution, pc)
        PROVE  ApprovalsForward
    BY <1>1, <1>2, <2>1, ApprovalOps DEF Resolve, storeVars
  <2> QED
    BY <1>2, <1>6, <2>1
    DEF HandlerStep, ApproveResolve, ApproveSave, ApproveEnqueue, RejectResolve, RejectSave,
        StaleRequest, save_workflow, enqueue, storeVars
<1>7. CASE ControlStep
  BY <1>2, <1>6, <1>7
  DEF ControlStep, CreateIncident, create_workflow, Approve, Reject, Open, ReplayDeadLetter,
      replay_dead_letter, storeVars
<1> QED
  BY <1>2, <1>3, <1>4, <1>5, <1>7 DEF Next, WorkerNext, HandlerCrash, vars, storeVars

\* The backend is called in three actions of a worker that stands at "backend".
LEMMA EffectsOnlyAtBackend ==
  ASSUME NEW w \in Workers, RunOnceStep(w)
  PROVE  UNCHANGED effects \/ (wpc[w] = "backend" /\ Effect(CurrentKey(w)))
<1>1. CASE \E i \in DOMAIN queue : Claim(w, i)
  BY <1>1 DEF Claim, Budgets
<1>2. CASE ReportStep(w)
  BY <1>2
  DEF ReportStep, Acknowledge, Enqueue, RetryOrDeadLetter, DeadLoad, DeadSave,
      PermanentAcknowledge, PermanentLoad, PermanentSave, Reload, SaveFinal, Budgets
<1>3. CASE ProcessStep(w)
  BY <1>3
  DEF ProcessStep, Load, SaveRunning, ModelFailsRetryably, ModelFailsPermanently,
      DecideComplete, DecideFail, DecideTool, PolicyDenied, SaveWaiting, CreateApproval,
      ResumeApprovedAction, LookupResult, BackendSucceeds, BackendFailsRetryably,
      BackendTimesOut, BackendFailsPermanently, SaveToolResult, RecordResult
<1> QED
  BY <1>1, <1>2, <1>3 DEF RunOnceStep, ReportStep

-----------------------------------------------------------------------------
(* The way to the backend *)

\* Where w stands after a step that does not bring it nearer to the backend.
Elsewhere(w) == wpc'[w] \notin {"execute", "backend"}

LEMMA ElsewhereIsGated ==
  ASSUME NEW w \in Workers, Elsewhere(w)
  PROVE  Gated(w)'
  BY DEF Elsewhere, Gated

\* A call the policy lets pass at once needs no human.
LEMMA DecideToolGated ==
  ASSUME TypeOK, NEW w \in Workers, NEW c \in Calls, DecideTool(w, c)
  PROVE  Gated(w)'
<1>1. wpc \in [Workers -> WorkerPC] /\ call \in [Workers -> Calls \cup {NoCall}]
  BY TypeParts DEF LocalTypeOK
<1>2. CASE wpc'[w] \in {"ack", "retry"}
  BY <1>2, ElsewhereIsGated DEF Elsewhere
<1>3. CASE call' = [call EXCEPT ![w] = c] /\ wpc' = [wpc EXCEPT ![w] = AfterPolicy(c)]
  <2>1. call'[w] = c /\ wpc'[w] = AfterPolicy(c)
    BY <1>1, <1>3
  <2>2. /\ AfterPolicy(c) # "backend"
        /\ AfterPolicy(c) = "execute" => ~ApprovalRequired(c)
    BY DEF AfterPolicy
  <2> QED
    BY <2>1, <2>2 DEF Gated
<1> QED
  BY <1>1, <1>2, <1>3
  DEF DecideTool, SaveAndReturn, StaleSave, LeaveProcess, Return, Goto

\* A pending call is resumed only when its own approval row says APPROVED.
LEMMA ResumeGated ==
  ASSUME TypeOK, NEW w \in Workers, ResumeApprovedAction(w)
  PROVE  Gated(w)'
<1>1. wpc \in [Workers -> WorkerPC] /\ call \in [Workers -> Calls \cup {NoCall}]
  BY TypeParts DEF LocalTypeOK
<1>2. CASE Return(w, [state[w] EXCEPT !.status = "WAITING_FOR_APPROVAL"])
  BY <1>1, <1>2, ElsewhereIsGated DEF Elsewhere, Return, Goto
<1>3. CASE /\ IsApproved(action_id(Task(w), state[w].pending_action))
           /\ Goto(w, "execute")
           /\ call' = [call EXCEPT ![w] = state[w].pending_action]
           /\ UNCHANGED <<delivery, state, result>>
  <2>1. /\ wpc'[w] = "execute"
        /\ CurrentKey(w)' = action_id(Task(w), state[w].pending_action)
    BY <1>1, <1>3 DEF Goto, CurrentKey, Task, action_id
  <2>2. approvals' = approvals
    BY DEF ResumeApprovedAction, storeVars
  <2> QED
    BY <1>3, <2>1, <2>2 DEF Gated, IsApproved
<1> QED
  BY <1>2, <1>3 DEF ResumeApprovedAction

\* The gateway asks the policy again before it calls the backend.
LEMMA LookupGated ==
  ASSUME TypeOK, NEW w \in Workers, Gated(w), LookupResult(w)
  PROVE  Gated(w)'
<1>1. wpc \in [Workers -> WorkerPC]
  BY TypeParts DEF LocalTypeOK
<1>2. /\ wpc[w] = "execute"
      /\ wpc'[w] = AfterLookup(w)
      /\ UNCHANGED <<approvals, delivery, call>>
  BY <1>1 DEF LookupResult, Goto, storeVars
<1>3. CurrentKey(w)' = CurrentKey(w)
  BY <1>2 DEF CurrentKey, Task
<1>4. AfterLookup(w) # "execute" /\ (AfterLookup(w) = "backend" => Allowed(call[w]))
  BY DEF AfterLookup
<1> QED
  BY <1>2, <1>3, <1>4 DEF Gated

LEMMA GatedStep ==
  ASSUME TypeOK, NEW w \in Workers, Gated(w), RunOnceStep(w)
  PROVE  Gated(w)'
<1>1. wpc \in [Workers -> WorkerPC]
  BY TypeParts DEF LocalTypeOK
<1>2. CASE \E i \in DOMAIN queue : Claim(w, i)
  BY <1>1, <1>2, ElsewhereIsGated DEF Claim, Goto, Elsewhere
<1>3. CASE ReportStep(w)
  BY <1>1, <1>3, ElsewhereIsGated
  DEF ReportStep, Acknowledge, Enqueue, RetryOrDeadLetter, DeadLoad, DeadSave,
      PermanentAcknowledge, PermanentLoad, PermanentSave, Reload, SaveFinal, LeaveProcess,
      Finish, Goto, Elsewhere
<1>4. CASE ProcessStep(w)
  <2>1. CASE Load(w)
    BY <1>1, <2>1, ElsewhereIsGated DEF Load, Return, AfterLoad, Goto, Elsewhere
  <2>2. CASE \E c \in Calls : DecideTool(w, c)
    BY <2>2, DecideToolGated
  <2>3. CASE ResumeApprovedAction(w)
    BY <2>3, ResumeGated
  <2>4. CASE LookupResult(w)
    BY <2>4, LookupGated
  <2>5. CASE \/ (\E r \in Results : BackendSucceeds(w, r))
             \/ SaveToolResult(w) \/ CreateApproval(w) \/ ModelFailsPermanently(w)
    BY <1>1, <2>5, ElsewhereIsGated
    DEF BackendSucceeds, SaveToolResult, CreateApproval, ModelFailsPermanently, LeaveProcess,
        Return, Goto, Elsewhere
  <2>6. CASE \/ SaveRunning(w) \/ ModelFailsRetryably(w) \/ DecideComplete(w)
             \/ DecideFail(w) \/ PolicyDenied(w) \/ SaveWaiting(w)
             \/ BackendFailsRetryably(w) \/ BackendTimesOut(w)
             \/ BackendFailsPermanently(w) \/ RecordResult(w)
    <3>1. ASSUME NEW new, SaveAndReturn(w, new) \/ SaveAndRaise(w, new) PROVE Elsewhere(w)
      BY <1>1, <3>1
      DEF SaveAndReturn, SaveAndRaise, StaleSave, LeaveProcess, Return, Goto, Elsewhere
    <3>2. ASSUME NEW new, NEW pc \in {"decide", "create_approval"}, SaveAndGoto(w, new, pc)
          PROVE  Elsewhere(w)
      BY <1>1, <3>2 DEF SaveAndGoto, StaleSave, LeaveProcess, Goto, Elsewhere
    <3> QED
      BY <2>6, <3>1, <3>2, ElsewhereIsGated
      DEF SaveRunning, ModelFailsRetryably, DecideComplete, DecideFail, PolicyDenied,
          SaveWaiting, BackendFailsRetryably, BackendTimesOut, BackendFailsPermanently,
          RecordResult, Fail, FailRetryably
  <2> QED
    BY <1>4, <2>1, <2>2, <2>3, <2>4, <2>5, <2>6 DEF ProcessStep
<1> QED
  BY <1>2, <1>3, <1>4 DEF RunOnceStep, ReportStep

\* What is known of a worker outlives the steps of everybody else.
LEMMA GatedKept ==
  ASSUME TypeOK, NEW v \in Workers, Gated(v), ApprovalsForward,
         wpc'[v] = wpc[v], delivery'[v] = delivery[v], call'[v] = call[v]
  PROVE  Gated(v)'
<1>1. CurrentKey(v)' = CurrentKey(v)
  BY DEF CurrentKey, Task
<1>2. wpc[v] \in {"execute", "backend"} => CurrentKey(v) \in Key
  BY TypeParts, KeyType DEF LocalTypeOK, CallChosen, CallPC, Busy
<1> QED
  BY <1>1, <1>2 DEF Gated, ApprovalsForward

\* What has happened stays within the policy.
LEMMA PolicyGateKept ==
  ASSUME PolicyGate, ApprovalsForward, UNCHANGED effects
  PROVE  PolicyGate'
<1> SUFFICES ASSUME NEW task \in Tasks, NEW c \in Calls, effects[action_id(task, c)] > 0
             PROVE  /\ Allowed(c)
                    /\ ApprovalRequired(c) => approvals'[action_id(task, c)] = "APPROVED"
  BY DEF PolicyGate
<1>1. action_id(task, c) \in Key
  BY DEF action_id, Key
<1> QED
  BY <1>1 DEF PolicyGate, ApprovalsForward

\* So does what is happening: a gated worker calls the backend.
LEMMA PolicyGateEffect ==
  ASSUME TypeOK, PolicyGate, ApprovalsForward, NEW w \in Workers, Gated(w),
         wpc[w] = "backend", Effect(CurrentKey(w))
  PROVE  PolicyGate'
<1> SUFFICES ASSUME NEW task \in Tasks, NEW c \in Calls, effects'[action_id(task, c)] > 0
             PROVE  /\ Allowed(c)
                    /\ ApprovalRequired(c) => approvals'[action_id(task, c)] = "APPROVED"
  BY DEF PolicyGate
<1>1. action_id(task, c) \in Key
  BY DEF action_id, Key
<1>2. CASE action_id(task, c) = CurrentKey(w)
  <2>1. c = call[w]
    BY <1>2 DEF action_id, CurrentKey
  <2> QED
    BY <1>1, <1>2, <2>1 DEF Gated, ApprovalsForward
<1>3. CASE action_id(task, c) # CurrentKey(w)
  <2>1. effects'[action_id(task, c)] = effects[action_id(task, c)]
    BY <1>1, <1>3, TypeParts DEF EffectsTypeOK, Effect
  <2> QED
    BY <1>1, <2>1 DEF PolicyGate, ApprovalsForward
<1> QED
  BY <1>2, <1>3

LEMMA GateInvNext ==
  ASSUME TypeOK, GateInv, [Next]_vars
  PROVE  GateInv'
<1>1. ApprovalsForward
  BY ApprovalsForwardNext
<1>2. PolicyGate /\ \A w \in Workers : Gated(w)
  BY DEF GateInv
<1>3. LocalTypeOK
  BY TypeParts
<1>4. ASSUME UNCHANGED <<wpc, delivery, call, effects>> PROVE GateInv'
  BY <1>1, <1>2, <1>4, GatedKept, PolicyGateKept DEF GateInv
<1>5. ASSUME NEW w \in Workers, RunOnceStep(w) PROVE GateInv'
  <2>1. \A v \in Workers : Gated(v)'
    BY <1>1, <1>2, <1>3, <1>5, RunOnceOthersKeep, GatedKept, GatedStep DEF OthersKeep
  <2>2. PolicyGate'
    BY <1>1, <1>2, <1>5, EffectsOnlyAtBackend, PolicyGateKept, PolicyGateEffect
  <2> QED
    BY <2>1, <2>2 DEF GateInv
<1>6. ASSUME NEW w \in Workers, WorkerCrash(w) PROVE GateInv'
  <2>1. ASSUME NEW v \in Workers, v # w PROVE Gated(v)'
    BY <1>1, <1>2, <1>3, <1>6, <2>1, GatedKept DEF WorkerCrash, Finish, Goto, LocalTypeOK
  <2>2. Gated(w)'
    BY <1>3, <1>6, ElsewhereIsGated DEF WorkerCrash, Finish, Goto, LocalTypeOK, Elsewhere
  <2>3. PolicyGate'
    BY <1>1, <1>2, <1>6, PolicyGateKept DEF WorkerCrash
  <2> QED
    BY <2>1, <2>2, <2>3 DEF GateInv
<1>7. CASE WorkerNext
  BY <1>4, <1>5, <1>6, <1>7
  DEF WorkerNext, Heartbeat, LeaseExpires, workerVars, runtimeVars, localVars
<1> QED
  BY <1>4, <1>7
  DEF Next, HandlerCrash, vars, workerVars, runtimeVars, localVars

-----------------------------------------------------------------------------
\* No call reaches the infrastructure against the policy: a blocked call never runs, and
\* one that needs a human runs only with its own approval row APPROVED, whatever crashes,
\* stalls, races or is replayed on the way.
THEOREM PolicyGateHolds == Spec => []PolicyGate
<1>1. Init => GateInv
  BY DEF Init, StoreInit, WorkerInit, RuntimeInit, GateInv, Gated, PolicyGate, Key, action_id
<1>2. TypeOK /\ GateInv /\ [Next]_vars => GateInv'
  BY GateInvNext
<1>3. GateInv => PolicyGate
  BY DEF GateInv
<1> QED
  BY <1>1, <1>2, <1>3, TypeCorrect, PTL DEF Spec

-----------------------------------------------------------------------------
(***************************************************************************)
(* The optimistic version check protects the checkpoints: no update is     *)
(* lost (CheckpointMonotone) and a workflow that is over stays over until  *)
(* a replay (TerminalIsFinal).                                             *)
(*                                                                         *)
(* The argument is about copies.  Whoever is going to save holds a copy    *)
(* that is not terminal and is either behind the row, and then its save    *)
(* fails, or equal to it, and then what it saves extends the row.  A save  *)
(* by anybody else moves the row ahead of the copy.                        *)
(***************************************************************************)

\* Nothing a checkpoint records is taken back.
Extends(old, new) ==
    /\ IsPrefix(old.tool_history, new.tool_history)
    /\ IsPrefix(old.progress_history, new.progress_history)
    /\ completed_steps(old) \subseteq completed_steps(new)

\* Where a worker holds a copy it may save.
CopyPC == (RuntimePC \ {"load"}) \cup {"dead_save", "perm_save"}

FreshCopy(copy, task) ==
    /\ ~terminal(copy)
    /\ copy.version <= workflows[task].version
    /\ copy.version = workflows[task].version => copy = workflows[task]

CopiesFresh ==
    /\ \A w \in Workers : wpc[w] \in CopyPC => FreshCopy(state[w], Task(w))
    /\ \A h \in Handlers : hpc[h] # "idle" => FreshCopy(hstate[h], htask[h])

\* A result about to become evidence is one.
ResultInHand ==
    \A w \in Workers : wpc[w] \in {"save_result", "record"} => result[w] # NoResult

\* Only tasks with a workflow row are worked on, so that creating one resets nothing.
OnlyCreated ==
    /\ \A task \in Tasks \ created : workflows[task] = NewWorkflow
    /\ \A i \in DOMAIN queue : queue[i].task_id \in created
    /\ \A w \in Workers : wpc[w] # "idle" => Task(w) \in created
    /\ \A h \in Handlers : hpc[h] # "idle" => htask[h] \in created

CheckpointInv == CopiesFresh /\ ResultInHand /\ OnlyCreated

-----------------------------------------------------------------------------
(* Extending a checkpoint *)

LEMMA PrefixSelf == ASSUME NEW S, NEW s \in Seq(S) PROVE IsPrefix(s, s)
  BY LenProperties, SMT DEF IsPrefix

LEMMA PrefixAppend ==
  ASSUME NEW S, NEW s \in Seq(S), NEW e \in S
  PROVE  IsPrefix(s, Append(s, e))
<1>1. /\ Append(s, e) \in Seq(S)
      /\ Len(s) \in Nat
      /\ Len(Append(s, e)) = Len(s) + 1
      /\ \A i \in 1 .. Len(s) : Append(s, e)[i] = s[i]
  BY AppendProperties, LenProperties
<1>2. SubSeq(s, 1, Len(s)) = s
  BY SubSeqFull
<1> DEFINE head == SubSeq(Append(s, e), 1, Len(s))
<1>3. head = s
  <2>1. \A i \in 1 .. Len(s) : Append(s, e)[i] \in S
    BY <1>1, ElementOfSeq
  <2>2. /\ head \in Seq(S)
        /\ Len(head) = IF 1 <= Len(s) THEN Len(s) - 1 + 1 ELSE 0
        /\ \A i \in 1 .. Len(s) - 1 + 1 : head[i] = Append(s, e)[1 + i - 1]
    BY <1>1, <2>1, SubSeqProperties, 1 \in Int, Len(s) \in Int
  <2>3. Len(head) = Len(s) /\ \A i \in 1 .. Len(s) : head[i] = s[i]
    BY <1>1, <2>2, SMT
  <2> HIDE DEF head
  <2> QED
    BY <2>2, <2>3, SeqEqual
<1> QED
  BY <1>1, <1>2, <1>3, SMT DEF IsPrefix

LEMMA ExtendsSelf ==
  ASSUME NEW old \in Checkpoint, NEW new \in Checkpoint,
         new.tool_history = old.tool_history, new.progress_history = old.progress_history,
         new.evidence = old.evidence
  PROVE  Extends(old, new)
<1>1. old.tool_history \in Seq(Tools) /\ old.progress_history \in Seq(Evidence)
  BY DEF Checkpoint
<1> QED
  BY <1>1, PrefixSelf DEF Extends, completed_steps

LEMMA ExtendsSaved ==
  ASSUME NEW old, NEW new \in Checkpoint, Extends(old, new)
  PROVE  Extends(old, Saved(new))
  BY DEF Extends, Saved, completed_steps, Checkpoint

LEMMA ExtendsRequested ==
  ASSUME NEW old \in Checkpoint, NEW c \in Calls
  PROVE  Extends(old, Requested(old, c))
<1>1. /\ old.tool_history \in Seq(Tools) /\ c.tool \in Tools
      /\ old.progress_history \in Seq(Evidence) /\ old.evidence \in Evidence
  BY DEF Checkpoint, Tools
<1>2. /\ Requested(old, c).tool_history = Append(old.tool_history, c.tool)
      /\ Requested(old, c).progress_history = Append(old.progress_history, old.evidence)
      /\ Requested(old, c).evidence = old.evidence
  BY DEF Requested, Checkpoint
<1> QED
  BY <1>1, <1>2, PrefixAppend DEF Extends, completed_steps

LEMMA ExtendsCompleted ==
  ASSUME NEW old \in Checkpoint, NEW tool, NEW r \in Results
  PROVE  Extends(old, Completed(old, tool, r))
<1> DEFINE evidence == [old.evidence EXCEPT ![tool] = r]
<1>1. /\ old.tool_history \in Seq(Tools)
      /\ old.progress_history \in Seq(Evidence) /\ evidence \in Evidence
  BY DEF Checkpoint, Evidence
<1>2. /\ Completed(old, tool, r).tool_history = old.tool_history
      /\ Completed(old, tool, r).progress_history = Append(old.progress_history, evidence)
      /\ Completed(old, tool, r).evidence = evidence
  BY DEF Completed, Checkpoint
<1>3. completed_steps(old) \subseteq completed_steps(Completed(old, tool, r))
  <2>1. r # NoResult /\ old.evidence \in [Tools -> Results \cup {NoResult}]
    BY ModelsAssumption DEF Checkpoint, Evidence
  <2>2. \A t \in Tools : old.evidence[t] # NoResult => evidence[t] # NoResult
    BY <2>1
  <2> QED
    BY <1>2, <2>2 DEF completed_steps
<1> QED
  BY <1>1, <1>2, <1>3, PrefixSelf, PrefixAppend DEF Extends

-----------------------------------------------------------------------------
(* Saving a copy *)

Advanced(task) ==
    /\ Extends(workflows[task], workflows'[task])
    /\ workflows'[task].version = workflows[task].version + 1

\* What a step may do to the checkpoints.
StepShape ==
    \A task \in Tasks :
        \/ workflows'[task] = workflows[task]
        \/ Advanced(task) /\ (terminal(workflows[task]) => replays' > replays)

FreshAfter(copy, task) ==
    /\ ~terminal(copy)
    /\ copy.version <= workflows'[task].version
    /\ copy.version = workflows'[task].version => copy = workflows'[task]

LEMMA FreshKept ==
  ASSUME StoreTypeOK, StepShape, NEW task \in Tasks, NEW copy \in Checkpoint,
         FreshCopy(copy, task)
  PROVE  FreshAfter(copy, task)
<1>1. CASE workflows'[task] = workflows[task]
  BY <1>1 DEF FreshCopy, FreshAfter
<1>2. CASE workflows'[task].version = workflows[task].version + 1
  <2>1. workflows[task].version \in Nat /\ copy.version \in Nat
    BY DEF StoreTypeOK, Checkpoint
  <2>2. copy.version < workflows'[task].version
    BY <1>2, <2>1, SMT DEF FreshCopy
  <2> QED
    BY <2>1, <2>2, <1>2, SMT DEF FreshCopy, FreshAfter
<1> QED
  BY <1>1, <1>2 DEF StepShape, Advanced

LEMMA ShapeUnchanged == ASSUME UNCHANGED workflows PROVE StepShape
  BY DEF StepShape

LEMMA SaveShape ==
  ASSUME StoreTypeOK, NEW task \in Tasks, NEW copy \in Checkpoint, FreshCopy(copy, task),
         NEW new \in Checkpoint, new.version = copy.version, Extends(copy, new),
         save_workflow(task, new)
  PROVE  /\ StepShape
         /\ workflows'[task] = Saved(new)
<1>1. workflows[task] = copy
  BY DEF save_workflow, VersionMatches, FreshCopy
<1>2. workflows' = [workflows EXCEPT ![task] = Saved(new)]
  BY DEF save_workflow
<1>3. Saved(new).version = new.version + 1
  BY SavedType
<1>4. workflows'[task] = Saved(new) /\ \A t \in Tasks \ {task} : workflows'[t] = workflows[t]
  BY <1>2 DEF StoreTypeOK
<1>5. Advanced(task) /\ ~terminal(workflows[task])
  BY <1>1, <1>3, <1>4, ExtendsSaved DEF Advanced, FreshCopy
<1> QED
  BY <1>4, <1>5 DEF StepShape

\* A status that does not end the workflow.
LiveStatus == WorkflowStatus \ TerminalStatus

OwnFresh(w) == wpc'[w] \in CopyPC => FreshAfter(state'[w], delivery'[w].task_id)

\* The state of a worker that may save.
Holding(w) == Busy(w) /\ wpc[w] \in CopyPC /\ FreshCopy(state[w], Task(w))

LEMMA LeaveOwnFresh ==
  ASSUME LocalTypeOK, NEW w \in Workers, NEW pc \in {"ack", "retry", "perm_ack", "enqueue", "dead"},
         Goto(w, pc)
  PROVE  OwnFresh(w)
  BY DEF LocalTypeOK, Goto, OwnFresh, CopyPC, RuntimePC

LEMMA StaleSaveShape ==
  ASSUME NEW w \in Workers, Busy(w), NEW new, StaleSave(w, new)
  PROVE  StepShape /\ OwnFresh(w)
  BY ShapeUnchanged, LeaveOwnFresh DEF StaleSave, LeaveProcess, storeVars, Busy

LEMMA SaveAndLeaveShape ==
  ASSUME NEW w \in Workers, Holding(w), NEW new \in Checkpoint,
         new.version = state[w].version, Extends(state[w], new),
         SaveAndReturn(w, new) \/ SaveAndRaise(w, new)
  PROVE  StepShape /\ OwnFresh(w)
<1>1. Task(w) \in Tasks /\ state[w] \in Checkpoint
  BY HeldTypes DEF Holding
<1>2. CASE StaleSave(w, new)
  BY <1>2, StaleSaveShape DEF Holding
<1>3. CASE save_workflow(Task(w), new) /\ (Return(w, new) \/ LeaveProcess(w, "retry"))
  BY <1>1, <1>3, SaveShape, LeaveOwnFresh DEF Holding, Busy, Return, LeaveProcess
<1> QED
  BY <1>2, <1>3 DEF SaveAndReturn, SaveAndRaise

\* After its own save a worker's copy equals the row.
LEMMA SavedOwnFresh ==
  ASSUME NEW w \in Workers, Holding(w), NEW new \in Checkpoint,
         new.version = state[w].version, Extends(state[w], new), new.status \in LiveStatus,
         save_workflow(Task(w), new), state' = [state EXCEPT ![w] = Saved(new)],
         UNCHANGED delivery
  PROVE  StepShape /\ OwnFresh(w)
<1>1. Task(w) \in Tasks /\ state[w] \in Checkpoint
  BY HeldTypes DEF Holding
<1>2. StepShape /\ workflows'[Task(w)] = Saved(new)
  BY <1>1, SaveShape DEF Holding, Busy
<1>3. state'[w] = Saved(new) /\ delivery'[w].task_id = Task(w)
  BY DEF Holding, Busy, LocalTypeOK, Task
<1>4. ~terminal(Saved(new))
  BY DEF Saved, Checkpoint, terminal, LiveStatus
<1>5. Saved(new).version <= Saved(new).version
  BY SavedType, SMT DEF Checkpoint
<1> QED
  BY <1>2, <1>3, <1>4, <1>5 DEF OwnFresh, FreshAfter

LEMMA SaveAndGotoShape ==
  ASSUME NEW w \in Workers, Holding(w), NEW new \in Checkpoint, NEW pc,
         new.version = state[w].version, Extends(state[w], new), new.status \in LiveStatus,
         SaveAndGoto(w, new, pc)
  PROVE  StepShape /\ OwnFresh(w)
  BY StaleSaveShape, SavedOwnFresh DEF SaveAndGoto, Holding

\* A change of status, and of the pending action, extends a checkpoint.
LEMMA StatusExtends ==
  ASSUME NEW s \in Checkpoint, NEW status \in WorkflowStatus
  PROVE  LET new == [s EXCEPT !.status = status]
         IN  Extends(s, new) /\ new.version = s.version /\ new.status = status
<1> DEFINE new == [s EXCEPT !.status = status]
<1>1. new \in Checkpoint
  BY StatusType
<1>2. /\ new.tool_history = s.tool_history /\ new.progress_history = s.progress_history
      /\ new.evidence = s.evidence /\ new.version = s.version /\ new.status = status
  BY DEF Checkpoint
<1> HIDE DEF new
<1>3. Extends(s, new)
  BY <1>1, <1>2, ExtendsSelf
<1> QED
  BY <1>2, <1>3 DEF new

LEMMA PendingExtends ==
  ASSUME NEW s \in Checkpoint, NEW status \in WorkflowStatus, NEW c \in Calls \cup {NoCall}
  PROVE  LET new == [s EXCEPT !.status = status, !.pending_action = c]
         IN  Extends(s, new) /\ new.version = s.version /\ new.status = status
<1> DEFINE new == [s EXCEPT !.status = status, !.pending_action = c]
<1>1. new \in Checkpoint
  BY PendingType
<1>2. /\ new.tool_history = s.tool_history /\ new.progress_history = s.progress_history
      /\ new.evidence = s.evidence /\ new.version = s.version /\ new.status = status
  BY DEF Checkpoint
<1> HIDE DEF new
<1>3. Extends(s, new)
  BY <1>1, <1>2, ExtendsSelf
<1> QED
  BY <1>2, <1>3 DEF new

-----------------------------------------------------------------------------
(* The steps of a worker *)

\* A copy just loaded equals the row.
LEMMA LoadedOwnFresh ==
  ASSUME NEW w \in Workers, Busy(w), ~terminal(workflows[Task(w)]), UNCHANGED workflows,
         state' = [state EXCEPT ![w] = workflows[Task(w)]], UNCHANGED delivery
  PROVE  StepShape /\ OwnFresh(w)
<1>1. state'[w] = workflows[Task(w)] /\ delivery'[w].task_id = Task(w)
  BY DEF Busy, LocalTypeOK, Task
<1>2. workflows[Task(w)].version <= workflows[Task(w)].version
  BY HeldTypes, SMT DEF Checkpoint
<1> QED
  BY <1>1, <1>2, ShapeUnchanged DEF OwnFresh, FreshAfter

\* A step that touches neither the copy nor the checkpoints.
LEMMA IdleOwnFresh ==
  ASSUME NEW w \in Workers, Holding(w), UNCHANGED workflows, UNCHANGED <<state, delivery>>
  PROVE  StepShape /\ OwnFresh(w)
  BY ShapeUnchanged DEF OwnFresh, FreshAfter, FreshCopy, Holding, Task

LEMMA DecideToolShape ==
  ASSUME NEW w \in Workers, Holding(w), NEW c \in Calls, DecideTool(w, c)
  PROVE  StepShape /\ OwnFresh(w)
<1> DEFINE requested == Requested(state[w], c)
           stopped == [requested EXCEPT !.status = "LOOP_STOPPED"]
<1>1. state[w] \in Checkpoint /\ Busy(w)
  BY HeldTypes DEF Holding
<1>2. /\ requested \in Checkpoint /\ requested.version = state[w].version
      /\ Extends(state[w], requested)
  BY <1>1, RequestedType, ExtendsRequested
<1>3. requested.status \in LiveStatus
  <2>1. requested.status = state[w].status
    BY <1>1 DEF Requested, Checkpoint
  <2> QED
    BY <1>1, <2>1 DEF Holding, FreshCopy, terminal, LiveStatus, Checkpoint
<1>4. /\ stopped \in Checkpoint /\ stopped.version = state[w].version
      /\ Extends(state[w], stopped)
  <2>1. /\ stopped.tool_history = requested.tool_history
        /\ stopped.progress_history = requested.progress_history
        /\ stopped.evidence = requested.evidence
        /\ stopped.version = requested.version
    BY <1>2 DEF Checkpoint
  <2>2. stopped \in Checkpoint
    BY <1>2, StatusType DEF WorkflowStatus
  <2> HIDE DEF requested, stopped
  <2> QED
    BY <1>2, <2>1, <2>2 DEF Extends, completed_steps
<1> HIDE DEF requested, stopped
<1>5. CASE SaveAndReturn(w, stopped)
  BY <1>4, <1>5, SaveAndLeaveShape
<1>6. CASE StaleSave(w, requested)
  BY <1>1, <1>6, StaleSaveShape
<1>7. CASE /\ save_workflow(Task(w), requested)
           /\ state' = [state EXCEPT ![w] = Saved(requested)]
           /\ UNCHANGED <<delivery, result>>
  BY <1>2, <1>3, <1>7, SavedOwnFresh
<1> QED
  BY <1>5, <1>6, <1>7 DEF DecideTool, requested, stopped

LEMMA ProcessShape ==
  ASSUME NEW w \in Workers, Busy(w), wpc[w] \in CopyPC => FreshCopy(state[w], Task(w)),
         ResultInHand, ProcessStep(w)
  PROVE  StepShape /\ OwnFresh(w)
<1> USE DEF CopyPC, RuntimePC
<1>1. state[w] \in Checkpoint /\ LocalTypeOK
  BY HeldTypes DEF Busy
<1>2. CASE Load(w)
  <2>1. CASE Return(w, workflows[Task(w)])
    BY <1>1, <1>2, <2>1, ShapeUnchanged, LeaveOwnFresh DEF Load, Return, storeVars
  <2>2. CASE /\ Resumable(workflows[Task(w)])
             /\ state' = [state EXCEPT ![w] = workflows[Task(w)]]
             /\ UNCHANGED <<delivery, call, result>>
    BY <1>2, <2>2, LoadedOwnFresh DEF Load, Resumable, storeVars
  <2> QED
    BY <1>2, <2>1, <2>2 DEF Load
<1>3. CASE SaveRunning(w)
  <2>1. Holding(w)
    BY <1>3 DEF SaveRunning, Holding
  <2>2. "RUNNING" \in LiveStatus /\ "RUNNING" \in WorkflowStatus
    BY DEF LiveStatus, WorkflowStatus, TerminalStatus
  <2> QED
    BY <1>1, <1>3, <2>1, <2>2, StatusType, StatusExtends, SaveAndGotoShape DEF SaveRunning
<1>4. CASE \/ ModelFailsRetryably(w) \/ DecideFail(w) \/ PolicyDenied(w)
           \/ BackendFailsRetryably(w) \/ BackendTimesOut(w) \/ BackendFailsPermanently(w)
           \/ DecideComplete(w)
  <2>1. Holding(w)
    BY <1>4
    DEF ModelFailsRetryably, DecideFail, PolicyDenied, BackendFailsRetryably,
        BackendTimesOut, BackendFailsPermanently, DecideComplete, Holding
  <2>2. {"FAILED", "QUEUED", "COMPLETED"} \subseteq WorkflowStatus
    BY DEF WorkflowStatus
  <2>3. ASSUME NEW status \in {"FAILED", "QUEUED", "COMPLETED"},
               \/ SaveAndReturn(w, [state[w] EXCEPT !.status = status])
               \/ SaveAndRaise(w, [state[w] EXCEPT !.status = status])
        PROVE  StepShape /\ OwnFresh(w)
    BY <1>1, <2>1, <2>2, <2>3, StatusType, StatusExtends, SaveAndLeaveShape
  <2> QED
    BY <1>4, <2>3
    DEF ModelFailsRetryably, DecideFail, PolicyDenied, BackendFailsRetryably,
        BackendTimesOut, BackendFailsPermanently, DecideComplete, Fail, FailRetryably
<1>5. CASE ModelFailsPermanently(w)
  BY <1>1, <1>5, ShapeUnchanged, LeaveOwnFresh
  DEF ModelFailsPermanently, LeaveProcess, storeVars
<1>6. CASE \E c \in Calls : DecideTool(w, c)
  BY <1>6, DecideToolShape DEF DecideTool, Holding
<1>7. CASE SaveWaiting(w)
  <2>1. Holding(w) /\ call[w] \in Calls \cup {NoCall}
    BY <1>7, HeldTypes DEF SaveWaiting, Holding
  <2>2. "WAITING_FOR_APPROVAL" \in LiveStatus /\ "WAITING_FOR_APPROVAL" \in WorkflowStatus
    BY DEF LiveStatus, WorkflowStatus, TerminalStatus
  <2> DEFINE copy == state[w]
             pending == call[w]
             new == [copy EXCEPT !.status = "WAITING_FOR_APPROVAL", !.pending_action = pending]
  <2>3. new \in Checkpoint
    BY <1>1, <2>1, <2>2, PendingType
  <2>4. Extends(copy, new) /\ new.version = copy.version /\ new.status = "WAITING_FOR_APPROVAL"
    <3>1. /\ copy \in Checkpoint /\ pending \in Calls \cup {NoCall}
          /\ "WAITING_FOR_APPROVAL" \in WorkflowStatus
      BY <1>1, <2>1, <2>2
    <3> HIDE DEF copy, pending
    <3> QED
      BY <3>1, PendingExtends
  <2>5. SaveAndGoto(w, new, "create_approval")
    BY <1>7 DEF SaveWaiting
  <2> HIDE DEF new
  <2> QED
    BY <2>1, <2>2, <2>3, <2>4, <2>5, SaveAndGotoShape
<1>8. CASE CreateApproval(w)
  BY <1>1, <1>8, ShapeUnchanged, LeaveOwnFresh DEF CreateApproval, create_approval, Return
<1>9. CASE ResumeApprovedAction(w)
  <2>1. UNCHANGED workflows /\ Holding(w)
    BY <1>9 DEF ResumeApprovedAction, storeVars, Holding
  <2> QED
    BY <1>1, <1>9, <2>1, ShapeUnchanged, LeaveOwnFresh, IdleOwnFresh
    DEF ResumeApprovedAction, Return
<1>10. CASE LookupResult(w) \/ (\E r \in Results : BackendSucceeds(w, r)) \/ SaveToolResult(w)
  <2>1. Holding(w) /\ UNCHANGED workflows /\ UNCHANGED <<state, delivery>>
    BY <1>10
    DEF LookupResult, BackendSucceeds, SaveToolResult, save_tool_result, storeVars, localVars,
        Holding
  <2> QED
    BY <2>1, IdleOwnFresh
<1>11. CASE RecordResult(w)
  <2>1. Holding(w) /\ result[w] \in Results
    BY <1>11, HeldTypes DEF RecordResult, Holding, ResultInHand
  <2> QED
    BY <1>1, <1>11, <2>1, CompletedType, ExtendsCompleted, SaveAndLeaveShape DEF RecordResult
<1> QED
  BY <1>2, <1>3, <1>4, <1>5, <1>6, <1>7, <1>8, <1>9, <1>10, <1>11 DEF ProcessStep

LEMMA ReloadShape ==
  ASSUME NEW w \in Workers, Busy(w), NEW pc, Reload(w, pc)
  PROVE  StepShape /\ OwnFresh(w)
<1>1. CASE Finish(w)
  BY <1>1, ShapeUnchanged
  DEF Reload, storeVars, Finish, Goto, Busy, LocalTypeOK, OwnFresh, CopyPC, RuntimePC
<1>2. CASE ~terminal(workflows[Task(w)]) /\ state' = [state EXCEPT ![w] = workflows[Task(w)]]
           /\ UNCHANGED <<delivery, call, result>>
  BY <1>2, LoadedOwnFresh DEF Reload, storeVars
<1> QED
  BY <1>1, <1>2 DEF Reload

LEMMA SaveFinalShape ==
  ASSUME NEW w \in Workers, Holding(w), NEW status \in WorkflowStatus, SaveFinal(w, status)
  PROVE  StepShape /\ OwnFresh(w)
<1> DEFINE new == [state[w] EXCEPT !.status = status]
<1>1. Task(w) \in Tasks /\ state[w] \in Checkpoint /\ Busy(w)
  BY HeldTypes DEF Holding
<1>2. OwnFresh(w)
  BY <1>1 DEF SaveFinal, Finish, Goto, Busy, LocalTypeOK, OwnFresh, CopyPC, RuntimePC
<1>3. CASE save_workflow(Task(w), new)
  BY <1>1, <1>2, <1>3, StatusType, StatusExtends, SaveShape DEF Holding, Busy
<1>4. CASE UNCHANGED storeVars
  BY <1>2, <1>4, ShapeUnchanged DEF storeVars
<1> QED
  BY <1>3, <1>4 DEF SaveFinal

LEMMA ReportShape ==
  ASSUME NEW w \in Workers, Busy(w), wpc[w] \in CopyPC => FreshCopy(state[w], Task(w)),
         ReportStep(w)
  PROVE  StepShape /\ OwnFresh(w)
<1> USE DEF CopyPC, RuntimePC
<1>1. LocalTypeOK
  BY DEF Busy
<1>2. ASSUME Finish(w) PROVE OwnFresh(w)
  BY <1>1, <1>2 DEF Finish, Goto, LocalTypeOK, OwnFresh
<1>3. CASE Acknowledge(w) \/ Enqueue(w) \/ RetryOrDeadLetter(w)
  <2>1. StepShape
    BY <1>3, ShapeUnchanged
    DEF Acknowledge, Enqueue, RetryOrDeadLetter, acknowledge, enqueue, retry_or_dead_letter
  <2>2. OwnFresh(w)
    BY <1>1, <1>2, <1>3, LeaveOwnFresh DEF Acknowledge, Enqueue, RetryOrDeadLetter, LeaveProcess
  <2> QED
    BY <2>1, <2>2
<1>4. CASE PermanentAcknowledge(w)
  BY <1>1, <1>4, ShapeUnchanged
  DEF PermanentAcknowledge, acknowledge, Goto, LocalTypeOK, OwnFresh
<1>5. CASE DeadLoad(w) \/ PermanentLoad(w)
  BY <1>5, ReloadShape DEF DeadLoad, PermanentLoad
<1>6. CASE DeadSave(w) \/ PermanentSave(w)
  BY <1>6, SaveFinalShape DEF DeadSave, PermanentSave, Holding, WorkflowStatus
<1> QED
  BY <1>3, <1>4, <1>5, <1>6 DEF ReportStep

LEMMA RunOnceShape ==
  ASSUME StoreTypeOK, LocalTypeOK, NEW w \in Workers, ResultInHand,
         wpc[w] \in CopyPC => FreshCopy(state[w], Task(w)), RunOnceStep(w)
  PROVE  StepShape /\ OwnFresh(w)
<1>1. CASE \E i \in DOMAIN queue : Claim(w, i)
  BY <1>1, ShapeUnchanged
  DEF Claim, claim, Goto, LocalTypeOK, OwnFresh, CopyPC, RuntimePC
<1>2. CASE ProcessStep(w)
  <2>1. Busy(w)
    BY <1>2
    DEF Busy, ProcessStep, Load, SaveRunning, ModelFailsRetryably, ModelFailsPermanently,
        DecideComplete, DecideFail, DecideTool, PolicyDenied, SaveWaiting, CreateApproval,
        ResumeApprovedAction, LookupResult, BackendSucceeds, BackendFailsRetryably,
        BackendTimesOut, BackendFailsPermanently, SaveToolResult, RecordResult
  <2> QED
    BY <1>2, <2>1, ProcessShape
<1>3. CASE ReportStep(w)
  <2>1. Busy(w)
    BY <1>3
    DEF Busy, ReportStep, Acknowledge, Enqueue, RetryOrDeadLetter, DeadLoad,
        DeadSave, PermanentAcknowledge, PermanentLoad, PermanentSave
  <2> QED
    BY <1>3, <2>1, ReportShape
<1> QED
  BY <1>1, <1>2, <1>3 DEF RunOnceStep, ReportStep

\* Whatever a worker takes for evidence came from the backend or from the ledger.
LEMMA RunOnceResult ==
  ASSUME LocalTypeOK, NEW w \in Workers, ResultInHand, RunOnceStep(w),
         wpc'[w] \in {"save_result", "record"}
  PROVE  result'[w] # NoResult
<1> USE DEF LocalTypeOK, Goto
<1>1. ASSUME NEW pc \in WorkerPC \ {"save_result", "record"}, Goto(w, pc) PROVE FALSE
  BY <1>1
<1>2. CASE \E r \in Results : BackendSucceeds(w, r)
  BY <1>2, ModelsAssumption DEF BackendSucceeds
<1>3. CASE LookupResult(w)
  BY <1>3 DEF LookupResult, AfterLookup
<1>4. CASE SaveToolResult(w)
  BY <1>4 DEF SaveToolResult, localVars, ResultInHand
<1>5. CASE \E i \in DOMAIN queue : Claim(w, i)
  BY <1>5 DEF Claim
<1>6. CASE ReportStep(w)
  BY <1>6
  DEF ReportStep, Acknowledge, Enqueue, RetryOrDeadLetter, DeadLoad, DeadSave,
      PermanentAcknowledge, PermanentLoad, PermanentSave, Reload, SaveFinal, LeaveProcess,
      Finish
<1>7. CASE \/ Load(w) \/ ResumeApprovedAction(w) \/ CreateApproval(w)
           \/ ModelFailsPermanently(w)
  BY <1>7
  DEF Load, ResumeApprovedAction, CreateApproval, ModelFailsPermanently, Return, LeaveProcess,
      AfterLoad
<1>8. CASE \E c \in Calls : DecideTool(w, c)
  BY <1>8
  DEF DecideTool, SaveAndReturn, StaleSave, Return, LeaveProcess, AfterPolicy
<1>9. CASE \/ SaveRunning(w) \/ ModelFailsRetryably(w) \/ DecideComplete(w)
           \/ DecideFail(w) \/ PolicyDenied(w) \/ SaveWaiting(w)
           \/ BackendFailsRetryably(w) \/ BackendTimesOut(w)
           \/ BackendFailsPermanently(w) \/ RecordResult(w)
  <2>1. ASSUME NEW new, SaveAndReturn(w, new) \/ SaveAndRaise(w, new) PROVE FALSE
    BY <2>1 DEF SaveAndReturn, SaveAndRaise, StaleSave, LeaveProcess, Return
  <2>2. ASSUME NEW new, NEW pc \in {"decide", "create_approval"}, SaveAndGoto(w, new, pc)
        PROVE  FALSE
    BY <2>2 DEF SaveAndGoto, StaleSave, LeaveProcess
  <2> QED
    BY <1>9, <2>1, <2>2
    DEF SaveRunning, ModelFailsRetryably, DecideComplete, DecideFail, PolicyDenied,
        SaveWaiting, BackendFailsRetryably, BackendTimesOut, BackendFailsPermanently,
        RecordResult, Fail, FailRetryably
<1> QED
  BY <1>2, <1>3, <1>4, <1>5, <1>6, <1>7, <1>8, <1>9 DEF RunOnceStep, ProcessStep, ReportStep

-----------------------------------------------------------------------------
(* Only tasks with a workflow row are worked on *)

\* The checkpoints of the other tasks are untouched, and rows that are new in the
\* queue are rows of this task.
OnlyTask(task) ==
    /\ created' = created
    /\ \A t \in Tasks \ {task} : workflows'[t] = workflows[t]
    /\ \A i \in DOMAIN queue' :
            \/ queue'[i].task_id = task
            \/ i \in DOMAIN queue /\ queue'[i].task_id = queue[i].task_id

LEMMA OnlyTaskUnchanged ==
  ASSUME UNCHANGED <<created, workflows, queue>>, NEW task
  PROVE  OnlyTask(task)
  BY DEF OnlyTask

LEMMA OnlyTaskSave ==
  ASSUME StoreTypeOK, NEW task, NEW new, save_workflow(task, new)
  PROVE  OnlyTask(task)
  BY DEF StoreTypeOK, save_workflow, OnlyTask

LEMMA OnlyTaskRow ==
  ASSUME StoreTypeOK, UNCHANGED <<created, workflows>>, RowsKept, DOMAIN queue' = DOMAIN queue,
         NEW task
  PROVE  OnlyTask(task)
  BY DEF OnlyTask, RowsKept

LEMMA SameRows ==
  ASSUME StoreTypeOK,
         \/ \E i \in DOMAIN queue : claim(i) \/ acknowledge(i) \/ extend_lease(i) \/ LeaseExpires(i)
         \/ \E d \in Delivery : d.id \in DOMAIN queue /\ retry_or_dead_letter(d)
  PROVE  /\ UNCHANGED <<created, workflows>>
         /\ RowsKept
         /\ DOMAIN queue' = DOMAIN queue
<1>1. UNCHANGED <<created, workflows>>
  BY DEF claim, acknowledge, extend_lease, LeaseExpires, retry_or_dead_letter
<1>2. RowsKept
  BY ClaimType, AcknowledgeType, ExtendLeaseType, RetryType, LeaseExpiresType DEF StoreStepOK
<1>3. DOMAIN queue' = DOMAIN queue
  BY DEF claim, acknowledge, extend_lease, LeaseExpires, retry_or_dead_letter
<1> QED
  BY <1>1, <1>2, <1>3

LEMMA AppendedRow ==
  ASSUME StoreTypeOK, NEW task \in Tasks, queue' = Append(queue, NewRow(task))
  PROVE  \A i \in DOMAIN queue' :
            \/ queue'[i].task_id = task
            \/ i \in DOMAIN queue /\ queue'[i].task_id = queue[i].task_id
<1>1. /\ Len(queue) \in Nat /\ DOMAIN queue = 1 .. Len(queue)
      /\ queue' \in Seq(QueueRow) /\ Len(queue') = Len(queue) + 1
      /\ \A i \in 1 .. Len(queue) : queue'[i] = queue[i]
      /\ queue'[Len(queue) + 1] = NewRow(task)
  BY NewRowType, AppendProperties, LenProperties DEF StoreTypeOK
<1>2. DOMAIN queue' = 1 .. Len(queue) + 1
  BY <1>1, LenProperties
<1>3. NewRow(task).task_id = task
  BY DEF NewRow
<1> QED
  BY <1>1, <1>2, <1>3, SMT

LEMMA OnlyTaskEnqueue ==
  ASSUME StoreTypeOK, NEW task \in Tasks, enqueue(task)
  PROVE  OnlyTask(task)
<1>1. CASE queue' = queue
  BY <1>1, OnlyTaskUnchanged DEF enqueue
<1>2. CASE queue' = Append(queue, NewRow(task))
  BY <1>2, AppendedRow DEF enqueue, OnlyTask
<1> QED
  BY <1>1, <1>2 DEF enqueue

LEMMA ProcessOnlyTask ==
  ASSUME StoreTypeOK, NEW w \in Workers, ProcessStep(w)
  PROVE  OnlyTask(Task(w))
<1>1. ASSUME NEW new, NEW pc,
             \/ SaveAndReturn(w, new) \/ SaveAndRaise(w, new) \/ SaveAndGoto(w, new, pc)
             \/ StaleSave(w, new)
      PROVE  OnlyTask(Task(w))
  BY <1>1, OnlyTaskSave, OnlyTaskUnchanged
  DEF SaveAndReturn, SaveAndRaise, SaveAndGoto, StaleSave, storeVars
<1>2. ASSUME NEW c \in Calls, DecideTool(w, c) PROVE OnlyTask(Task(w))
  BY <1>1, <1>2, OnlyTaskSave DEF DecideTool
<1>3. CASE UNCHANGED <<created, workflows, queue>>
  BY <1>3, OnlyTaskUnchanged
<1>4. CASE \/ SaveRunning(w) \/ ModelFailsRetryably(w) \/ DecideComplete(w)
           \/ DecideFail(w) \/ PolicyDenied(w) \/ SaveWaiting(w)
           \/ BackendFailsRetryably(w) \/ BackendTimesOut(w)
           \/ BackendFailsPermanently(w) \/ RecordResult(w)
  BY <1>1, <1>4
  DEF SaveRunning, ModelFailsRetryably, DecideComplete, DecideFail, PolicyDenied,
      SaveWaiting, BackendFailsRetryably, BackendTimesOut, BackendFailsPermanently,
      RecordResult, Fail, FailRetryably
<1> QED
  BY <1>2, <1>3, <1>4
  DEF ProcessStep, Load, ModelFailsPermanently, CreateApproval, create_approval,
      ResumeApprovedAction, LookupResult, BackendSucceeds, SaveToolResult, save_tool_result,
      storeVars

LEMMA RunOnceOnlyTask ==
  ASSUME StoreTypeOK, LocalTypeOK, HoldsRow, NEW w \in Workers, RunOnceStep(w)
  PROVE  OnlyTask(Task(w))
<1>1. CASE \E i \in DOMAIN queue : Claim(w, i)
  BY <1>1, SameRows, OnlyTaskRow DEF Claim
<1>2. CASE ReportStep(w)
  <2>1. wpc[w] # "idle"
    BY <1>2
    DEF ReportStep, Acknowledge, Enqueue, RetryOrDeadLetter, DeadLoad,
        DeadSave, PermanentAcknowledge, PermanentLoad, PermanentSave
  <2>2. delivery[w] \in Delivery /\ delivery[w].id \in DOMAIN queue /\ Task(w) \in Tasks
    BY <2>1, HeldTypes DEF HoldsRow, Busy
  <2>3. CASE Acknowledge(w) \/ RetryOrDeadLetter(w) \/ PermanentAcknowledge(w)
    BY <2>2, <2>3, SameRows, OnlyTaskRow
    DEF Acknowledge, RetryOrDeadLetter, PermanentAcknowledge
  <2>4. CASE Enqueue(w)
    BY <2>2, <2>4, OnlyTaskEnqueue DEF Enqueue
  <2>5. CASE DeadLoad(w) \/ PermanentLoad(w) \/ DeadSave(w) \/ PermanentSave(w)
    BY <2>5, OnlyTaskSave, OnlyTaskUnchanged
    DEF DeadLoad, PermanentLoad, DeadSave, PermanentSave, Reload, SaveFinal, storeVars
  <2> QED
    BY <1>2, <2>3, <2>4, <2>5 DEF ReportStep
<1> QED
  BY <1>1, <1>2, ProcessOnlyTask DEF RunOnceStep, ReportStep

LEMMA OnlyCreatedKept ==
  ASSUME TypeOK, OnlyCreated, NEW task \in created, OnlyTask(task),
         \A w \in Workers : wpc'[w] # "idle" => Task(w)' \in created,
         \A h \in Handlers : hpc'[h] # "idle" => htask'[h] \in created
  PROVE  OnlyCreated'
<1>1. \A t \in Tasks \ created : workflows'[t] = NewWorkflow
  BY DEF OnlyCreated, OnlyTask
<1>2. \A i \in DOMAIN queue' : queue'[i].task_id \in created
  BY DEF OnlyCreated, OnlyTask
<1> QED
  BY <1>1, <1>2 DEF OnlyCreated, OnlyTask

LEMMA OnlyCreatedSameStore ==
  ASSUME TypeOK, OnlyCreated, UNCHANGED <<created, workflows>>, RowsKept,
         DOMAIN queue' = DOMAIN queue,
         \A w \in Workers : wpc'[w] # "idle" => Task(w)' \in created,
         \A h \in Handlers : hpc'[h] # "idle" => htask'[h] \in created
  PROVE  OnlyCreated'
  BY DEF OnlyCreated, RowsKept

LEMMA RunOnceOnlyCreated ==
  ASSUME TypeOK, OnlyCreated, NEW w \in Workers, RunOnceStep(w), UNCHANGED handlerVars
  PROVE  OnlyCreated'
<1>1. StoreTypeOK /\ LocalTypeOK /\ HoldsRow
  BY TypeParts
<1>2. \A h \in Handlers : hpc'[h] # "idle" => htask'[h] \in created
  BY DEF OnlyCreated, handlerVars
<1>3. OthersKeep(w)
  BY <1>1, RunOnceOthersKeep
<1>4. CASE \E i \in DOMAIN queue : Claim(w, i)
  <2>1. delivery'[w].task_id \in created
    BY <1>1, <1>4 DEF Claim, LocalTypeOK, OnlyCreated
  <2>2. \A v \in Workers : wpc'[v] # "idle" => Task(v)' \in created
    BY <1>3, <2>1 DEF OnlyCreated, OthersKeep, Task
  <2> QED
    BY <1>1, <1>2, <1>4, <2>2, SameRows, OnlyCreatedSameStore DEF Claim
<1>5. CASE ProcessStep(w) \/ ReportStep(w)
  <2>1. Busy(w)
    BY <1>1, <1>5
    DEF Busy, ReportStep, Acknowledge, Enqueue, RetryOrDeadLetter, DeadLoad,
        DeadSave, PermanentAcknowledge, PermanentLoad, PermanentSave,
        ProcessStep, Load, SaveRunning, ModelFailsRetryably, ModelFailsPermanently,
        DecideComplete, DecideFail, DecideTool, PolicyDenied, SaveWaiting, CreateApproval,
        ResumeApprovedAction, LookupResult, BackendSucceeds, BackendFailsRetryably,
        BackendTimesOut, BackendFailsPermanently, SaveToolResult, RecordResult
  <2>2. LocalStepOK
    BY <1>1, <1>5, <2>1, ProcessStepType, ReportStepType DEF HoldsRow, Busy
  <2>3. \A v \in Workers : wpc'[v] # "idle" => Task(v)' \in created
    BY <2>2 DEF LocalStepOK, NothingClaimed, OnlyCreated, Task
  <2>4. Task(w) \in created
    BY <2>1 DEF OnlyCreated, Busy
  <2> QED
    BY <1>1, <1>2, <2>3, <2>4, RunOnceOnlyTask, OnlyCreatedKept
<1> QED
  BY <1>4, <1>5 DEF RunOnceStep, ReportStep

-----------------------------------------------------------------------------
(* The steps of the API *)

HandlerFresh == \A h \in Handlers : hpc'[h] # "idle" => FreshAfter(hstate'[h], htask'[h])

HandlersOnCreated == \A h \in Handlers : hpc'[h] # "idle" => htask'[h] \in created'

LEMMA HandlersFreshKept ==
  ASSUME StoreTypeOK, ControlTypeOK, CopiesFresh, OnlyCreated, StepShape, created \subseteq created',
         \A h \in Handlers :
            hpc'[h] # "idle" => hpc[h] # "idle" /\ htask'[h] = htask[h] /\ hstate'[h] = hstate[h]
  PROVE  HandlerFresh /\ HandlersOnCreated
<1>1. ASSUME NEW h \in Handlers, hpc'[h] # "idle"
      PROVE  FreshAfter(hstate'[h], htask'[h]) /\ htask'[h] \in created'
  BY <1>1, HandlerTypes, FreshKept DEF CopiesFresh, OnlyCreated
<1> QED
  BY <1>1 DEF HandlerFresh, HandlersOnCreated

LEMMA OpenFresh ==
  ASSUME StoreTypeOK, ControlTypeOK, CopiesFresh, OnlyCreated, NEW h \in Handlers,
         NEW task \in Tasks, NEW pc, Open(h, task, pc)
  PROVE  StepShape /\ HandlerFresh /\ HandlersOnCreated
<1>1. UNCHANGED <<workflows, created>>
  BY DEF Open, storeVars
<1>2. StepShape
  BY <1>1, ShapeUnchanged
<1>3. FreshAfter(hstate'[h], htask'[h]) /\ htask'[h] \in created'
  <2>1. hstate'[h] = workflows'[task] /\ htask'[h] = task /\ task \in created
    BY <1>1 DEF Open, ControlTypeOK
  <2>2. ~terminal(workflows[task])
    BY DEF Open, terminal, TerminalStatus
  <2>3. workflows'[task].version <= workflows'[task].version
    BY <1>1, SMT DEF StoreTypeOK, Checkpoint
  <2> QED
    BY <1>1, <2>1, <2>2, <2>3 DEF FreshAfter
<1>4. ASSUME NEW g \in Handlers \ {h}, hpc'[g] # "idle"
      PROVE  FreshAfter(hstate'[g], htask'[g]) /\ htask'[g] \in created'
  <2>1. hpc'[g] = hpc[g] /\ htask'[g] = htask[g] /\ hstate'[g] = hstate[g]
    BY DEF Open, ControlTypeOK
  <2> QED
    BY <1>1, <1>2, <1>4, <2>1, HandlerTypes, FreshKept DEF CopiesFresh, OnlyCreated
<1> QED
  BY <1>2, <1>3, <1>4 DEF HandlerFresh, HandlersOnCreated

LEMMA HandlerStepShape ==
  ASSUME StoreTypeOK, ControlTypeOK, CopiesFresh, OnlyCreated, NEW h \in Handlers, HandlerStep(h)
  PROVE  StepShape /\ HandlerFresh /\ HandlersOnCreated /\ OnlyTask(htask[h]) /\ hpc[h] # "idle"
<1>1. hpc[h] # "idle" /\ htask[h] \in Tasks /\ hstate[h] \in Checkpoint
  BY HandlerTypes
  DEF HandlerStep, ApproveResolve, ApproveSave, ApproveEnqueue, RejectResolve, RejectSave
<1>2. FreshCopy(hstate[h], htask[h])
  BY <1>1 DEF CopiesFresh
<1>3. \A g \in Handlers :
        hpc'[g] # "idle" => hpc[g] # "idle" /\ htask'[g] = htask[g] /\ hstate'[g] = hstate[g]
  BY <1>1
  DEF HandlerStep, ApproveResolve, ApproveSave, ApproveEnqueue, RejectResolve, RejectSave,
      Resolve, StaleRequest, Respond, HGoto, ControlTypeOK
<1>4. StepShape /\ OnlyTask(htask[h])
  <2>1. CASE UNCHANGED <<created, workflows, queue>>
    BY <2>1, ShapeUnchanged, OnlyTaskUnchanged
  <2>2. CASE enqueue(htask[h])
    BY <1>1, <2>2, ShapeUnchanged, OnlyTaskEnqueue DEF enqueue
  <2>3. CASE save_workflow(htask[h], [hstate[h] EXCEPT !.status = "QUEUED"])
    <3> DEFINE copy == hstate[h]
               new == [copy EXCEPT !.status = "QUEUED"]
    <3>1. copy \in Checkpoint /\ "QUEUED" \in WorkflowStatus
      BY <1>1 DEF WorkflowStatus
    <3>2. new \in Checkpoint /\ new.version = copy.version /\ Extends(copy, new)
      BY <3>1, StatusType, StatusExtends
    <3>3. FreshCopy(copy, htask[h]) /\ save_workflow(htask[h], new)
      BY <1>2, <2>3
    <3> HIDE DEF copy, new
    <3> QED
      BY <1>1, <3>1, <3>2, <3>3, SaveShape, OnlyTaskSave
  <2>4. CASE save_workflow(htask[h], [hstate[h] EXCEPT !.status = "HUMAN_REJECTED",
                                                       !.pending_action = NoCall])
    <3> DEFINE copy == hstate[h]
               none == NoCall
               new == [copy EXCEPT !.status = "HUMAN_REJECTED", !.pending_action = none]
    <3>1. /\ copy \in Checkpoint /\ "HUMAN_REJECTED" \in WorkflowStatus
          /\ none \in Calls \cup {NoCall}
      BY <1>1 DEF WorkflowStatus
    <3>2. FreshCopy(copy, htask[h]) /\ save_workflow(htask[h], new)
      BY <1>2, <2>4
    <3> HIDE DEF copy, none
    <3>3. new \in Checkpoint
      BY <3>1, PendingType
    <3>4. new.version = copy.version /\ Extends(copy, new)
      BY <3>1, PendingExtends
    <3> HIDE DEF new
    <3> QED
      BY <1>1, <3>1, <3>2, <3>3, <3>4, SaveShape, OnlyTaskSave
  <2> QED
    BY <2>1, <2>2, <2>3, <2>4
    DEF HandlerStep, ApproveResolve, ApproveSave, ApproveEnqueue, RejectResolve, RejectSave,
        Resolve, resolve_approval, StaleRequest, storeVars
<1>5. created \subseteq created'
  BY <1>4 DEF OnlyTask
<1> QED
  BY <1>1, <1>3, <1>4, <1>5, HandlersFreshKept

LEMMA ReplayShape ==
  ASSUME TypeOK, OnlyCreated, NEW id \in DOMAIN queue, ReplayDeadLetter(id)
  PROVE  StepShape /\ OnlyTask(queue[id].task_id)
<1> DEFINE task == queue[id].task_id
           copy == workflows[task]
           new == [copy EXCEPT !.status = "QUEUED"]
<1>1. StoreTypeOK /\ ControlTypeOK
  BY TypeParts
<1>2. task \in Tasks /\ copy \in Checkpoint
  BY <1>1, RowType DEF QueueRow, StoreTypeOK
<1>3. new \in Checkpoint /\ new.version = copy.version /\ Extends(copy, new)
  <2>1. copy \in Checkpoint /\ "QUEUED" \in WorkflowStatus
    BY <1>2 DEF WorkflowStatus
  <2> HIDE DEF copy
  <2> QED
    BY <2>1, StatusType, StatusExtends
<1>4. workflows' = [workflows EXCEPT ![task] = Saved(new)]
  BY DEF ReplayDeadLetter, replay_dead_letter
<1>5. replays' > replays
  BY <1>1, SMT DEF ReplayDeadLetter, ControlTypeOK
<1>6. queue' = [queue EXCEPT ![id] = NewRow(task)] /\ created' = created
  BY DEF ReplayDeadLetter, replay_dead_letter
<1>7. NewRow(task).task_id = task
  BY DEF NewRow
<1> HIDE DEF new
<1>8. Saved(new).version = copy.version + 1 /\ Extends(copy, Saved(new))
  BY <1>2, <1>3, SavedType, ExtendsSaved
<1>9. /\ workflows'[task] = Saved(new)
      /\ \A t \in Tasks \ {task} : workflows'[t] = workflows[t]
  BY <1>1, <1>2, <1>4 DEF StoreTypeOK
<1>10. StepShape
  BY <1>5, <1>8, <1>9 DEF StepShape, Advanced
<1>11. OnlyTask(task)
  BY <1>1, <1>6, <1>7, <1>9 DEF OnlyTask
<1> QED
  BY <1>10, <1>11

LEMMA CreateShape ==
  ASSUME TypeOK, OnlyCreated, NEW task \in Tasks, CreateIncident(task)
  PROVE  UNCHANGED workflows /\ created' = created \cup {task}
<1>1. workflows[task] = NewWorkflow
  BY DEF CreateIncident, OnlyCreated
<1>2. workflows' = [workflows EXCEPT ![task] = NewWorkflow] /\ created' = created \cup {task}
  BY DEF CreateIncident, create_workflow
<1>3. workflows \in [Tasks -> Checkpoint]
  BY TypeParts DEF StoreTypeOK
<1> QED
  BY <1>1, <1>2, <1>3

LEMMA CreateOnlyCreated ==
  ASSUME TypeOK, OnlyCreated, NEW task \in Tasks, CreateIncident(task),
         UNCHANGED <<wpc, delivery>>
  PROVE  OnlyCreated'
<1>1. UNCHANGED workflows /\ created' = created \cup {task}
  BY CreateShape
<1>2. \A i \in DOMAIN queue' : queue'[i].task_id \in created'
  BY <1>1, TypeParts, AppendedRow DEF CreateIncident, create_workflow, OnlyCreated
<1>3. UNCHANGED <<hpc, htask>>
  BY DEF CreateIncident, handlerVars
<1> QED
  BY <1>1, <1>2, <1>3 DEF OnlyCreated, Task

-----------------------------------------------------------------------------
(* Every step *)

\* A step in which no worker gets or changes a copy keeps the workers' copies fresh.
LEMMA WorkersFreshKept ==
  ASSUME StoreTypeOK, LocalTypeOK, CopiesFresh, StepShape, NEW w \in Workers,
         wpc'[w] = wpc[w], delivery'[w] = delivery[w], state'[w] = state[w]
  PROVE  OwnFresh(w)
<1> SUFFICES ASSUME wpc'[w] \in CopyPC PROVE FreshAfter(state'[w], delivery'[w].task_id)
  BY DEF OwnFresh
<1>1. Busy(w) /\ FreshCopy(state[w], Task(w))
  BY DEF CopiesFresh, Busy, CopyPC, RuntimePC
<1> QED
  BY <1>1, HeldTypes, FreshKept DEF Task

LEMMA CopiesFreshNext ==
  ASSUME \A w \in Workers : OwnFresh(w), HandlerFresh
  PROVE  CopiesFresh'
  BY DEF OwnFresh, HandlerFresh, FreshAfter, CopiesFresh, FreshCopy, Task

\* A step of the store, the clock or the API that leaves the workers where they stand.
LEMMA WorkersStill ==
  ASSUME TypeOK, CheckpointInv, StepShape, UNCHANGED <<wpc, localVars>>
  PROVE  (\A w \in Workers : OwnFresh(w)) /\ ResultInHand'
<1>1. StoreTypeOK /\ LocalTypeOK
  BY TypeParts
<1>2. \A w \in Workers : OwnFresh(w)
  BY <1>1, WorkersFreshKept DEF CheckpointInv, localVars
<1>3. ResultInHand'
  BY DEF CheckpointInv, ResultInHand, localVars
<1> QED
  BY <1>2, <1>3

LEMMA HandlersStill ==
  ASSUME TypeOK, CheckpointInv, StepShape, created \subseteq created',
         UNCHANGED <<hpc, htask, hstate>>
  PROVE  HandlerFresh /\ HandlersOnCreated
  BY TypeParts, HandlersFreshKept DEF CheckpointInv

LEMMA RunOnceInv ==
  ASSUME TypeOK, CheckpointInv, NEW w \in Workers, RunOnceStep(w), UNCHANGED handlerVars
  PROVE  StepShape /\ CheckpointInv'
<1>1. StoreTypeOK /\ LocalTypeOK /\ CopiesFresh /\ ResultInHand /\ OnlyCreated
  BY TypeParts DEF CheckpointInv
<1>2. StepShape /\ OwnFresh(w)
  BY <1>1, RunOnceShape DEF CopiesFresh
<1>3. OthersKeep(w)
  BY <1>1, RunOnceOthersKeep
<1>4. \A v \in Workers : OwnFresh(v)
  BY <1>1, <1>2, <1>3, WorkersFreshKept DEF OthersKeep
<1>5. OnlyCreated'
  BY <1>1, RunOnceOnlyCreated
<1>6. HandlerFresh
  <2>1. \A h \in Handlers :
          hpc'[h] # "idle" => hpc[h] # "idle" /\ htask'[h] = htask[h] /\ hstate'[h] = hstate[h]
    BY DEF handlerVars
  <2>2. ASSUME NEW h \in Handlers, hpc'[h] # "idle"
        PROVE  FreshAfter(hstate'[h], htask'[h])
    BY <1>1, <1>2, <2>1, <2>2, TypeParts, HandlerTypes, FreshKept DEF CopiesFresh
  <2> QED
    BY <2>2 DEF HandlerFresh
<1>7. ResultInHand'
  BY <1>1, <1>3, RunOnceResult DEF ResultInHand, OthersKeep
<1> QED
  BY <1>2, <1>4, <1>5, <1>6, <1>7, CopiesFreshNext DEF CheckpointInv

LEMMA ClockInv ==
  ASSUME TypeOK, CheckpointInv, UNCHANGED handlerVars,
         \/ \E w \in Workers : Heartbeat(w) \/ WorkerCrash(w)
         \/ \E i \in DOMAIN queue : LeaseExpires(i)
  PROVE  StepShape /\ CheckpointInv'
<1>1. StoreTypeOK /\ LocalTypeOK /\ CopiesFresh /\ ResultInHand /\ OnlyCreated /\ HoldsRow
  BY TypeParts DEF CheckpointInv
<1>2. UNCHANGED <<created, workflows>>
  BY DEF Heartbeat, extend_lease, WorkerCrash, storeVars, LeaseExpires
<1>3. StepShape /\ created \subseteq created'
  BY <1>2, ShapeUnchanged
<1>4. HandlerFresh /\ HandlersOnCreated
  BY <1>3, HandlersStill DEF handlerVars
<1>5. RowsKept /\ DOMAIN queue' = DOMAIN queue
  <2>1. CASE UNCHANGED queue
    BY <2>1 DEF RowsKept
  <2>2. ASSUME NEW w \in Workers, Heartbeat(w) PROVE RowsKept /\ DOMAIN queue' = DOMAIN queue
    BY <1>1, <2>2, SameRows DEF Heartbeat, Suspended, HoldsRow
  <2> QED
    BY <1>1, <2>1, <2>2, SameRows DEF WorkerCrash, storeVars
<1>6. /\ \A w \in Workers : OwnFresh(w)
      /\ ResultInHand'
      /\ \A w \in Workers : wpc'[w] # "idle" => Task(w)' \in created
  <2>1. CASE UNCHANGED <<wpc, localVars>>
    BY <1>1, <1>3, <2>1, WorkersStill DEF OnlyCreated, Task, localVars
  <2>2. ASSUME NEW w \in Workers, WorkerCrash(w)
        PROVE  /\ \A v \in Workers : OwnFresh(v)
               /\ ResultInHand'
               /\ \A v \in Workers : wpc'[v] # "idle" => Task(v)' \in created
    <3>1. wpc'[w] = "idle"
      BY <1>1, <2>2 DEF WorkerCrash, Finish, Goto, LocalTypeOK
    <3>2. \A v \in Workers \ {w} : /\ wpc'[v] = wpc[v] /\ delivery'[v] = delivery[v]
                                   /\ state'[v] = state[v] /\ result'[v] = result[v]
      BY <1>1, <2>2 DEF WorkerCrash, Finish, Goto, LocalTypeOK
    <3>3. OwnFresh(w)
      BY <3>1 DEF OwnFresh, CopyPC, RuntimePC
    <3>4. \A v \in Workers \ {w} : OwnFresh(v)
      BY <1>1, <1>3, <3>2, WorkersFreshKept
    <3> QED
      BY <1>1, <3>1, <3>2, <3>3, <3>4 DEF ResultInHand, OnlyCreated, Task
  <2> QED
    BY <2>1, <2>2 DEF Heartbeat, LeaseExpires, workerVars, runtimeVars
<1>7. OnlyCreated'
  BY <1>1, <1>2, <1>4, <1>5, <1>6, OnlyCreatedSameStore DEF HandlersOnCreated
<1> QED
  BY <1>3, <1>4, <1>6, <1>7, CopiesFreshNext DEF CheckpointInv

LEMMA ControlInv ==
  ASSUME TypeOK, CheckpointInv, ControlStep, UNCHANGED workerVars
  PROVE  StepShape /\ CheckpointInv'
<1>1. /\ StoreTypeOK /\ LocalTypeOK /\ ControlTypeOK
      /\ CopiesFresh /\ ResultInHand /\ OnlyCreated
  BY TypeParts DEF CheckpointInv
<1>2. UNCHANGED <<wpc, localVars>> /\ UNCHANGED <<wpc, delivery>>
  BY DEF workerVars, runtimeVars, localVars
<1>3. ASSUME created' = created
      PROVE  \A w \in Workers : wpc'[w] # "idle" => Task(w)' \in created
  BY <1>1, <1>2 DEF OnlyCreated, Task
<1>4. ASSUME NEW task \in Tasks, CreateIncident(task) PROVE StepShape /\ CheckpointInv'
  <2>1. UNCHANGED workflows /\ created \subseteq created' /\ UNCHANGED <<hpc, htask, hstate>>
    BY <1>1, <1>4, CreateShape DEF CreateIncident, handlerVars
  <2>2. StepShape
    BY <2>1, ShapeUnchanged
  <2>3. OnlyCreated'
    BY <1>1, <1>2, <1>4, CreateOnlyCreated
  <2> QED
    BY <1>2, <2>1, <2>2, <2>3, WorkersStill, HandlersStill, CopiesFreshNext DEF CheckpointInv
<1>5. ASSUME NEW h \in Handlers, NEW task \in Tasks, NEW pc, Open(h, task, pc)
      PROVE  StepShape /\ CheckpointInv'
  <2>1. StepShape /\ HandlerFresh /\ HandlersOnCreated
    BY <1>1, <1>5, OpenFresh
  <2>2. UNCHANGED <<created, workflows, queue>>
    BY <1>5 DEF Open, storeVars
  <2>3. RowsKept /\ DOMAIN queue' = DOMAIN queue
    BY <2>2 DEF RowsKept
  <2>4. OnlyCreated'
    BY <1>1, <1>3, <2>1, <2>2, <2>3, OnlyCreatedSameStore DEF HandlersOnCreated
  <2> QED
    BY <1>2, <2>1, <2>4, WorkersStill, CopiesFreshNext DEF CheckpointInv
<1>6. ASSUME NEW h \in Handlers, HandlerStep(h) PROVE StepShape /\ CheckpointInv'
  <2>1. /\ StepShape /\ HandlerFresh /\ HandlersOnCreated
        /\ OnlyTask(htask[h]) /\ hpc[h] # "idle"
    BY <1>1, <1>6, HandlerStepShape
  <2>2. htask[h] \in created /\ created' = created
    BY <1>1, <2>1 DEF OnlyCreated, OnlyTask
  <2>3. OnlyCreated'
    BY <1>1, <1>3, <2>1, <2>2, OnlyCreatedKept DEF HandlersOnCreated
  <2> QED
    BY <1>2, <2>1, <2>3, WorkersStill, CopiesFreshNext DEF CheckpointInv
<1>7. ASSUME NEW id \in DOMAIN queue, ReplayDeadLetter(id) PROVE StepShape /\ CheckpointInv'
  <2>1. StepShape /\ OnlyTask(queue[id].task_id)
    BY <1>1, <1>7, ReplayShape
  <2>2. queue[id].task_id \in created /\ created' = created
    BY <1>1, <2>1 DEF OnlyCreated, OnlyTask
  <2>3. HandlerFresh /\ HandlersOnCreated
    BY <1>7, <2>1, <2>2, HandlersStill DEF ReplayDeadLetter
  <2>4. OnlyCreated'
    BY <1>1, <1>3, <2>1, <2>2, <2>3, OnlyCreatedKept DEF HandlersOnCreated
  <2> QED
    BY <1>2, <2>1, <2>3, <2>4, WorkersStill, CopiesFreshNext DEF CheckpointInv
<1> QED
  BY <1>4, <1>5, <1>6, <1>7 DEF ControlStep, Approve, Reject

LEMMA HandlerCrashInv ==
  ASSUME TypeOK, CheckpointInv, NEW h \in Handlers, HandlerCrash(h)
  PROVE  StepShape /\ CheckpointInv'
<1>1. /\ StoreTypeOK /\ LocalTypeOK /\ ControlTypeOK
      /\ CopiesFresh /\ ResultInHand /\ OnlyCreated
  BY TypeParts DEF CheckpointInv
<1>2. UNCHANGED <<created, workflows, queue>> /\ UNCHANGED <<wpc, localVars>>
  BY DEF HandlerCrash, storeVars, runtimeVars
<1>3. StepShape /\ created \subseteq created'
  BY <1>2, ShapeUnchanged
<1>4. \A g \in Handlers :
        hpc'[g] # "idle" => hpc[g] # "idle" /\ htask'[g] = htask[g] /\ hstate'[g] = hstate[g]
  BY <1>1 DEF HandlerCrash, Respond, ControlTypeOK
<1>5. HandlerFresh /\ HandlersOnCreated
  BY <1>1, <1>3, <1>4, HandlersFreshKept
<1>6. OnlyCreated'
  <2>1. RowsKept /\ DOMAIN queue' = DOMAIN queue
    BY <1>2 DEF RowsKept
  <2>2. \A w \in Workers : wpc'[w] # "idle" => Task(w)' \in created
    BY <1>1, <1>2 DEF OnlyCreated, Task, localVars
  <2> QED
    BY <1>1, <1>2, <1>5, <2>1, <2>2, OnlyCreatedSameStore DEF HandlersOnCreated
<1> QED
  BY <1>2, <1>3, <1>5, <1>6, WorkersStill, CopiesFreshNext DEF CheckpointInv

LEMMA CheckpointInvNext ==
  ASSUME TypeOK, CheckpointInv, [Next]_vars
  PROVE  StepShape /\ CheckpointInv'
<1>1. CASE WorkerNext /\ UNCHANGED handlerVars
  BY <1>1, RunOnceInv, ClockInv DEF WorkerNext
<1>2. CASE ControlStep /\ UNCHANGED workerVars
  BY <1>2, ControlInv
<1>3. CASE \E h \in Handlers : HandlerCrash(h)
  BY <1>3, HandlerCrashInv
<1>4. CASE UNCHANGED vars
  <2>1. UNCHANGED <<created, workflows, queue>> /\ UNCHANGED <<wpc, localVars>>
        /\ UNCHANGED <<hpc, htask, hstate>>
    BY <1>4 DEF vars, storeVars, workerVars, runtimeVars, handlerVars
  <2>2. StepShape
    BY <2>1, ShapeUnchanged
  <2>3. OnlyCreated'
    BY <2>1 DEF CheckpointInv, OnlyCreated, Task, localVars
  <2> QED
    BY <2>1, <2>2, <2>3, WorkersStill, HandlersStill, CopiesFreshNext DEF CheckpointInv
<1> QED
  BY <1>1, <1>2, <1>3, <1>4 DEF Next

LEMMA CheckpointInvInit == Init => CheckpointInv
<1> SUFFICES ASSUME Init PROVE CheckpointInv
  OBVIOUS
<1>1. CopiesFresh /\ ResultInHand
  BY DEF Init, WorkerInit, RuntimeInit, ControlInit, CopiesFresh, ResultInHand, CopyPC, RuntimePC
<1>2. queue = <<>> /\ DOMAIN queue = {}
  BY SMT DEF Init, StoreInit
<1>3. OnlyCreated
  BY <1>2 DEF Init, StoreInit, WorkerInit, RuntimeInit, ControlInit, OnlyCreated
<1> QED
  BY <1>1, <1>3 DEF CheckpointInv

-----------------------------------------------------------------------------
\* The invariant of the argument: copies that can still be saved are live and agree with
\* the row they are a copy of (process, run_once, approve, reject and their saves).
THEOREM CopiesStayFresh == Spec => []CheckpointInv
<1>1. TypeOK /\ CheckpointInv /\ [Next]_vars => CheckpointInv'
  BY CheckpointInvNext
<1> QED
  BY <1>1, CheckpointInvInit, TypeCorrect, PTL DEF Spec

LEMMA ShapeMonotone ==
  ASSUME StoreTypeOK, StepShape
  PROVE  \A task \in Tasks :
            LET old == workflows[task]
                new == workflows'[task]
            IN  /\ IsPrefix(old.tool_history, new.tool_history)
                /\ IsPrefix(old.progress_history, new.progress_history)
                /\ completed_steps(old) \subseteq completed_steps(new)
<1> SUFFICES ASSUME NEW task \in Tasks
             PROVE  Extends(workflows[task], workflows'[task])
  BY DEF Extends
<1>1. workflows[task] \in Checkpoint
  BY DEF StoreTypeOK
<1> QED
  BY <1>1, ExtendsSelf DEF StepShape, Advanced

\* No update is lost: whatever a stale worker or handler writes, no step takes a decision,
\* a piece of evidence or a completed step out of a checkpoint.
THEOREM CheckpointMonotoneHolds == Spec => CheckpointMonotone
<1>1. TypeOK /\ CheckpointInv /\ [Next]_vars =>
        \A task \in Tasks :
            LET old == workflows[task]
                new == workflows'[task]
            IN  /\ IsPrefix(old.tool_history, new.tool_history)
                /\ IsPrefix(old.progress_history, new.progress_history)
                /\ completed_steps(old) \subseteq completed_steps(new)
  BY CheckpointInvNext, ShapeMonotone, TypeParts
<1> QED
  BY <1>1, TypeCorrect, CopiesStayFresh, PTL DEF Spec, CheckpointMonotone

\* A workflow that is over changes only by a replay, whoever still holds an old copy of it.
THEOREM TerminalIsFinalHolds == Spec => TerminalIsFinal
<1>1. TypeOK /\ CheckpointInv /\ [Next]_vars =>
        \A task \in Tasks :
            terminal(workflows[task]) /\ workflows'[task] # workflows[task] => replays' > replays
  BY CheckpointInvNext DEF StepShape
<1> QED
  BY <1>1, TypeCorrect, CopiesStayFresh, PTL DEF Spec, TerminalIsFinal
=============================================================================
