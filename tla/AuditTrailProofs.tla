------------------------- MODULE AuditTrailProofs --------------------------
(***************************************************************************)
(* The events table tells the truth, for every set of tasks, calls,        *)
(* workers and handlers: every outcome is audited (OutcomesAudited), no    *)
(* guarded action is shown before its approval (ApprovalPrecedesAction),   *)
(* and a stream ends with the outcome it ends for (StreamEndsWithOutcome). *)
(*                                                                         *)
(* A step beside the events table is a step of the runtime, except that a  *)
(* process may die when it has only an event left to record; the           *)
(* invariants of the runtime hold all the same.  The event a step owes is  *)
(* read off what the step saves.                                           *)
(***************************************************************************)
EXTENDS AuditTrail, UndisturbedProofs

-----------------------------------------------------------------------------
(* The runtime beside the events table *)

RuntimeInv == TypeOK /\ CheckpointInv /\ LifecycleInv /\ SlotInv

\* A process that has nothing left to do but to record its event dies.
EventLost ==
    /\ crashes' = crashes + 1
    /\ UNCHANGED <<storeVars, runtimeVars, stalls, handlerVars>>

LEMMA AuditSteps ==
  ASSUME [AuditNext]_auditVars
  PROVE  [Next]_vars \/ EventLost
<1>1. ASSUME NEW w \in Workers, WorkerStep(w) PROVE Next
  BY <1>1 DEF WorkerStep, Next, WorkerNext
<1>2. ASSUME NEW h \in Handlers, RequestStep(h) PROVE Next
  BY <1>2 DEF RequestStep, Next, ControlStep
<1>3. ASSUME NEW p, Dies(p) PROVE Next \/ EventLost
  BY <1>3 DEF Dies, Next, WorkerNext, EventLost
<1>4. CASE OperatorStep
  BY <1>4 DEF OperatorStep, Next, ControlStep
<1>5. CASE LeaseStep
  BY <1>5 DEF LeaseStep, Next, WorkerNext
<1>6. CASE \/ \E p \in Processes : RecordEvent(p)
           \/ Subscribe \/ ReadState \/ ReadEvents
           \/ UNCHANGED auditVars
  BY <1>6 DEF RecordEvent, Subscribe, ReadState, ReadEvents, auditVars
<1> QED
  BY <1>1, <1>2, <1>3, <1>4, <1>5, <1>6 DEF AuditNext

LEMMA EventLostInv ==
  ASSUME RuntimeInv, EventLost
  PROVE  RuntimeInv'
<1> USE DEF RuntimeInv
<1>1. /\ UNCHANGED <<created, workflows, queue, tool_results, approvals, wpc, delivery, state,
                     call, result, effects, timeouts, stalls, hpc, htask, hstate, replays>>
      /\ crashes' = crashes + 1 /\ crashes \in Nat /\ stalls \in Nat
  BY DEF EventLost, storeVars, runtimeVars, localVars, handlerVars, TypeOK, WorkerTypeOK
<1>2. TypeOK'
  <2>1. crashes' \in Nat
    BY <1>1, SMT
  <2>2. StoreTypeOK' /\ LocalTypeOK' /\ EffectsTypeOK' /\ ControlTypeOK' /\ HoldsRow'
    BY <1>1, TypeParts
    DEF StoreTypeOK, LocalTypeOK, EffectsTypeOK, ControlTypeOK, HoldsRow, CallChosen
  <2>3. BudgetsTypeOK'
    BY <1>1, <2>1, TypeParts DEF BudgetsTypeOK
  <2> QED
    BY <2>2, <2>3, TypePartsNext
<1>3. CheckpointInv'
  BY <1>1
  DEF CheckpointInv, CopiesFresh, FreshCopy, ResultInHand, OnlyCreated, Task
<1>4. LifecycleInv'
  <2>1. Asked'
    BY <1>1, SMT DEF Asked
  <2> QED
    BY <1>1, <2>1
    DEF LifecycleInv, WorkerWay, HandlerWay, LedgerPerformed, QueuedPendingIsApproved,
        CurrentKey, Task, PendingKey
<1>5. SlotInv'
  <2>1. HeldRowTask' /\ AskingWaits' /\ EffectsOnCreated'
    BY <1>1 DEF SlotInv, HeldRowTask, AskingWaits, EffectsOnCreated, Task
  <2>2. Disturbances \in Nat /\ Disturbances' = Disturbances + 1
    BY <1>1, SMT DEF Disturbances
  <2>3. ASSUME NEW task, NEW c
        PROVE  Slots(task, c)' = Slots(task, c) /\ Candidates(task, c)' = Candidates(task, c)
    BY <1>1
    DEF Slots, Candidates, Actors, WorkerSlot, RowSlot, RequestSlot, Waiting, Claimable, Keeps,
        Task, CurrentKey
  <2>4. ASSUME NEW task \in Tasks PROVE SlotsBounded(task)'
    <3>1. SlotsBounded(task)
      BY DEF SlotInv
    <3>2. Cardinality(Slots(task, NoCall)) \in Nat
      BY <3>1, FS_CardinalityType DEF SlotsBounded
    <3>3. Cardinality(Slots(task, NoCall)) <= 1 + Disturbances'
      BY <2>2, <3>1, <3>2, SMT DEF SlotsBounded
    <3> QED
      BY <2>3, <3>1, <3>3 DEF SlotsBounded
  <2>5. ASSUME NEW task \in Tasks, NEW c \in Calls PROVE EffectsBounded(task, c)'
    <3>1. EffectsBounded(task, c)
      BY DEF SlotInv
    <3>2. PICK n : n = Cardinality(Candidates(task, c))
      OBVIOUS
    <3>3. n \in Nat
      BY <3>1, <3>2, FS_CardinalityType DEF EffectsBounded
    <3>4. PICK e \in Nat, t \in Nat : e = effects[<<task, c>>] /\ t = timeouts
      <4>1. <<task, c>> \in Key
        BY DEF Key
      <4> QED
        BY <4>1, TypeParts DEF EffectsTypeOK
    <3>5. e + n <= 1 + Disturbances' + t
      BY <2>2, <3>1, <3>2, <3>3, <3>4, SMT DEF EffectsBounded
    <3> QED
      BY <1>1, <2>3, <3>1, <3>2, <3>4, <3>5 DEF EffectsBounded
  <2> QED
    BY <2>1, <2>4, <2>5 DEF SlotInv
<1> QED
  BY <1>2, <1>3, <1>4, <1>5

\* The bounds on disturbances only grow.
LEMMA AuditBudgets ==
  ASSUME RuntimeInv, [AuditNext]_auditVars
  PROVE  /\ crashes' = 0 => crashes = 0
         /\ stalls' = 0 => stalls = 0
<1>1. CASE [Next]_vars
  BY <1>1, NextBudgets DEF RuntimeInv, BudgetsBack
<1>2. CASE EventLost
  BY <1>2, TypeParts, SMT DEF RuntimeInv, EventLost, BudgetsTypeOK
<1> QED
  BY <1>1, <1>2, AuditSteps

LEMMA RuntimeInvNext ==
  ASSUME RuntimeInv, [AuditNext]_auditVars
  PROVE  RuntimeInv'
<1>1. CASE [Next]_vars
  <2>1. TypeOK'
    BY <1>1, NextType DEF RuntimeInv
  <2> QED
    BY <1>1, <2>1, CheckpointInvNext, LifecycleInvNext, SlotInvNext DEF RuntimeInv
<1> QED
  BY <1>1, AuditSteps, EventLostInv

-----------------------------------------------------------------------------
(* What a save tells: the status a worker saves fits the place it saves it at *)

SavedFits(w) ==
    LET status == workflows'[Task(w)].status
    IN  /\ wpc[w] = "running" => status = "RUNNING"
        /\ wpc[w] = "pend" => status = "WAITING_FOR_APPROVAL"
        /\ wpc[w] = "record" => status = "QUEUED"
        /\ wpc[w] # "create_approval"
        /\ wpc[w] \in {"running", "pend", "record", "decide", "backend"} \/ status \in TerminalStatus

LEMMA SavedStatus ==
  ASSUME StoreTypeOK, NEW task \in Tasks, NEW new \in Checkpoint, save_workflow(task, new)
  PROVE  workflows'[task].status = new.status
<1>1. workflows'[task] = Saved(new)
  BY DEF save_workflow, StoreTypeOK
<1>2. Saved(new).status = new.status
  BY DEF Saved, Checkpoint
<1> QED
  BY <1>1, <1>2

LEMMA SavesStatus ==
  ASSUME NEW w \in Workers, Busy(w), NEW new \in Checkpoint, NEW pc, ~UNCHANGED workflows,
         \/ save_workflow(Task(w), new)
         \/ SaveAndReturn(w, new) \/ SaveAndRaise(w, new) \/ SaveAndGoto(w, new, pc)
  PROVE  workflows'[Task(w)].status = new.status
<1>1. save_workflow(Task(w), new)
  BY DEF SaveAndReturn, SaveAndRaise, SaveAndGoto, StaleSave, storeVars
<1> QED
  BY <1>1, SavedStatus, HeldTypes DEF Busy

LEMMA ProcessSaves ==
  ASSUME NEW w \in Workers, Busy(w), ResultInHand, ProcessStep(w), ~UNCHANGED workflows
  PROVE  SavedFits(w)
<1> USE DEF SavedFits
<1>1. state[w] \in Checkpoint /\ wpc[w] \in SavePC
  BY HeldTypes, ProcessWriter DEF Busy
<1>2. ASSUME NEW status \in WorkflowStatus, NEW pc, NEW new, new = [state[w] EXCEPT !.status = status],
             SaveAndReturn(w, new) \/ SaveAndRaise(w, new) \/ SaveAndGoto(w, new, pc)
      PROVE  workflows'[Task(w)].status = status
  BY <1>1, <1>2, StatusFields, SavesStatus
<1>3. CASE SaveRunning(w)
  BY <1>2, <1>3 DEF SaveRunning, WorkflowStatus
<1>4. CASE ModelFailsRetryably(w) \/ \E c \in Calls : DecideTool(w, c)
  BY <1>4 DEF ModelFailsRetryably, DecideTool
<1>5. CASE DecideComplete(w)
  BY <1>5 DEF DecideComplete
<1>6. CASE DecideFail(w)
  BY <1>6 DEF DecideFail
<1>7. CASE PolicyDenied(w)
  BY <1>2, <1>7 DEF PolicyDenied, Fail, WorkflowStatus, TerminalStatus
<1>8. CASE SaveWaiting(w)
  <2>1. PICK new : new = [state[w] EXCEPT !.status = "WAITING_FOR_APPROVAL", !.pending_action = call[w]]
    OBVIOUS
  <2>2. new \in Checkpoint /\ new.status = "WAITING_FOR_APPROVAL"
    BY <1>1, <2>1, PendingType, HeldTypes DEF WorkflowStatus, Checkpoint
  <2> QED
    BY <1>8, <2>1, <2>2, SavesStatus DEF SaveWaiting
<1>9. CASE BackendFailsRetryably(w) \/ BackendTimesOut(w) \/ BackendFailsPermanently(w)
  BY <1>9 DEF BackendFailsRetryably, BackendTimesOut, BackendFailsPermanently
<1>10. CASE RecordResult(w)
  <2>1. result[w] \in Results
    BY <1>10, HeldTypes DEF RecordResult, ResultInHand
  <2>2. PICK new : new = Completed(state[w], call[w].tool, result[w])
    OBVIOUS
  <2>3. new \in Checkpoint /\ new.status = "QUEUED"
    BY <1>1, <2>1, <2>2, CompletedFields
  <2> QED
    BY <1>10, <2>2, <2>3, SavesStatus DEF RecordResult
<1>11. CASE Load(w) \/ ModelFailsPermanently(w) \/ CreateApproval(w) \/ ResumeApprovedAction(w)
            \/ LookupResult(w) \/ SaveToolResult(w) \/ \E r \in Results : BackendSucceeds(w, r)
  BY <1>11 DEF Load, ModelFailsPermanently, CreateApproval, ResumeApprovedAction, LookupResult,
               SaveToolResult, BackendSucceeds, storeVars, create_approval, save_tool_result
<1> QED
  BY <1>3, <1>4, <1>5, <1>6, <1>7, <1>8, <1>9, <1>10, <1>11 DEF ProcessStep

LEMMA WorkerSaves ==
  ASSUME StoreTypeOK, LocalTypeOK, ResultInHand, NEW w \in Workers, RunOnceStep(w),
         ~UNCHANGED workflows
  PROVE  SavedFits(w)
<1>1. CASE \E i \in DOMAIN queue : Claim(w, i)
  BY <1>1 DEF Claim, claim
<1>2. CASE ProcessStep(w)
  BY <1>2, StepBusy, ProcessSaves
<1>3. CASE ReportStep(w)
  <2>1. EndWrites(w, Task(w))
    BY <1>3, StepBusy, EndWriter
  <2> QED
    BY <2>1 DEF EndWrites, DeadSave, PermanentSave, SavedFits, TerminalStatus
<1> QED
  BY <1>1, <1>2, <1>3 DEF RunOnceStep, ReportStep

-----------------------------------------------------------------------------
(* The event a step owes *)

\* The events a process records after its step.
OwedType == EventType \ {"WORKFLOW_CREATED", "DLQ_REPLAYED"}
OwedEvent == [type : OwedType, call : Calls \cup {NoCall}]

LEMMA AboutType ==
  ASSUME NEW type \in OwedType, NEW c \in Calls \cup {NoCall}
  PROVE  /\ About(type, c) \in OwedEvent
         /\ About(type, c).type = type /\ About(type, c).call = c
BY DEF About, OwedEvent

LEMMA OwedOpensNothing ==
  /\ OwedEvent \subseteq Event
  /\ CreatedEvent \in Event /\ ReplayedEvent \in Event
  /\ \A e \in OwedEvent : e \notin {CreatedEvent, ReplayedEvent}
BY DEF OwedEvent, OwedType, Event, EventType, CreatedEvent, ReplayedEvent, About

\* Worker w ends the incident it works on.
Concluded(w) ==
    terminal(workflows'[Task(w)]) /\ workflows'[Task(w)] # workflows[Task(w)]

WorkerOwes(w, event) ==
    \/ event = NoEvent /\ ~Concluded(w)
    \/ \E e \in OwedEvent :
        /\ event = <<Task(w), e>>
        /\ Concluded(w) => e = About(Outcome[workflows'[Task(w)].status], NoCall)
        /\ e.type # "APPROVAL_GRANTED"
        /\ e.type = "TOOL_COMPLETED" => wpc[w] = "record" /\ e.call = call[w]

RequestOwes(h, event) ==
    \/ event = NoEvent /\ UNCHANGED workflows
    \/ /\ ApproveSave(h) /\ event = GrantedEvent(h)
       /\ workflows'[htask[h]].status = "QUEUED"
    \/ /\ RejectSave(h) /\ event = RejectedEvent(h)
       /\ workflows'[htask[h]].status = "HUMAN_REJECTED"

LEMMA WorkerEvents ==
  ASSUME TypeOK, ResultInHand, NEW w \in Workers, RunOnceStep(w)
  PROVE  WorkerOwes(w, WorkerEvent(w))
<1> DEFINE old == workflows[Task(w)]
           new == workflows'[Task(w)]
<1>1. new # old => SavedFits(w)
  BY WorkerSaves, TypeParts
<1>2. CASE Silent(w)
  <2>1. ~Concluded(w)
    BY <1>1, <1>2 DEF Silent, Concluded, SavedFits, terminal, TerminalStatus
  <2> QED
    BY <1>2, <2>1 DEF WorkerEvent, WorkerOwes
<1>3. CASE ~Silent(w)
  <2> DEFINE ends == wpc[w] # "create_approval" /\ new.status \in TerminalStatus
             event == IF ends THEN About(Outcome[new.status], NoCall)
                      ELSE About(PlaceEvent[wpc[w]], call[w])
  <2>1. WorkerEvent(w) = <<Task(w), event>>
    BY <1>3 DEF WorkerEvent
  <2>2. \/ wpc[w] = "create_approval" /\ new = old
        \/ wpc[w] = "record" /\ new.status = "QUEUED"
        \/ ends /\ wpc[w] # "record"
        \/ wpc[w] \in {"decide", "backend"} /\ new.status \notin TerminalStatus
    BY <1>1, <1>3 DEF Silent, SavedFits, TerminalStatus
  <2>3. call[w] \in Calls \cup {NoCall}
    BY TypeParts DEF LocalTypeOK
  <2>4. ASSUME NEW type \in OwedType, type # "APPROVAL_GRANTED", event = About(type, call[w]),
               ~Concluded(w), type = "TOOL_COMPLETED" => wpc[w] = "record"
        PROVE  WorkerOwes(w, WorkerEvent(w))
    BY <2>1, <2>3, <2>4, AboutType DEF WorkerOwes
  <2>5. CASE wpc[w] = "create_approval" /\ new = old
    BY <2>4, <2>5 DEF PlaceEvent, OwedType, EventType, Concluded
  <2>6. CASE wpc[w] = "record" /\ new.status = "QUEUED"
    BY <2>4, <2>6 DEF PlaceEvent, OwedType, EventType, Concluded, terminal, TerminalStatus
  <2>7. CASE ends /\ wpc[w] # "record"
    <3>1. /\ Outcome[new.status] \in OwedType
          /\ Outcome[new.status] \notin {"APPROVAL_GRANTED", "TOOL_COMPLETED"}
      BY <2>7 DEF Outcome, TerminalStatus, OwedType, EventType
    <3>2. event = About(Outcome[new.status], NoCall)
      BY <2>7
    <3> QED
      BY <2>1, <3>1, <3>2, AboutType DEF WorkerOwes
  <2>8. CASE wpc[w] \in {"decide", "backend"} /\ new.status \notin TerminalStatus
    BY <2>4, <2>8 DEF PlaceEvent, OwedType, EventType, Concluded, terminal
  <2> QED
    BY <2>2, <2>5, <2>6, <2>7, <2>8
<1> QED
  BY <1>2, <1>3

LEMMA RequestEvents ==
  ASSUME TypeOK, NEW h \in Handlers,
         HandlerStep(h) \/ \E task \in Tasks : Approve(h, task) \/ Reject(h, task)
  PROVE  RequestOwes(h, HandlerEvent(h))
<1> USE DEF RequestOwes, HandlerEvent
<1>1. htask[h] \in Tasks /\ hstate[h] \in Checkpoint /\ StoreTypeOK
  BY HandlerTypes, TypeParts
<1>2. CASE ApproveSave(h)
  <2>1. CASE UNCHANGED workflows
    BY <1>2, <2>1 DEF ApproveSave
  <2>2. CASE ~UNCHANGED workflows
    <3>1. PICK new : new = [hstate[h] EXCEPT !.status = "QUEUED"]
      OBVIOUS
    <3>2. new \in Checkpoint /\ new.status = "QUEUED"
      BY <1>1, <3>1, StatusFields DEF WorkflowStatus
    <3>3. save_workflow(htask[h], new)
      BY <1>2, <2>2, <3>1 DEF ApproveSave, StaleRequest, storeVars
    <3>4. workflows'[htask[h]].status = "QUEUED"
      BY <1>1, <3>2, <3>3, SavedStatus
    <3> QED
      BY <1>2, <2>2, <3>4 DEF ApproveSave
  <2> QED
    BY <2>1, <2>2
<1>3. CASE RejectSave(h)
  <2>1. CASE UNCHANGED workflows
    BY <1>3, <2>1 DEF RejectSave
  <2>2. CASE ~UNCHANGED workflows
    <3>1. PICK new : new = [hstate[h] EXCEPT !.status = "HUMAN_REJECTED", !.pending_action = NoCall]
      OBVIOUS
    <3>2. new \in Checkpoint /\ new.status = "HUMAN_REJECTED"
      BY <1>1, <3>1, PendingType DEF WorkflowStatus, Checkpoint
    <3>3. save_workflow(htask[h], new)
      BY <1>3, <2>2, <3>1 DEF RejectSave, StaleRequest, storeVars
    <3>4. workflows'[htask[h]].status = "HUMAN_REJECTED"
      BY <1>1, <3>2, <3>3, SavedStatus
    <3> QED
      BY <1>3, <2>2, <3>4 DEF RejectSave
  <2> QED
    BY <2>1, <2>2
<1>4. CASE ApproveResolve(h) \/ RejectResolve(h) \/ ApproveEnqueue(h)
           \/ \E task \in Tasks : Approve(h, task) \/ Reject(h, task)
  <2>1. UNCHANGED workflows /\ hpc[h] \notin {"approve_save", "reject_save"}
    BY <1>4 DEF ApproveResolve, RejectResolve, ApproveEnqueue, Approve, Reject, Open, Resolve,
                resolve_approval, enqueue, storeVars
  <2> QED
    BY <2>1
<1> QED
  BY <1>2, <1>3, <1>4 DEF HandlerStep

-----------------------------------------------------------------------------
(* The types of the events table and of the stream *)

Snapshot == [version : Nat, status : WorkflowStatus, events : Nat]

Subscriber == [pc : {"closed", "state", "events", "ended"}, read : Snapshot, sent : Snapshot]

AuditTypes ==
    /\ events \in [Tasks -> Seq(Event)]
    /\ owed \in [Processes -> {NoEvent} \cup Tasks \X OwedEvent]
    /\ stream \in Subscriber

LEMMA OweType ==
  ASSUME AuditTypes, NEW p \in Processes, NEW event \in {NoEvent} \cup Tasks \X OwedEvent,
         Owe(p, event)
  PROVE  /\ owed' \in [Processes -> {NoEvent} \cup Tasks \X OwedEvent]
         /\ owed'[p] = event
         /\ \A q \in Processes \ {p} : owed'[q] = owed[q]
BY DEF AuditTypes, Owe

LEMMA RecordType ==
  ASSUME AuditTypes, NEW task \in Tasks, NEW event \in Event, Record(task, event)
  PROVE  /\ events' \in [Tasks -> Seq(Event)]
         /\ events'[task] = Append(events[task], event)
         /\ \A t \in Tasks \ {task} : events'[t] = events[t]
<1>1. events[task] \in Seq(Event)
  BY DEF AuditTypes
<1>2. Append(events[task], event) \in Seq(Event)
  BY <1>1
<1> QED
  BY <1>2 DEF AuditTypes, Record

LEMMA WorkerOwesType ==
  ASSUME TypeOK, NEW w \in Workers, NEW event, WorkerOwes(w, event)
  PROVE  event \in {NoEvent} \cup Tasks \X OwedEvent
<1>1. Task(w) \in Tasks
  BY DEF TypeOK, WorkerTypeOK, RuntimeTypeOK, Delivery, Task
<1> QED
  BY <1>1 DEF WorkerOwes

LEMMA RequestOwesType ==
  ASSUME TypeOK, NEW h \in Handlers, NEW event, RequestOwes(h, event)
  PROVE  event \in {NoEvent} \cup Tasks \X OwedEvent
<1>1. htask[h] \in Tasks
  BY HandlerTypes, TypeParts
<1>2. hstate[h].pending_action \in Calls \cup {NoCall}
  BY HandlerTypes, TypeParts DEF Checkpoint
<1>3. {"APPROVAL_GRANTED", "APPROVAL_REJECTED"} \subseteq OwedType
  BY DEF OwedType, EventType
<1> QED
  BY <1>1, <1>2, <1>3, AboutType DEF RequestOwes, GrantedEvent, RejectedEvent

LEMMA EventInHand ==
  ASSUME AuditTypes, NEW p \in Processes, ~Free(p)
  PROVE  /\ owed[p][1] \in Tasks /\ owed[p][2] \in OwedEvent /\ owed[p][2] \in Event
         /\ owed[p] = <<owed[p][1], owed[p][2]>>
<1>1. owed[p] \in Tasks \X OwedEvent
  BY DEF AuditTypes, Free
<1> QED
  BY <1>1, OwedOpensNothing

\* What a step does to the events table and to what the processes owe.
AuditMove ==
    \/ \E w \in Workers :
        /\ RunOnceStep(w) /\ Free(w) /\ WorkerOwes(w, owed'[w])
        /\ \A q \in Processes \ {w} : owed'[q] = owed[q]
        /\ events' = events
        /\ UNCHANGED handlerVars
    \/ \E h \in Handlers :
        /\ HandlerStep(h) \/ \E task \in Tasks : Approve(h, task) \/ Reject(h, task)
        /\ Free(h) /\ RequestOwes(h, owed'[h])
        /\ \A q \in Processes \ {h} : owed'[q] = owed[q]
        /\ events' = events
        /\ UNCHANGED workerVars
    \/ \E p \in Processes :
        /\ ~Free(p) /\ owed'[p] = NoEvent
        /\ \A q \in Processes \ {p} : owed'[q] = owed[q]
        /\ events'[owed[p][1]] = Append(events[owed[p][1]], owed[p][2])
        /\ \A t \in Tasks \ {owed[p][1]} : events'[t] = events[t]
        /\ UNCHANGED vars
    \/ /\ crashes' = crashes + 1
       /\ UNCHANGED <<workflows, created, approvals, replays, events>>
       /\ \A q \in Processes : owed'[q] \in {owed[q], NoEvent}
    \/ \E task \in Tasks :
        /\ \/ CreateIncident(task) /\ events'[task] = Append(events[task], CreatedEvent)
           \/ /\ \E id \in DOMAIN queue : ReplayDeadLetter(id) /\ queue[id].task_id = task
              /\ events'[task] = Append(events[task], ReplayedEvent)
        /\ \A t \in Tasks \ {task} : events'[t] = events[t]
        /\ owed' = owed
        /\ UNCHANGED workerVars
    \/ UNCHANGED <<workflows, created, approvals, replays, events, owed, hpc, htask>>

LEMMA AuditMoves ==
  ASSUME RuntimeInv, AuditTypes, [AuditNext]_auditVars
  PROVE  /\ events' \in [Tasks -> Seq(Event)]
         /\ owed' \in [Processes -> {NoEvent} \cup Tasks \X OwedEvent]
         /\ AuditMove
<1> DEFINE Goal == /\ events' \in [Tasks -> Seq(Event)]
                   /\ owed' \in [Processes -> {NoEvent} \cup Tasks \X OwedEvent]
                   /\ AuditMove
<1>1. ASSUME NEW w \in Workers, WorkerStep(w) PROVE Goal
  <2>1. PICK event : event = WorkerEvent(w)
    OBVIOUS
  <2>2. WorkerOwes(w, event)
    BY <1>1, <2>1, WorkerEvents DEF WorkerStep, RuntimeInv, CheckpointInv
  <2>3. event \in {NoEvent} \cup Tasks \X OwedEvent
    BY <2>2, WorkerOwesType DEF RuntimeInv
  <2>4. w \in Processes /\ Owe(w, event)
    BY <1>1, <2>1 DEF WorkerStep, Processes
  <2>5. /\ owed' \in [Processes -> {NoEvent} \cup Tasks \X OwedEvent]
        /\ owed'[w] = event /\ \A q \in Processes \ {w} : owed'[q] = owed[q]
    BY <2>3, <2>4, OweType
  <2> QED
    BY <1>1, <2>2, <2>5 DEF WorkerStep, AuditMove, AuditTypes
<1>2. ASSUME NEW h \in Handlers, RequestStep(h) PROVE Goal
  <2>1. PICK event : event = HandlerEvent(h)
    OBVIOUS
  <2>2. RequestOwes(h, event)
    BY <1>2, <2>1, RequestEvents DEF RequestStep, RuntimeInv
  <2>3. event \in {NoEvent} \cup Tasks \X OwedEvent
    BY <2>2, RequestOwesType DEF RuntimeInv
  <2>4. h \in Processes /\ Owe(h, event)
    BY <1>2, <2>1 DEF RequestStep, Processes
  <2>5. /\ owed' \in [Processes -> {NoEvent} \cup Tasks \X OwedEvent]
        /\ owed'[h] = event /\ \A q \in Processes \ {h} : owed'[q] = owed[q]
    BY <2>3, <2>4, OweType
  <2> QED
    BY <1>2, <2>2, <2>5 DEF RequestStep, AuditMove, AuditTypes
<1>3. ASSUME NEW p \in Processes, RecordEvent(p) PROVE Goal
  <2>1. ~Free(p) /\ Record(owed[p][1], owed[p][2]) /\ Owe(p, NoEvent) /\ UNCHANGED vars
    BY <1>3 DEF RecordEvent
  <2>2. /\ owed' \in [Processes -> {NoEvent} \cup Tasks \X OwedEvent]
        /\ owed'[p] = NoEvent /\ \A q \in Processes \ {p} : owed'[q] = owed[q]
    BY <2>1, OweType
  <2>3. /\ events' \in [Tasks -> Seq(Event)]
        /\ events'[owed[p][1]] = Append(events[owed[p][1]], owed[p][2])
        /\ \A t \in Tasks \ {owed[p][1]} : events'[t] = events[t]
    BY <2>1, EventInHand, RecordType
  <2> QED
    BY <2>1, <2>2, <2>3 DEF AuditMove
<1>4. ASSUME NEW p \in Processes, Dies(p) PROVE Goal
  <2>1. /\ owed' \in [Processes -> {NoEvent} \cup Tasks \X OwedEvent]
        /\ owed'[p] = NoEvent /\ \A q \in Processes \ {p} : owed'[q] = owed[q]
    BY <1>4, OweType DEF Dies
  <2>2. crashes' = crashes + 1 /\ UNCHANGED <<workflows, created, approvals, replays, events>>
    BY <1>4
    DEF Dies, WorkerCrash, HandlerCrash, Respond, storeVars, handlerVars
  <2> QED
    BY <2>1, <2>2 DEF AuditMove, AuditTypes
<1>5. CASE OperatorStep
  <2>1. CASE \E task \in Tasks : CreateIncident(task) /\ Record(task, CreatedEvent)
    <3>1. PICK task \in Tasks : CreateIncident(task) /\ Record(task, CreatedEvent)
      BY <2>1
    <3>2. /\ events' \in [Tasks -> Seq(Event)]
          /\ events'[task] = Append(events[task], CreatedEvent)
          /\ \A t \in Tasks \ {task} : events'[t] = events[t]
      BY <3>1, RecordType, OwedOpensNothing
    <3> QED
      BY <1>5, <3>1, <3>2 DEF OperatorStep, AuditMove, AuditTypes
  <2>2. CASE \E id \in DOMAIN queue :
                ReplayDeadLetter(id) /\ Record(queue[id].task_id, ReplayedEvent)
    <3>1. PICK id \in DOMAIN queue :
                ReplayDeadLetter(id) /\ Record(queue[id].task_id, ReplayedEvent)
      BY <2>2
    <3>2. PICK task \in Tasks : queue[id].task_id = task
      BY RowType, TypeParts DEF RuntimeInv, QueueRow
    <3>3. /\ events' \in [Tasks -> Seq(Event)]
          /\ events'[task] = Append(events[task], ReplayedEvent)
          /\ \A t \in Tasks \ {task} : events'[t] = events[t]
      BY <3>1, <3>2, RecordType, OwedOpensNothing
    <3> QED
      BY <1>5, <3>1, <3>2, <3>3 DEF OperatorStep, AuditMove, AuditTypes
  <2> QED
    BY <1>5, <2>1, <2>2 DEF OperatorStep
<1>6. CASE LeaseStep
  BY <1>6
  DEF LeaseStep, Heartbeat, extend_lease, LeaseExpires, workerVars, handlerVars, AuditMove,
      AuditTypes
<1>7. CASE Subscribe \/ ReadState \/ ReadEvents \/ UNCHANGED auditVars
  BY <1>7
  DEF Subscribe, ReadState, ReadEvents, auditVars, vars, storeVars, handlerVars, AuditMove,
      AuditTypes
<1> QED
  BY <1>1, <1>2, <1>3, <1>4, <1>5, <1>6, <1>7 DEF AuditNext

-----------------------------------------------------------------------------
(* A stream ends with the outcome it ends for *)

\* A snapshot is a state the incident was in.
Faithful(snapshot) ==
    /\ snapshot.version <= workflows[SomeTask].version
    /\ snapshot.version = workflows[SomeTask].version =>
            snapshot.status = workflows[SomeTask].status

StreamInv ==
    /\ Faithful(stream.sent)
    /\ stream.pc = "events" =>
        /\ Faithful(stream.read)
        /\ stream.sent.version <= stream.read.version
        /\ stream.sent.version = stream.read.version => stream.sent.status = stream.read.status
    /\ stream.pc = "ended" => stream.sent.status \in TerminalStatus

AuditInv == RuntimeInv /\ AuditTypes /\ StreamInv

\* Every change of a workflow makes a new version.
LEMMA VersionsGrow ==
  ASSUME RuntimeInv, [AuditNext]_auditVars
  PROVE  \/ workflows'[SomeTask] = workflows[SomeTask]
         \/ workflows'[SomeTask].version = workflows[SomeTask].version + 1
<1>1. CASE [Next]_vars
  BY <1>1, CheckpointInvNext, SomeTaskType DEF RuntimeInv, StepShape, Advanced
<1>2. CASE EventLost
  BY <1>2 DEF EventLost, storeVars
<1> QED
  BY <1>1, <1>2, AuditSteps

LEMMA FaithfulKept ==
  ASSUME RuntimeInv, [AuditNext]_auditVars, NEW snapshot \in Snapshot, Faithful(snapshot)
  PROVE  /\ snapshot.version <= workflows'[SomeTask].version
         /\ snapshot.version = workflows'[SomeTask].version =>
                snapshot.status = workflows'[SomeTask].status
<1>1. PICK v \in Nat : v = workflows[SomeTask].version
  BY SomeTaskType, TypeParts DEF RuntimeInv, StoreTypeOK, Checkpoint
<1>2. PICK s \in Nat : s = snapshot.version
  BY DEF Snapshot
<1>3. CASE workflows'[SomeTask] = workflows[SomeTask]
  BY <1>3 DEF Faithful
<1>4. CASE workflows'[SomeTask].version = v + 1
  <2>1. s <= v
    BY <1>1, <1>2 DEF Faithful
  <2>2. s <= v + 1 /\ s # v + 1
    BY <1>1, <1>2, <2>1, SMT
  <2> QED
    BY <1>2, <1>4, <2>2
<1> QED
  BY <1>1, <1>3, <1>4, VersionsGrow

LEMMA StreamNext ==
  ASSUME AuditInv, [AuditNext]_auditVars
  PROVE  stream' \in Subscriber /\ StreamInv'
<1> USE DEF AuditInv
<1>1. /\ stream \in Subscriber /\ stream.sent \in Snapshot /\ stream.read \in Snapshot
      /\ workflows[SomeTask] \in Checkpoint
  BY SomeTaskType, TypeParts DEF RuntimeInv, StoreTypeOK, AuditTypes, Subscriber
<1>2. CASE UNCHANGED stream
  BY <1>1, <1>2, FaithfulKept DEF StreamInv, Faithful
<1>3. CASE Subscribe
  <2>1. /\ stream' \in Subscriber /\ stream'.pc = "state"
        /\ stream'.sent = stream.sent
    BY <1>1, <1>3 DEF Subscribe, Subscriber
  <2> QED
    BY <1>1, <2>1, FaithfulKept DEF StreamInv, Faithful
<1>4. CASE ReadState
  <2>1. PICK read : read = [stream.read EXCEPT !.version = workflows[SomeTask].version,
                                               !.status = workflows[SomeTask].status]
    OBVIOUS
  <2>2. /\ read \in Snapshot /\ read.version = workflows[SomeTask].version
        /\ read.status = workflows[SomeTask].status
    BY <1>1, <2>1 DEF Snapshot, Checkpoint
  <2>3. UNCHANGED workflows
    BY <1>4 DEF ReadState, vars, storeVars
  <2>4. stream' = [stream EXCEPT !.pc = "events", !.read = read]
    BY <1>1, <1>4, <2>1 DEF ReadState, Subscriber
  <2>5. /\ stream' \in Subscriber /\ stream'.pc = "events"
        /\ stream'.sent = stream.sent /\ stream'.read = read
    BY <1>1, <2>2, <2>4 DEF Subscriber
  <2>6. read.version <= read.version
    BY <2>2 DEF Snapshot
  <2> QED
    BY <2>2, <2>3, <2>5, <2>6 DEF StreamInv, Faithful
<1>5. CASE ReadEvents
  <2>1. PICK snapshot : snapshot = [stream.read EXCEPT !.events = Len(events[SomeTask])]
    OBVIOUS
  <2>2. /\ snapshot \in Snapshot /\ snapshot.version = stream.read.version
        /\ snapshot.status = stream.read.status
    <3>1. Len(events[SomeTask]) \in Nat
      BY SomeTaskType DEF AuditTypes
    <3> QED
      BY <1>1, <2>1, <3>1 DEF Snapshot
  <2>3. UNCHANGED workflows /\ stream.pc = "events"
    BY <1>5 DEF ReadEvents, vars, storeVars
  <2>4. PICK sent : sent = IF Fingerprint(snapshot) # Fingerprint(stream.sent)
                           THEN snapshot ELSE stream.sent
    OBVIOUS
  <2>5. /\ sent \in {snapshot, stream.sent}
        /\ sent.status = snapshot.status
    <3>1. CASE Fingerprint(snapshot) # Fingerprint(stream.sent)
      BY <2>4, <3>1
    <3>2. CASE Fingerprint(snapshot) = Fingerprint(stream.sent)
      <4>1. snapshot.version = stream.sent.version
        BY <3>2 DEF Fingerprint
      <4> QED
        BY <2>2, <2>3, <2>4, <3>2, <4>1 DEF StreamInv
    <3> QED
      BY <3>1, <3>2
  <2>6. stream' = [pc |-> IF snapshot.status \in TerminalStatus THEN "ended" ELSE "state",
                   read |-> Nothing, sent |-> sent]
    BY <1>5, <2>1, <2>4 DEF ReadEvents
  <2>7. Nothing \in Snapshot
    BY DEF Nothing, Snapshot, WorkflowStatus
  <2>8. /\ stream' \in Subscriber /\ stream'.sent = sent
        /\ stream'.pc = IF snapshot.status \in TerminalStatus THEN "ended" ELSE "state"
    BY <1>1, <2>2, <2>5, <2>6, <2>7 DEF Subscriber
  <2>9. Faithful(sent)
    BY <2>2, <2>3, <2>5 DEF StreamInv, Faithful
  <2> QED
    BY <2>3, <2>5, <2>8, <2>9 DEF StreamInv, Faithful
<1> QED
  BY <1>2, <1>3, <1>4, <1>5
  DEF AuditNext, WorkerStep, RequestStep, RecordEvent, Dies, OperatorStep, LeaseStep, auditVars

LEMMA AuditInvInit == AuditInit => AuditInv
<1> SUFFICES ASSUME AuditInit PROVE AuditInv
  OBVIOUS
<1>1. RuntimeInv
  BY InitType, CheckpointInvInit, LifecycleInvInit, SlotInvInit DEF AuditInit, RuntimeInv
<1>2. Nothing \in Snapshot /\ stream = [pc |-> "closed", read |-> Nothing, sent |-> Nothing]
  BY DEF AuditInit, Nothing, Snapshot, WorkflowStatus
<1>3. AuditTypes
  <2>1. events \in [Tasks -> Seq(Event)]
    BY DEF AuditInit
  <2>2. owed \in [Processes -> {NoEvent} \cup Tasks \X OwedEvent]
    BY DEF AuditInit
  <2> QED
    BY <1>2, <2>1, <2>2 DEF AuditTypes, Subscriber
<1>4. StreamInv
  <2>1. workflows[SomeTask] = NewWorkflow
    BY SomeTaskType DEF AuditInit, Init, StoreInit
  <2> QED
    BY <1>2, <2>1 DEF StreamInv, Faithful, Nothing, NewWorkflow
<1> QED
  BY <1>1, <1>3, <1>4 DEF AuditInv

LEMMA AuditInvNext ==
  ASSUME AuditInv, [AuditNext]_auditVars
  PROVE  AuditInv'
<1>1. RuntimeInv'
  BY RuntimeInvNext DEF AuditInv
<1>2. AuditTypes'
  BY AuditMoves, StreamNext DEF AuditInv, AuditTypes
<1>3. StreamInv'
  BY StreamNext
<1> QED
  BY <1>1, <1>2, <1>3 DEF AuditInv

\* The runtime keeps its invariants beside the events table, and the table, what the
\* processes owe it and the stream are well formed.
THEOREM AuditInvHolds == AuditSpec => []AuditInv
<1>1. AuditInv /\ [AuditNext]_auditVars => AuditInv'
  BY AuditInvNext
<1> QED
  BY <1>1, AuditInvInit, PTL DEF AuditSpec

\* Every variable of the runtime, the events table and the stream has its type
\* (record_event, stream_incident).
THEOREM AuditTypesHold == AuditSpec => []AuditTypeOK
<1>1. ASSUME AuditInv PROVE AuditTypeOK
  <2>1. TypeOK /\ AuditTypes
    BY <1>1 DEF AuditInv, RuntimeInv
  <2>2. owed \in [Processes -> {NoEvent} \cup Tasks \X Event]
    <3>1. OwedEvent \subseteq Event
      BY OwedOpensNothing
    <3>2. {NoEvent} \cup Tasks \X OwedEvent \subseteq {NoEvent} \cup Tasks \X Event
      BY <3>1
    <3> QED
      BY <2>1, <3>2 DEF AuditTypes
  <2>3. /\ stream.pc \in {"closed", "state", "events", "ended"}
        /\ {stream.read, stream.sent} \subseteq [version : Nat, status : WorkflowStatus, events : Nat]
    BY <2>1 DEF AuditTypes, Subscriber, Snapshot
  <2> QED
    BY <2>1, <2>2, <2>3 DEF AuditTypeOK, AuditTypes
<1> QED
  BY <1>1, AuditInvHolds, PTL

\* A stream that ends has sent the state it ends for: equal versions are equal states, so
\* a snapshot that is not sent again is the one sent before (stream_incident).
THEOREM StreamEndsWithOutcomeHolds == AuditSpec => []StreamEndsWithOutcome
<1>1. AuditInv => StreamEndsWithOutcome
  BY DEF AuditInv, StreamInv, StreamEndsWithOutcome
<1> QED
  BY <1>1, AuditInvHolds, PTL

-----------------------------------------------------------------------------
(* Every outcome is audited *)

LEMMA AppendedTrail ==
  ASSUME NEW trail \in Seq(Event), NEW event \in Event
  PROVE  LET new == Append(trail, event)
         IN  /\ Len(trail) + 1 \in DOMAIN new /\ new[Len(trail) + 1] = event
             /\ \A i \in DOMAIN trail : i \in DOMAIN new /\ new[i] = trail[i] /\ i <= Len(trail) + 1
             /\ \A i \in DOMAIN new : i \in DOMAIN trail \/ i = Len(trail) + 1
OBVIOUS

\* An event that opens nothing is current, and takes nothing from what is.
LEMMA CurrentAppend ==
  ASSUME NEW trail \in Seq(Event), NEW event \in OwedEvent
  PROVE  /\ event \in Current(Append(trail, event))
         /\ Current(trail) \subseteq Current(Append(trail, event))
<1> DEFINE Opens(t, i) == i \in DOMAIN t /\ t[i] \in {CreatedEvent, ReplayedEvent}
<1>1. ASSUME NEW t, NEW e
      PROVE  e \in Current(t) <=>
                \E i \in DOMAIN t : t[i] = e /\ \A o : Opens(t, o) => o <= i
  BY DEF Current
<1>2. PICK new : new = Append(trail, event)
  OBVIOUS
<1>3. PICK last : last = Len(trail) + 1
  OBVIOUS
<1>4. /\ last \in DOMAIN new /\ new[last] = event
      /\ \A i \in DOMAIN trail : i \in DOMAIN new /\ new[i] = trail[i] /\ i <= last
      /\ \A i \in DOMAIN new : i \in DOMAIN trail \/ i = last
  BY <1>2, <1>3, AppendedTrail, OwedOpensNothing
<1>5. event \notin {CreatedEvent, ReplayedEvent}
  BY OwedOpensNothing
<1>6. ASSUME NEW o, Opens(new, o) PROVE Opens(trail, o) /\ o <= last
  BY <1>4, <1>5, <1>6
<1> HIDE DEF Opens
<1>7. event \in Current(new)
  BY <1>1, <1>4, <1>6
<1>8. ASSUME NEW e \in Current(trail) PROVE e \in Current(new)
  BY <1>1, <1>4, <1>6
<1> QED
  BY <1>2, <1>7, <1>8

\* An event in hand is an event.
LEMMA NoEventIsNone == \A task, event : <<task, event>> # NoEvent
BY DEF NoEvent

\* The outcome of the task is in the table since it was opened, or about to be.
Audited(task) ==
    terminal(workflows[task]) =>
        LET outcome == About(Outcome[workflows[task].status], NoCall)
        IN  \/ outcome \in Current(events[task])
            \/ \E p \in Processes : owed[p] = <<task, outcome>>

LEMMA EndedIsOwed ==
  ASSUME AuditInv, AuditMove, crashes' # crashes + 1, NEW task \in Tasks,
         workflows'[task] # workflows[task], terminal(workflows'[task])
  PROVE  \E p \in Processes : owed'[p] = <<task, About(Outcome[workflows'[task].status], NoCall)>>
<1>1. TypeOK /\ CheckpointInv /\ StoreTypeOK /\ LocalTypeOK /\ HoldsRow
  BY TypeParts DEF AuditInv, RuntimeInv
<1>2. ASSUME NEW w \in Workers, RunOnceStep(w), WorkerOwes(w, owed'[w])
      PROVE  \E p \in Processes : owed'[p] = <<task, About(Outcome[workflows'[task].status], NoCall)>>
  <2>1. task = Task(w)
    BY <1>1, <1>2, RunOnceOnlyTask DEF OnlyTask
  <2>2. w \in Processes /\ Concluded(w)
    BY <2>1 DEF Processes, Concluded
  <2> QED
    BY <1>2, <2>1, <2>2 DEF WorkerOwes
<1>3. ASSUME NEW h \in Handlers, RequestOwes(h, owed'[h]),
             HandlerStep(h) \/ \E t \in Tasks : Approve(h, t) \/ Reject(h, t)
      PROVE  \E p \in Processes : owed'[p] = <<task, About(Outcome[workflows'[task].status], NoCall)>>
  <2>1. HandlerStep(h)
    BY <1>3 DEF Approve, Reject, Open, storeVars
  <2>2. task = htask[h]
    BY <1>1, <2>1, TypeParts, HandlerStepShape DEF OnlyTask, CheckpointInv
  <2>3. /\ owed'[h] = <<task, About("APPROVAL_REJECTED", NoCall)>>
        /\ workflows'[task].status = "HUMAN_REJECTED"
    BY <1>3, <2>2 DEF RequestOwes, RejectedEvent, terminal, TerminalStatus
  <2> QED
    BY <2>3 DEF Processes, Outcome
<1>4. ASSUME NEW t \in Tasks, CreateIncident(t) PROVE FALSE
  BY <1>1, <1>4, CreateShape DEF CheckpointInv
<1>5. ASSUME NEW id \in DOMAIN queue, ReplayDeadLetter(id) PROVE FALSE
  <2>1. OnlyTask(queue[id].task_id)
    BY <1>1, <1>5, ReplayShape DEF CheckpointInv
  <2>2. workflows'[queue[id].task_id].status = "QUEUED"
    BY <1>1, <1>5, ReplayRow DEF Reopens
  <2> QED
    BY <2>1, <2>2 DEF OnlyTask, terminal, TerminalStatus
<1> QED
  BY <1>2, <1>3, <1>4, <1>5 DEF AuditMove, vars, storeVars

LEMMA AuditedStays ==
  ASSUME AuditInv, AuditMove, crashes' # crashes + 1, NEW task \in Tasks, Audited(task),
         workflows'[task] = workflows[task]
  PROVE  Audited(task)'
<1> SUFFICES ASSUME terminal(workflows[task])
             PROVE  LET outcome == About(Outcome[workflows[task].status], NoCall)
                    IN  \/ outcome \in Current(events'[task])
                        \/ \E p \in Processes : owed'[p] = <<task, outcome>>
  BY DEF Audited
<1>1. PICK outcome : outcome = About(Outcome[workflows[task].status], NoCall)
  OBVIOUS
<1>2. outcome \in Current(events[task]) \/ \E p \in Processes : owed[p] = <<task, outcome>>
  BY <1>1 DEF Audited
<1>3. \A p \in Processes : owed[p] = <<task, outcome>> => ~Free(p)
  BY NoEventIsNone DEF Free
<1>4. TypeOK /\ CheckpointInv /\ StoreTypeOK /\ events[task] \in Seq(Event)
  BY TypeParts DEF AuditInv, RuntimeInv, AuditTypes
<1>5. CASE \E p \in Processes :
            /\ ~Free(p)
            /\ \A q \in Processes \ {p} : owed'[q] = owed[q]
            /\ events'[owed[p][1]] = Append(events[owed[p][1]], owed[p][2])
            /\ \A t \in Tasks \ {owed[p][1]} : events'[t] = events[t]
  <2>1. PICK p \in Processes :
            /\ ~Free(p)
            /\ \A q \in Processes \ {p} : owed'[q] = owed[q]
            /\ events'[owed[p][1]] = Append(events[owed[p][1]], owed[p][2])
            /\ \A t \in Tasks \ {owed[p][1]} : events'[t] = events[t]
    BY <1>5
  <2>2. PICK t \in Tasks, e \in OwedEvent : owed[p] = <<t, e>>
    BY <2>1, EventInHand DEF AuditInv
  <2>3. t = owed[p][1] /\ e = owed[p][2]
    BY <2>2
  <2>4. Current(events[task]) \subseteq Current(events'[task])
    BY <1>4, <2>1, <2>2, <2>3, CurrentAppend
  <2>5. ASSUME owed[p] = <<task, outcome>> PROVE outcome \in Current(events'[task])
    <3>1. t = task /\ e = outcome
      BY <2>2, <2>5
    <3> QED
      BY <1>4, <2>1, <2>2, <2>3, <3>1, CurrentAppend
  <2> QED
    BY <1>1, <1>2, <2>1, <2>4, <2>5
<1>6. ASSUME NEW t \in Tasks, CreateIncident(t) PROVE t # task
  BY <1>4, <1>6 DEF CreateIncident, CheckpointInv, OnlyCreated, NewWorkflow, terminal, TerminalStatus
<1>7. ASSUME NEW id \in DOMAIN queue, ReplayDeadLetter(id) PROVE queue[id].task_id # task
  BY <1>4, <1>7, ReplayRow DEF Reopens, terminal, TerminalStatus
<1>8. ASSUME NEW p \in Processes, Free(p), \A q \in Processes \ {p} : owed'[q] = owed[q],
             events' = events
      PROVE  outcome \in Current(events'[task]) \/ \E q \in Processes : owed'[q] = <<task, outcome>>
  BY <1>2, <1>3, <1>8
<1>9. Workers \subseteq Processes /\ Handlers \subseteq Processes
  BY DEF Processes
<1> QED
  BY <1>1, <1>2, <1>5, <1>6, <1>7, <1>8, <1>9 DEF AuditMove

LEMMA OutcomesNext ==
  ASSUME AuditInv, OutcomesAudited, [AuditNext]_auditVars
  PROVE  OutcomesAudited'
<1> SUFFICES ASSUME crashes' = 0 PROVE \A task \in Tasks : Audited(task)'
  BY DEF OutcomesAudited, Audited
<1>2. crashes = 0 /\ crashes' # crashes + 1
  BY AuditBudgets, SMT DEF AuditInv
<1>3. AuditMove
  BY AuditMoves DEF AuditInv
<1>4. ASSUME NEW task \in Tasks PROVE Audited(task)'
  <2>1. Audited(task)
    BY <1>2 DEF OutcomesAudited, Audited
  <2>2. CASE workflows'[task] = workflows[task]
    BY <1>2, <1>3, <2>1, <2>2, AuditedStays
  <2>3. CASE workflows'[task] # workflows[task]
    BY <1>2, <1>3, <2>3, EndedIsOwed DEF Audited
  <2> QED
    BY <2>2, <2>3
<1> QED
  BY <1>4

\* Every outcome is audited as long as no process dies: who ends an incident owes its
\* event until it is in the table, and only opening the incident again makes an event old
\* (save_workflow and record_event in process, run_once, reject).
THEOREM OutcomesAuditedHolds == AuditSpec => []OutcomesAudited
<1>1. AuditInit => OutcomesAudited
  BY DEF AuditInit, Init, StoreInit, OutcomesAudited, terminal, TerminalStatus, NewWorkflow
<1>2. AuditInv /\ OutcomesAudited /\ [AuditNext]_auditVars => OutcomesAudited'
  BY OutcomesNext
<1> QED
  BY <1>1, <1>2, AuditInvHolds, PTL DEF AuditSpec

-----------------------------------------------------------------------------
(* While a human is asked nothing else goes on: the incident is frozen *)

Calm == crashes = 0 /\ stalls = 0

\* Nobody has anything to do for the task, unless a human answers.
Frozen(task) == Slots(task, NoCall) \subseteq {<<"waiting", task>>}

\* A handler saves the task as approved.
Released(task) ==
    \E h \in Handlers : ApproveSave(h) /\ htask[h] = task /\ ~UNCHANGED workflows

LEMMA CalmBefore ==
  ASSUME RuntimeInv, Calm', [AuditNext]_auditVars
  PROVE  Calm /\ crashes' # crashes + 1 /\ [Next]_vars
<1>1. Calm
  BY AuditBudgets DEF Calm
<1>2. crashes' # crashes + 1
  BY <1>1, SMT DEF Calm
<1> QED
  BY <1>1, <1>2, AuditSteps DEF EventLost

LEMMA OneSlot ==
  ASSUME SlotInv, Calm, NEW task \in Tasks,
         NEW x \in Slots(task, NoCall), NEW y \in Slots(task, NoCall)
  PROVE  x = y
<1>1. IsFiniteSet(Slots(task, NoCall)) /\ Cardinality(Slots(task, NoCall)) <= 1
  BY SMT DEF SlotInv, SlotsBounded, Disturbances, Calm
<1> QED
  BY <1>1, NoTwoOfOne

LEMMA WaitingFreezes ==
  ASSUME SlotInv', Calm', NEW task \in Tasks, Waiting(task)'
  PROVE  Frozen(task)'
<1>1. <<"waiting", task>> \in Slots(task, NoCall)'
  BY DEF Slots
<1>2. IsFiniteSet(Slots(task, NoCall)') /\ Cardinality(Slots(task, NoCall)') <= 1
  BY SMT DEF SlotInv, SlotsBounded, Disturbances, Calm
<1>3. \A x \in Slots(task, NoCall)' : x = <<"waiting", task>>
  BY <1>1, <1>2, NoTwoOfOne
<1> QED
  BY <1>3 DEF Frozen

LEMMA FrozenAlone ==
  ASSUME NEW task, Frozen(task)
  PROVE  /\ \A w \in Workers : ~WorkerSlot(task, NoCall, w)
         /\ \A i \in DOMAIN queue : ~RowSlot(task, i)
         /\ \A h \in Handlers : ~RequestSlot(task, h)
<1>1. \A w : <<"worker", w>> # <<"waiting", task>>
  OBVIOUS
<1>2. \A i : <<"row", i>> # <<"waiting", task>>
  OBVIOUS
<1>3. \A h : <<"request", h>> # <<"waiting", task>>
  OBVIOUS
<1> QED
  BY <1>1, <1>2, <1>3, SlotsMember DEF Frozen

\* A frozen task that changes is released, or it is over.
LEMMA FrozenChange ==
  ASSUME TypeOK, CheckpointInv, LifecycleInv, [Next]_vars, crashes' # crashes + 1,
         NEW task \in Tasks, Frozen(task), workflows'[task] # workflows[task]
  PROVE  \/ SlotsKept(task, NoCall) /\ ~Waiting(task)'
         \/ Released(task)
<1>1. /\ StoreTypeOK /\ LocalTypeOK /\ HoldsRow /\ ControlTypeOK /\ CopiesFresh /\ OnlyCreated
      /\ ~UNCHANGED workflows
  BY TypeParts DEF CheckpointInv
<1>2. ASSUME NEW w \in Workers, RunOnceStep(w), UNCHANGED handlerVars
      PROVE  SlotsKept(task, NoCall) /\ ~Waiting(task)'
  <2>1. Task(w) = task
    BY <1>1, <1>2, RunOnceOnlyTask DEF OnlyTask
  <2>2. CASE \E i \in DOMAIN queue : Claim(w, i)
    BY <1>1, <2>2 DEF Claim, claim
  <2>3. CASE ProcessStep(w)
    <3>1. wpc[w] \in SavePC
      BY <1>1, <2>3, ProcessWriter
    <3>2. wpc[w] = "save_result" => call[w] # NoCall
      BY <1>1, ModelsAssumption DEF LocalTypeOK, CallChosen, CallPC
    <3>3. WorkerSlot(task, NoCall, w)
      BY <2>1, <3>1, <3>2 DEF SavePC, WorkerSlot, SlotPC, RuntimePC
    <3> QED
      BY <3>3, FrozenAlone
  <2>4. CASE ReportStep(w)
    <3>1. Busy(w) /\ EndWrites(w, task)
      BY <1>1, <2>1, <2>4, StepBusy, EndWriter
    <3>2. ~Waiting(task)'
      BY <3>1 DEF EndWrites, Waiting
    <3>3. SlotsKept(task, NoCall)
      BY <1>1, <1>2, <3>1, RunOnceOthersKeep, ReloadSlots DEF EndWrites
    <3> QED
      BY <3>2, <3>3
  <2> QED
    BY <1>2, <2>2, <2>3, <2>4 DEF RunOnceStep, ReportStep
<1>3. CASE WorkerNext /\ UNCHANGED handlerVars
  BY <1>1, <1>2, <1>3
  DEF WorkerNext, Heartbeat, extend_lease, WorkerCrash, storeVars, LeaseExpires
<1>4. ASSUME NEW h \in Handlers, HandlerStep(h), UNCHANGED workerVars
      PROVE  (SlotsKept(task, NoCall) /\ ~Waiting(task)') \/ Released(task)
  <2>1. htask[h] = task
    BY <1>1, <1>4, HandlerStepShape DEF OnlyTask
  <2>2. CASE ApproveSave(h)
    BY <1>1, <2>1, <2>2 DEF Released
  <2>3. CASE RejectSave(h)
    <3>1. WorkersStay
      BY <1>4 DEF WorkersStay, workerVars, runtimeVars, localVars
    <3>2. SlotsKept(task, NoCall)
      BY <1>1, <2>3, <3>1, RejectSaveSlots
    <3>3. RequestOwes(h, HandlerEvent(h))
      BY <1>4, RequestEvents
    <3>4. workflows'[task].status = "HUMAN_REJECTED"
      BY <1>1, <2>1, <2>3, <3>3 DEF RequestOwes, RejectSave, ApproveSave
    <3> QED
      BY <3>2, <3>4 DEF Waiting
  <2>4. CASE ApproveResolve(h) \/ RejectResolve(h) \/ ApproveEnqueue(h)
    BY <1>1, <2>4
    DEF ApproveResolve, RejectResolve, ApproveEnqueue, Resolve, resolve_approval, enqueue, storeVars
  <2> QED
    BY <1>4, <2>2, <2>3, <2>4 DEF HandlerStep
<1>5. ASSUME NEW other \in Tasks, CreateIncident(other) PROVE FALSE
  BY <1>1, <1>5, CreateShape DEF CheckpointInv
<1>6. ASSUME NEW i \in DOMAIN queue, ReplayDeadLetter(i) PROVE FALSE
  <2>1. queue[i].task_id = task
    BY <1>1, <1>6, RowType DEF ReplayDeadLetter, replay_dead_letter, StoreTypeOK, QueueRow
  <2>2. RowSlot(task, i)
    BY <1>6, <2>1 DEF ReplayDeadLetter, replay_dead_letter, RowSlot
  <2> QED
    BY <2>2, FrozenAlone
<1>7. CASE ControlStep /\ UNCHANGED workerVars
  BY <1>1, <1>4, <1>5, <1>6, <1>7 DEF ControlStep, Approve, Reject, Open, storeVars
<1> QED
  BY <1>1, <1>3, <1>7 DEF Next, HandlerCrash, vars, storeVars

\* A frozen task stays so until a handler saves the approval.
LEMMA FrozenStep ==
  ASSUME RuntimeInv, SlotInv', Calm, Calm', [Next]_vars, NEW task \in created, Frozen(task)
  PROVE  \/ Frozen(task)' /\ (Waiting(task)' => workflows'[task] = workflows[task])
         \/ Released(task)
<1>1. /\ TypeOK /\ CheckpointInv /\ LifecycleInv /\ HeldRowTask /\ AskingWaits
      /\ crashes' # crashes + 1 /\ task \in Tasks
  BY SMT DEF RuntimeInv, SlotInv, Calm, TypeOK, StoreTypeOK
<1>2. CASE workflows'[task] # workflows[task]
  BY <1>1, <1>2, FrozenChange DEF SlotsKept, Frozen
<1>3. CASE workflows'[task] = workflows[task]
  <2>1. ~CreateIncident(task) /\ ~Recorded(task, NoCall)
    BY <1>1, ModelsAssumption
    DEF CreateIncident, Recorded, SaveToolResult, TypeOK, CallChosen, CallPC
  <2>2. SlotMove(task, NoCall)
    BY <1>1, <2>1, SlotMoves
  <2>3. Disturbances = 0 /\ Disturbances' = 0
    BY SMT DEF Calm, Disturbances
  <2>4. CASE SlotsKept(task, NoCall)
    BY <1>3, <2>4 DEF SlotsKept, Frozen
  <2>5. CASE SlotPassed(task, NoCall)
    <3>1. PICK x \in Slots(task, NoCall) : \E y :
              Slots(task, NoCall)' \subseteq (Slots(task, NoCall) \ {x}) \cup {y}
      BY <2>5 DEF SlotPassed
    <3>2. <<"waiting", task>> \in Slots(task, NoCall)
      BY <3>1 DEF Frozen
    <3>3. Waiting(task)
      BY <3>2 DEF Slots
    <3>4. Waiting(task)'
      BY <1>3, <3>3 DEF Waiting
    <3>5. Frozen(task)'
      BY <1>1, <3>4, WaitingFreezes
    <3> QED
      BY <1>3, <3>5
  <2> QED
    BY <2>2, <2>3, <2>4, <2>5, SMT DEF SlotMove
<1> QED
  BY <1>2, <1>3

-----------------------------------------------------------------------------
(* How events and approvals move *)

Granted(task, c) ==
    \E j \in DOMAIN events[task] : events[task][j] = About("APPROVAL_GRANTED", c)

\* The handler that released the task is about to record the approval of c.
Granting(task, c) ==
    \E h \in Handlers :
        /\ hpc[h] = "approve_enqueue" /\ htask[h] = task
        /\ owed[h] = <<task, About("APPROVAL_GRANTED", c)>>

LEMMA TrailStep ==
  ASSUME AuditInv, AuditMove, NEW task \in Tasks
  PROVE  \/ events'[task] = events[task]
         \/ \E event \in Event :
                /\ events'[task] = Append(events[task], event)
                /\ \/ event \in {CreatedEvent, ReplayedEvent}
                   \/ event \in OwedEvent /\ \E p \in Processes : owed[p] = <<task, event>>
<1>1. CASE \E p \in Processes :
            /\ ~Free(p)
            /\ events'[owed[p][1]] = Append(events[owed[p][1]], owed[p][2])
            /\ \A t \in Tasks \ {owed[p][1]} : events'[t] = events[t]
  <2>1. PICK p \in Processes :
            /\ ~Free(p)
            /\ events'[owed[p][1]] = Append(events[owed[p][1]], owed[p][2])
            /\ \A t \in Tasks \ {owed[p][1]} : events'[t] = events[t]
    BY <1>1
  <2>2. owed[p][2] \in Event /\ owed[p][2] \in OwedEvent /\ owed[p] = <<owed[p][1], owed[p][2]>>
    BY <2>1, EventInHand DEF AuditInv
  <2>3. PICK t, e : t = owed[p][1] /\ e = owed[p][2]
    OBVIOUS
  <2>4. CASE t = task
    BY <2>1, <2>2, <2>3, <2>4
  <2>5. CASE t # task
    BY <2>1, <2>3, <2>5
  <2> QED
    BY <2>4, <2>5
<1>2. {CreatedEvent, ReplayedEvent} \subseteq Event
  BY OwedOpensNothing
<1> QED
  BY <1>1, <1>2 DEF AuditMove

LEMMA GrantedKept ==
  ASSUME AuditInv, AuditMove, NEW task \in Tasks, NEW c, Granted(task, c)
  PROVE  Granted(task, c)'
<1>1. events[task] \in Seq(Event)
  BY DEF AuditInv, AuditTypes
<1>2. CASE events'[task] = events[task]
  BY <1>2 DEF Granted
<1>3. ASSUME NEW event \in Event, events'[task] = Append(events[task], event)
      PROVE  Granted(task, c)'
  <2>1. PICK j \in DOMAIN events[task] : events[task][j] = About("APPROVAL_GRANTED", c)
    BY DEF Granted
  <2>2. j \in DOMAIN events'[task] /\ events'[task][j] = About("APPROVAL_GRANTED", c)
    BY <1>1, <1>3, <2>1, AppendedTrail
  <2> QED
    BY <2>2 DEF Granted
<1> QED
  BY <1>2, <1>3, TrailStep

\* An approval is asked for by a worker and answered by a handler.
LEMMA ApprovalMoves ==
  ASSUME TypeOK, [Next]_vars, NEW key \in Key, approvals'[key] # approvals[key]
  PROVE  \/ \E w \in Workers :
                /\ CreateApproval(w) /\ CurrentKey(w) = key
                /\ approvals[key] = "NONE" /\ approvals'[key] = "PENDING"
         \/ \E h \in Handlers : PendingKey(h) = key /\ approvals[key] = "PENDING" /\ UNCHANGED workflows
<1>1. approvals \in [Key -> ApprovalStatus]
  BY TypeParts DEF StoreTypeOK
<1>2. ASSUME NEW w \in Workers, CreateApproval(w)
      PROVE  CurrentKey(w) = key /\ approvals[key] = "NONE" /\ approvals'[key] = "PENDING"
  BY <1>1, <1>2 DEF CreateApproval, create_approval
<1>3. ASSUME NEW w \in Workers, ProcessStep(w), ~CreateApproval(w) PROVE FALSE
  <2>1. ~BackendTimesOut(w)
    BY DEF BackendTimesOut, FailRetryably, SaveAndRaise, StaleSave, save_workflow, storeVars
  <2>2. ~\E r \in Results : BackendSucceeds(w, r)
    BY DEF BackendSucceeds, storeVars
  <2> QED
    BY <1>3, <2>1, <2>2, OtherProcessSteps
<1>4. ASSUME NEW w \in Workers, RunOnceStep(w), ~ProcessStep(w) PROVE FALSE
  BY <1>4
  DEF RunOnceStep, Claim, claim, Acknowledge, acknowledge, Enqueue, enqueue, RetryOrDeadLetter,
      retry_or_dead_letter, DeadLoad, DeadSave, PermanentAcknowledge, PermanentLoad,
      PermanentSave, Reload, SaveFinal, save_workflow, storeVars
<1>5. CASE WorkerNext
  <2>1. CASE \E w \in Workers : RunOnceStep(w)
    BY <1>2, <1>3, <1>4, <2>1
  <2> QED
    BY <1>5, <2>1 DEF WorkerNext, Heartbeat, extend_lease, WorkerCrash, LeaseExpires, storeVars
<1>6. ASSUME NEW h \in Handlers, HandlerStep(h)
      PROVE  PendingKey(h) = key /\ approvals[key] = "PENDING" /\ UNCHANGED workflows
  BY <1>1, <1>6
  DEF HandlerStep, ApproveResolve, RejectResolve, Resolve, resolve_approval, ApproveSave,
      RejectSave, StaleRequest, save_workflow, ApproveEnqueue, enqueue, storeVars
<1>7. CASE ControlStep
  BY <1>6, <1>7
  DEF ControlStep, CreateIncident, create_workflow, Approve, Reject, Open, ReplayDeadLetter,
      replay_dead_letter, storeVars
<1> QED
  BY <1>5, <1>6, <1>7 DEF Next, HandlerCrash, vars, storeVars

\* Who releases an incident has read it as it is.
LEMMA ReleaserFresh ==
  ASSUME RuntimeInv, NEW h \in Handlers, NEW task, ApproveSave(h), htask[h] = task,
         ~UNCHANGED workflows
  PROVE  /\ hpc[h] = "approve_save" /\ task \in Tasks
         /\ hstate[h] = workflows[task]
         /\ save_workflow(task, [hstate[h] EXCEPT !.status = "QUEUED"])
<1>1. /\ hpc[h] = "approve_save" /\ hstate[h] \in Checkpoint /\ task \in Tasks
      /\ FreshCopy(hstate[h], task)
  BY HandlerTypes, TypeParts DEF RuntimeInv, CheckpointInv, CopiesFresh, ApproveSave
<1>2. save_workflow(task, [hstate[h] EXCEPT !.status = "QUEUED"])
  BY DEF ApproveSave, StaleRequest, storeVars
<1>3. hstate[h].version = workflows[task].version
  BY <1>1, <1>2 DEF save_workflow, VersionMatches, Checkpoint
<1> QED
  BY <1>1, <1>2, <1>3 DEF FreshCopy

LEMMA ReleaseOwed ==
  ASSUME AuditInv, AuditMove, crashes' # crashes + 1, NEW task \in Tasks, Released(task),
         NEW c, workflows[task].pending_action = c
  PROVE  Granting(task, c)'
<1>1. PICK h \in Handlers : ApproveSave(h) /\ htask[h] = task /\ ~UNCHANGED workflows
  BY DEF Released
<1>2. TypeOK /\ CheckpointInv /\ StoreTypeOK /\ ControlTypeOK /\ CopiesFresh /\ OnlyCreated
  BY TypeParts DEF AuditInv, RuntimeInv, CheckpointInv
<1>3. hpc[h] = "approve_save" /\ hpc'[h] = "approve_enqueue"
  BY <1>1, <1>2 DEF ApproveSave, HGoto, StaleRequest, storeVars, ControlTypeOK
<1>4. PICK g \in Handlers :
          /\ HandlerStep(g) \/ \E t \in Tasks : Approve(g, t) \/ Reject(g, t)
          /\ RequestOwes(g, owed'[g])
  BY <1>1, <1>3 DEF AuditMove, handlerVars, vars, storeVars, CreateIncident, ReplayDeadLetter
<1>5. g = h
  <2>1. \A f \in Handlers \ {g} : hpc'[f] = hpc[f]
    BY <1>2, <1>4
    DEF HandlerStep, ApproveResolve, RejectResolve, Resolve, ApproveSave, RejectSave,
        StaleRequest, ApproveEnqueue, Approve, Reject, Open, HGoto, Respond, ControlTypeOK
  <2> QED
    BY <1>3, <2>1
<1>6. owed'[h] = <<task, About("APPROVAL_GRANTED", c)>>
  <2>1. hstate[h].pending_action = c
    BY <1>1, ReleaserFresh DEF AuditInv
  <2> QED
    BY <1>1, <1>3, <1>4, <1>5, <2>1 DEF RequestOwes, RejectSave, GrantedEvent
<1>7. htask'[h] = task
  BY <1>1, <1>3, <1>2 DEF ApproveSave, HGoto, StaleRequest, storeVars
<1> QED
  BY <1>3, <1>6, <1>7 DEF Granting

LEMMA GrantingStep ==
  ASSUME AuditInv, AuditMove, crashes' # crashes + 1, NEW task \in Tasks, NEW c,
         Granting(task, c)
  PROVE  Granting(task, c)' \/ Granted(task, c)'
<1>1. PICK h \in Handlers :
        /\ hpc[h] = "approve_enqueue" /\ htask[h] = task
        /\ owed[h] = <<task, About("APPROVAL_GRANTED", c)>>
  BY DEF Granting
<1>2. h \in Processes /\ ~Free(h)
  BY <1>1, NoEventIsNone DEF Processes, Free
<1>3. ControlTypeOK /\ events[task] \in Seq(Event) /\ About("APPROVAL_GRANTED", c) \in Event
  <2>1. owed[h] = <<task, owed[h][2]>> /\ owed[h][2] \in Event
    BY <1>1, <1>2, EventInHand DEF AuditInv
  <2>2. owed[h][2] = About("APPROVAL_GRANTED", c)
    BY <1>1
  <2> QED
    BY <2>1, <2>2, TypeParts DEF AuditInv, RuntimeInv, AuditTypes
<1>4. ASSUME owed'[h] = owed[h], hpc'[h] = hpc[h], htask'[h] = htask[h] PROVE Granting(task, c)'
  BY <1>1, <1>4 DEF Granting
<1>5. ASSUME NEW g \in Handlers, g # h,
             HandlerStep(g) \/ \E t \in Tasks : Approve(g, t) \/ Reject(g, t)
      PROVE  hpc'[h] = hpc[h] /\ htask'[h] = htask[h]
  BY <1>3, <1>5
  DEF HandlerStep, ApproveResolve, RejectResolve, Resolve, ApproveSave, RejectSave,
      StaleRequest, ApproveEnqueue, Approve, Reject, Open, HGoto, Respond, ControlTypeOK
<1>6. CASE events'[owed[h][1]] = Append(events[owed[h][1]], owed[h][2])
  <2>1. events'[task] = Append(events[task], About("APPROVAL_GRANTED", c))
    BY <1>1, <1>6
  <2> QED
    BY <1>3, <2>1, AppendedTrail DEF Granted
<1>7. ASSUME NEW t \in Tasks, CreateIncident(t) PROVE hpc'[h] = hpc[h] /\ htask'[h] = htask[h]
  BY <1>7 DEF CreateIncident, handlerVars
<1>8. ASSUME NEW id \in DOMAIN queue, ReplayDeadLetter(id)
      PROVE  hpc'[h] = hpc[h] /\ htask'[h] = htask[h]
  BY <1>8 DEF ReplayDeadLetter
<1> QED
  BY <1>2, <1>4, <1>5, <1>6, <1>7, <1>8 DEF AuditMove, handlerVars, vars

-----------------------------------------------------------------------------
(* No guarded action is shown before its approval *)

\* An approval is only asked for an incident that was opened.
ApprovalsOnCreated == \A task \in Tasks \ created, c \in Calls : approvals[<<task, c>>] = "NONE"

\* Who asks a human has the incident for itself.
AskingFrozen ==
    \A w \in Workers, task \in Tasks :
        wpc[w] = "create_approval" /\ Task(w) = task /\ approvals[CurrentKey(w)] = "NONE" =>
            Frozen(task)

\* The incident is frozen, and if it waits it waits for the answer about c.
FrozenOn(task, c) == Frozen(task) /\ (Waiting(task) => workflows[task].pending_action = c)

\* An incident somebody is asked about is frozen on that action.
PendingFrozen(task, c) == approvals[<<task, c>>] = "PENDING" => FrozenOn(task, c)

\* So is one whose action was approved, until the approval of that action is in the trail
\* or in hand.
ApprovedTold(task, c) ==
    approvals[<<task, c>>] = "APPROVED" =>
        Granted(task, c) \/ FrozenOn(task, c) \/ Granting(task, c)

LEMMA ReleasedApproved ==
  ASSUME RuntimeInv, NEW task \in Tasks, Released(task)
  PROVE  /\ UNCHANGED approvals
         /\ Waiting(task)
         /\ approvals[<<task, workflows[task].pending_action>>] = "APPROVED"
<1>1. PICK h \in Handlers : ApproveSave(h) /\ htask[h] = task /\ ~UNCHANGED workflows
  BY DEF Released
<1>2. /\ hpc[h] = "approve_save" /\ HandlerWay(h) /\ hstate[h] = workflows[task]
      /\ save_workflow(task, [hstate[h] EXCEPT !.status = "QUEUED"])
  BY <1>1, ReleaserFresh DEF RuntimeInv, LifecycleInv
<1> QED
  BY <1>1, <1>2 DEF HandlerWay, HandlerPC, PendingKey, action_id, Waiting, save_workflow

LEMMA CreatedApprovals ==
  ASSUME RuntimeInv, ApprovalsOnCreated, [Next]_vars, NEW task \in Tasks, NEW c \in Calls,
         approvals'[<<task, c>>] # "NONE"
  PROVE  task \in created
<1>1. TypeOK /\ OnlyCreated /\ <<task, c>> \in Key
  BY DEF RuntimeInv, CheckpointInv, Key
<1>2. CASE approvals'[<<task, c>>] = approvals[<<task, c>>]
  BY <1>2 DEF ApprovalsOnCreated
<1>3. ASSUME NEW w \in Workers, CreateApproval(w), CurrentKey(w) = <<task, c>>
      PROVE  task \in created
  BY <1>1, <1>3 DEF CreateApproval, CurrentKey, action_id, OnlyCreated
<1>4. ASSUME approvals[<<task, c>>] = "PENDING" PROVE task \in created
  BY <1>4 DEF ApprovalsOnCreated
<1> QED
  BY <1>1, <1>2, <1>3, <1>4, ApprovalMoves

LEMMA AskingFrozenNext ==
  ASSUME RuntimeInv, SlotInv', Calm, Calm', [Next]_vars, AskingFrozen
  PROVE  AskingFrozen'
<1> SUFFICES ASSUME NEW w \in Workers, NEW task \in Tasks, wpc'[w] = "create_approval",
                    Task(w)' = task, approvals'[CurrentKey(w)'] = "NONE"
             PROVE  Frozen(task)'
  BY DEF AskingFrozen
<1>1. /\ TypeOK /\ StoreTypeOK /\ LocalTypeOK /\ OnlyCreated /\ ApprovalsForward
      /\ WorkerWay(w)
  BY TypeParts, ApprovalsForwardNext DEF RuntimeInv, CheckpointInv, LifecycleInv
<1>2. CASE RunOnceStep(w)
  <2>1. /\ state'[w].status = "WAITING_FOR_APPROVAL"
        /\ delivery' = delivery /\ workflows'[Task(w)] = state'[w]
    BY <1>1, <1>2, EnterAsking
  <2>2. Waiting(task)'
    BY <2>1 DEF Waiting, Task
  <2> QED
    BY <2>2, WaitingFreezes
<1>3. CASE SameWork(w)
  <2>1. PICK c : c = call[w]
    OBVIOUS
  <2>2. /\ wpc[w] = "create_approval" /\ Task(w) = task /\ c \in Calls
        /\ CurrentKey(w) = <<task, c>> /\ CurrentKey(w)' = <<task, c>>
    BY <1>1, <1>3, <2>1
    DEF SameWork, Task, CurrentKey, action_id, LocalTypeOK, CallChosen, CallPC
  <2>3. approvals[<<task, c>>] = "NONE"
    BY <1>1, <2>2 DEF ApprovalsForward, Key
  <2>4. Frozen(task) /\ task \in created
    BY <1>1, <2>2, <2>3 DEF AskingFrozen, OnlyCreated
  <2>5. workflows[task].pending_action = c
    BY <1>1, <2>1, <2>2, <2>3 DEF WorkerWay
  <2>6. ~Released(task)
    BY <2>3, <2>5, ReleasedApproved
  <2> QED
    BY <2>4, <2>6, FrozenStep
<1> QED
  BY <1>1, <1>2, <1>3, OwnSteps

LEMMA FrozenOnStep ==
  ASSUME RuntimeInv, SlotInv', Calm, Calm', [Next]_vars, NEW task \in created, NEW c,
         FrozenOn(task, c)
  PROVE  \/ FrozenOn(task, c)'
         \/ Released(task) /\ workflows[task].pending_action = c
<1>1. Released(task) => Waiting(task)
  BY ReleasedApproved DEF RuntimeInv, TypeOK, StoreTypeOK
<1> QED
  BY <1>1, FrozenStep DEF FrozenOn, Waiting

LEMMA PendingFrozenNext ==
  ASSUME RuntimeInv, SlotInv', Calm, Calm', [Next]_vars, AskingFrozen,
         NEW task \in created, NEW c \in Calls, PendingFrozen(task, c)
  PROVE  PendingFrozen(task, c)'
<1> SUFFICES ASSUME approvals'[<<task, c>>] = "PENDING"
             PROVE  FrozenOn(task, c)'
  BY DEF PendingFrozen
<1>1. TypeOK /\ task \in Tasks /\ <<task, c>> \in Key /\ \A w \in Workers : WorkerWay(w)
  BY TypeParts DEF RuntimeInv, StoreTypeOK, Key, LifecycleInv
<1>2. FrozenOn(task, c) /\ approvals[<<task, c>>] # "APPROVED"
  <2>1. CASE approvals[<<task, c>>] = "PENDING"
    BY <2>1 DEF PendingFrozen
  <2>2. ASSUME NEW w \in Workers, CreateApproval(w), CurrentKey(w) = <<task, c>>,
               approvals[<<task, c>>] = "NONE"
        PROVE  FrozenOn(task, c)
    <3>1. wpc[w] = "create_approval" /\ Task(w) = task /\ call[w] = c
      BY <2>2 DEF CreateApproval, CurrentKey, action_id
    <3> QED
      BY <1>1, <2>2, <3>1 DEF AskingFrozen, WorkerWay, FrozenOn
  <2> QED
    BY <1>1, <2>1, <2>2, ApprovalMoves
<1>3. ~(Released(task) /\ workflows[task].pending_action = c)
  BY <1>1, <1>2, ReleasedApproved
<1> QED
  BY <1>2, <1>3, FrozenOnStep

LEMMA ApprovedToldNext ==
  ASSUME AuditInv, SlotInv', Calm, Calm', [Next]_vars, AuditMove,
         NEW task \in created, NEW c \in Calls, PendingFrozen(task, c), ApprovedTold(task, c)
  PROVE  ApprovedTold(task, c)'
<1> SUFFICES ASSUME approvals'[<<task, c>>] = "APPROVED"
             PROVE  Granted(task, c)' \/ FrozenOn(task, c)' \/ Granting(task, c)'
  BY DEF ApprovedTold
<1>1. /\ RuntimeInv /\ TypeOK /\ task \in Tasks /\ <<task, c>> \in Key
      /\ crashes' # crashes + 1
  BY TypeParts, SMT DEF AuditInv, RuntimeInv, StoreTypeOK, Key, Calm
<1>2. CASE approvals[<<task, c>>] = "APPROVED"
  <2>1. CASE Granted(task, c)
    BY <1>1, <2>1, GrantedKept
  <2>2. CASE FrozenOn(task, c)
    BY <1>1, <2>2, FrozenOnStep, ReleaseOwed
  <2>3. CASE Granting(task, c)
    BY <1>1, <2>3, GrantingStep
  <2> QED
    BY <1>2, <2>1, <2>2, <2>3 DEF ApprovedTold
<1>3. CASE approvals[<<task, c>>] # "APPROVED"
  <2>1. approvals[<<task, c>>] = "PENDING" /\ UNCHANGED workflows
    BY <1>1, <1>3, ApprovalMoves
  <2>2. FrozenOn(task, c) /\ ~Released(task)
    BY <2>1 DEF PendingFrozen, Released
  <2> QED
    BY <1>1, <2>2, FrozenOnStep
<1> QED
  BY <1>2, <1>3

\* Who holds a guarded call got through the gate, and nobody else has the incident: the
\* approval is in the trail.
LEMMA GuardedGranted ==
  ASSUME RuntimeInv, GateInv, Calm, NEW w \in Workers, wpc[w] \in ToolPC,
         ApprovalRequired(call[w]), ApprovedTold(Task(w), call[w])
  PROVE  Granted(Task(w), call[w])
<1>1. /\ Task(w) \in Tasks /\ call[w] \in Calls /\ WorkerWay(w) /\ Gated(w) /\ PolicyGate
      /\ SlotInv
  BY DEF RuntimeInv, TypeOK, WorkerTypeOK, RuntimeTypeOK, Delivery, Task, CallChosen, CallPC,
         ToolPC, LifecycleInv, GateInv
<1>2. approvals[<<Task(w), call[w]>>] = "APPROVED"
  <2>1. CASE wpc[w] \in {"execute", "backend"}
    BY <2>1, <1>1 DEF Gated, CurrentKey, action_id
  <2>2. CASE wpc[w] \in {"save_result", "record"}
    BY <2>2, <1>1 DEF WorkerWay, PolicyGate, CurrentKey, action_id
  <2> QED
    BY <2>1, <2>2 DEF ToolPC
<1>3. PICK task \in Tasks : task = Task(w)
  BY <1>1
<1>4. WorkerSlot(task, NoCall, w)
  BY <1>1, <1>3, ModelsAssumption DEF WorkerSlot, SlotPC, RuntimePC, ToolPC
<1>5. ~Frozen(task)
  BY <1>4, FrozenAlone
<1>6. \A c : ~Granting(task, c)
  <2>1. SUFFICES ASSUME NEW h \in Handlers, RequestSlot(task, h) PROVE FALSE
    BY DEF Granting, RequestSlot
  <2>2. <<"worker", w>> = <<"request", h>>
    BY <1>1, <1>4, <2>1, SlotsMember, OneSlot
  <2> QED
    BY <2>2
<1> QED
  BY <1>2, <1>3, <1>5, <1>6 DEF ApprovedTold, FrozenOn

OwedGranted ==
    \A p \in Processes, task \in Tasks, e \in OwedEvent :
        owed[p] = <<task, e>> /\ e.type = "TOOL_COMPLETED" /\ ApprovalRequired(e.call) =>
            Granted(task, e.call)

InOrder(task) ==
    \A i \in DOMAIN events[task] :
        LET done == events[task][i]
        IN  done.type = "TOOL_COMPLETED" /\ ApprovalRequired(done.call) =>
                \E j \in 1 .. i - 1 : events[task][j] = About("APPROVAL_GRANTED", done.call)

LEMMA OwedGrantedNext ==
  ASSUME AuditInv, GateInv, Calm, crashes' # crashes + 1, AuditMove, OwedGranted,
         \A task \in Tasks, c \in Calls : ApprovedTold(task, c)
  PROVE  OwedGranted'
<1> SUFFICES ASSUME NEW p \in Processes, NEW task \in Tasks, NEW e \in OwedEvent,
                    owed'[p] = <<task, e>>, e.type = "TOOL_COMPLETED",
                    ApprovalRequired(e.call)
             PROVE  Granted(task, e.call)
  BY GrantedKept DEF OwedGranted
<1>1. CASE owed[p] = owed'[p]
  BY <1>1 DEF OwedGranted
<1>2. ASSUME p \in Workers, WorkerOwes(p, owed'[p]) PROVE Granted(task, e.call)
  <2>1. PICK f \in OwedEvent :
            /\ owed'[p] = <<Task(p), f>>
            /\ f.type = "TOOL_COMPLETED" => wpc[p] = "record" /\ f.call = call[p]
    BY <1>2, NoEventIsNone DEF WorkerOwes
  <2>2. f = e /\ Task(p) = task
    BY <2>1
  <2>3. wpc[p] = "record" /\ e.call = call[p]
    BY <2>1, <2>2
  <2>4. call[p] \in Calls
    BY <1>2, <2>3 DEF AuditInv, RuntimeInv, TypeOK, CallChosen, CallPC
  <2>5. RuntimeInv /\ ApprovedTold(Task(p), call[p])
    BY <2>2, <2>4 DEF AuditInv
  <2>6. Granted(Task(p), call[p])
    BY <1>2, <2>3, <2>5, GuardedGranted DEF ToolPC
  <2> QED
    BY <2>2, <2>3, <2>6
<1>3. ASSUME NEW h \in Handlers, RequestOwes(h, owed'[p]) PROVE FALSE
  <2>1. e \in {About("APPROVAL_GRANTED", hstate[h].pending_action),
               About("APPROVAL_REJECTED", NoCall)}
    BY <1>3, NoEventIsNone DEF RequestOwes, GrantedEvent, RejectedEvent
  <2> QED
    BY <2>1 DEF About
<1>4. owed'[p] # NoEvent
  BY NoEventIsNone
<1> QED
  BY <1>1, <1>2, <1>3, <1>4 DEF AuditMove

LEMMA InOrderNext ==
  ASSUME AuditInv, AuditMove, OwedGranted, NEW task \in Tasks, InOrder(task)
  PROVE  InOrder(task)'
<1>1. events[task] \in Seq(Event)
  BY DEF AuditInv, AuditTypes
<1>2. CASE events'[task] = events[task]
  BY <1>2 DEF InOrder
<1>3. ASSUME NEW event \in Event, events'[task] = Append(events[task], event),
             event.type = "TOOL_COMPLETED" /\ ApprovalRequired(event.call) =>
                Granted(task, event.call)
      PROVE  InOrder(task)'
  <2> SUFFICES ASSUME NEW i \in DOMAIN events'[task], NEW done, done = events'[task][i],
                      done.type = "TOOL_COMPLETED", ApprovalRequired(done.call)
               PROVE  \E j \in 1 .. i - 1 : events'[task][j] = About("APPROVAL_GRANTED", done.call)
    BY DEF InOrder
  <2>1. CASE i \in DOMAIN events[task]
    <3>1. done = events[task][i]
      BY <1>1, <1>3, <2>1, AppendedTrail
    <3>2. PICK j \in 1 .. i - 1 : events[task][j] = About("APPROVAL_GRANTED", done.call)
      BY <2>1, <3>1 DEF InOrder
    <3>3. j \in DOMAIN events[task]
      BY <1>1, <2>1, <3>2
    <3> QED
      BY <1>1, <1>3, <3>2, <3>3, AppendedTrail
  <2>2. CASE i = Len(events[task]) + 1
    <3>1. done = event
      BY <1>1, <1>3, <2>2, AppendedTrail
    <3>2. PICK j \in DOMAIN events[task] : events[task][j] = About("APPROVAL_GRANTED", done.call)
      BY <1>3, <3>1 DEF Granted
    <3>3. j \in 1 .. i - 1
      BY <1>1, <2>2, <3>2
    <3> QED
      BY <1>1, <1>3, <3>2, <3>3, AppendedTrail
  <2> QED
    BY <1>1, <1>3, <2>1, <2>2, AppendedTrail
<1>4. \A p \in Processes, e \in OwedEvent :
        owed[p] = <<task, e>> /\ e.type = "TOOL_COMPLETED" /\ ApprovalRequired(e.call) =>
            Granted(task, e.call)
  BY DEF OwedGranted
<1>5. \A e \in {CreatedEvent, ReplayedEvent} : e.type # "TOOL_COMPLETED"
  BY DEF CreatedEvent, ReplayedEvent, About
<1> QED
  BY <1>2, <1>3, <1>4, <1>5, TrailStep

\* As long as nobody dies and no lease passes: an approval somebody was asked for or gave
\* keeps the incident frozen until it is in the trail, so what is done with it comes later.
GrantInv ==
    /\ ApprovalsOnCreated
    /\ Calm =>
        /\ GateInv
        /\ AskingFrozen
        /\ \A task \in Tasks, c \in Calls : PendingFrozen(task, c) /\ ApprovedTold(task, c)
        /\ OwedGranted /\ \A task \in Tasks : InOrder(task)

LEMMA GrantInvInit == AuditInit => GrantInv
<1> SUFFICES ASSUME AuditInit PROVE GrantInv
  OBVIOUS
<1>1. /\ \A task \in Tasks, c \in Calls : approvals[<<task, c>>] = "NONE"
      /\ \A w \in Workers : wpc[w] = "idle"
      /\ \A task \in Tasks : events[task] = <<>>
      /\ \A p \in Processes : owed[p] = NoEvent
  BY DEF AuditInit, Init, StoreInit, WorkerInit, RuntimeInit, Key
<1>2. GateInv
  BY DEF AuditInit, Init, StoreInit, WorkerInit, RuntimeInit, GateInv, Gated, PolicyGate, Key,
         action_id
<1>3. OwedGranted /\ \A task \in Tasks : InOrder(task)
  <2>1. OwedGranted
    BY <1>1, NoEventIsNone DEF OwedGranted
  <2>2. \A i \in DOMAIN <<>> : FALSE
    OBVIOUS
  <2> QED
    BY <1>1, <2>1, <2>2 DEF InOrder
<1> QED
  BY <1>1, <1>2, <1>3 DEF GrantInv, ApprovalsOnCreated, AskingFrozen, PendingFrozen, ApprovedTold

LEMMA GrantInvNext ==
  ASSUME AuditInv, AuditInv', GrantInv, [AuditNext]_auditVars
  PROVE  GrantInv'
<1>1. RuntimeInv /\ TypeOK /\ SlotInv' /\ AuditMove
  BY AuditMoves DEF AuditInv, RuntimeInv
<1>2. ApprovalsOnCreated'
  <2>1. CASE EventLost
    BY <2>1 DEF EventLost, storeVars, GrantInv, ApprovalsOnCreated
  <2>2. CASE [Next]_vars
    <3>1. created \subseteq created'
      BY <2>2, CreatedGrows
    <3>2. ASSUME NEW task \in Tasks, task \notin created', NEW c \in Calls
          PROVE  approvals'[<<task, c>>] = "NONE"
      BY <1>1, <2>2, <3>1, <3>2, CreatedApprovals DEF GrantInv
    <3> QED
      BY <3>2 DEF ApprovalsOnCreated
  <2> QED
    BY <2>1, <2>2, AuditSteps
<1>3. ASSUME Calm'
      PROVE  /\ GateInv'
             /\ AskingFrozen'
             /\ \A task \in Tasks, c \in Calls : PendingFrozen(task, c)' /\ ApprovedTold(task, c)'
             /\ OwedGranted' /\ \A task \in Tasks : InOrder(task)'
  <2>1. Calm /\ crashes' # crashes + 1 /\ [Next]_vars
    BY <1>1, <1>3, CalmBefore
  <2>2. /\ GateInv /\ AskingFrozen
        /\ \A task \in Tasks, c \in Calls : PendingFrozen(task, c) /\ ApprovedTold(task, c)
        /\ OwedGranted /\ \A task \in Tasks : InOrder(task)
    BY <2>1 DEF GrantInv
  <2>3. GateInv'
    BY <1>1, <2>1, <2>2, GateInvNext
  <2>4. AskingFrozen'
    BY <1>1, <1>3, <2>1, <2>2, AskingFrozenNext
  <2>5. ASSUME NEW task \in created, task \in Tasks, NEW c \in Calls
        PROVE  PendingFrozen(task, c)' /\ ApprovedTold(task, c)'
    BY <1>1, <1>3, <2>1, <2>2, <2>5, PendingFrozenNext, ApprovedToldNext
  <2>6. ASSUME NEW task \in Tasks, task \notin created, NEW c \in Calls
        PROVE  PendingFrozen(task, c)' /\ ApprovedTold(task, c)'
    <3>1. approvals'[<<task, c>>] = "NONE"
      BY <1>1, <2>1, <2>6, CreatedApprovals DEF GrantInv
    <3> QED
      BY <3>1 DEF PendingFrozen, ApprovedTold
  <2>7. OwedGranted' /\ \A task \in Tasks : InOrder(task)'
    BY <1>1, <2>1, <2>2, OwedGrantedNext, InOrderNext
  <2> QED
    BY <2>3, <2>4, <2>5, <2>6, <2>7
<1> QED
  BY <1>2, <1>3 DEF GrantInv

\* As long as nobody dies and no lease passes, no action that needs an approval is in the
\* trail before the approval of that very action, whatever the agent did in between with or
\* without a human: approve() records it before a worker can have the incident again.
THEOREM ApprovalPrecedesActionHolds == AuditSpec => []ApprovalPrecedesAction
<1>1. AuditInv /\ GrantInv => ApprovalPrecedesAction
  <2> SUFFICES ASSUME AuditInv, GrantInv, crashes + stalls = 0, NEW task \in Tasks
               PROVE  InOrder(task)
    BY DEF ApprovalPrecedesAction, InOrder
  <2>1. crashes \in Nat /\ stalls \in Nat
    BY DEF AuditInv, RuntimeInv, TypeOK, WorkerTypeOK
  <2>2. Calm
    BY <2>1, SMT DEF Calm
  <2> QED
    BY <2>2 DEF GrantInv
<1>2. AuditInv /\ AuditInv' /\ GrantInv /\ [AuditNext]_auditVars => GrantInv'
  BY GrantInvNext
<1> QED
  BY <1>1, <1>2, GrantInvInit, AuditInvHolds, PTL DEF AuditSpec
=============================================================================
