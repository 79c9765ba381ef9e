----------------------------- MODULE AWSProofs -----------------------------
(***************************************************************************)
(* Theorems about the runtime on AWS for every set of tasks, workers,      *)
(* handlers, calls and results, and every bound.                           *)
(*                                                                         *)
(* Where AWS does what SQLite does (process() and the saves that follow    *)
(* it) the lemmas of the modules this one extends are used as they are.    *)
(* What is new is the queue: a message may be delivered twice, come back   *)
(* after it was deleted and be sent beside another one of its task, and a  *)
(* dead letter is a message of its own.  Every step of the queue is one of *)
(* few ways of one message (MessageStep), and nothing but those ways is    *)
(* used of it.                                                             *)
(*                                                                         *)
(* Effects are counted as on SQLite, by slots: everybody who may still     *)
(* bring a call to the backend has one, and a step passes its slot on,     *)
(* gives it up for an effect, or makes one that a fault or a replay pays   *)
(* for.                                                                    *)
(*                                                                         *)
(* That no work is lost without a fault is proved about who drives a task: *)
(* a worker that holds its message alone goes on with it until it has sent *)
(* a message or ended the workflow.                                        *)
(***************************************************************************)
EXTENDS AWSAgentResilience, EffectsProofs

-----------------------------------------------------------------------------
(* The ways of a message *)

\* Only a replay deletes a letter.
MessageWay(i, old, new) ==
    \/ Receivable(old) /\ new.status = "PROCESSING"
    \/ /\ new.status = "COMPLETED"
       /\ i \in letters => \E h \in Handlers : ReplayDelete(h) /\ letter[h] = i
    \/ old.status = "PROCESSING" /\ new.status \in {"PENDING", "PROCESSING"}
    \/ old.status = "COMPLETED" /\ new.status = IF i \in letters THEN "DEAD" ELSE "PENDING"

MessageStep ==
    \/ queue' = queue
    \/ \E i \in DOMAIN queue :
        /\ OnlyRow(i)
        /\ queue'[i].task_id = queue[i].task_id
        /\ MessageWay(i, queue[i], queue'[i])
    \/ \E row \in QueueRow :
        /\ row.status \in {"PENDING", "DEAD"}
        /\ queue' = Append(queue, row)

LEMMA SetMessageType ==
  ASSUME StoreTypeOK, NEW i \in DOMAIN queue, NEW message \in QueueRow,
         message.task_id = queue[i].task_id, SetMessage(i, message)
  PROVE  StoreStepOK /\ OnlyRow(i) /\ queue'[i] = message
<1>1. queue' \in Seq(QueueRow) /\ RowsKept
  BY UpdateRow DEF SetMessage
<1>2. OnlyRow(i) /\ queue'[i] = message
  BY ReplacedRow DEF SetMessage
<1> QED
  BY <1>1, <1>2 DEF SetMessage, OnlyQueueChanges, StoreStepOK, StoreTypeOK

LEMMA AppendMessageType ==
  ASSUME StoreTypeOK, NEW row \in QueueRow, queue' = Append(queue, row), OnlyQueueChanges
  PROVE  /\ StoreStepOK
         /\ DOMAIN queue' = DOMAIN queue \cup {Len(queue) + 1}
         /\ Len(queue) + 1 \notin DOMAIN queue
         /\ \A i \in DOMAIN queue : queue'[i] = queue[i] /\ i < Len(queue) + 1
         /\ queue'[Len(queue) + 1] = row
<1>1. queue \in Seq(QueueRow)
  BY DEF StoreTypeOK
<1>2. queue' \in Seq(QueueRow) /\ Len(queue') = Len(queue) + 1
  BY <1>1
<1>3. \A i \in DOMAIN queue : i \in DOMAIN queue' /\ queue'[i] = queue[i] /\ i < Len(queue) + 1
  BY <1>1, <1>2
<1>4. DOMAIN queue' = DOMAIN queue \cup {Len(queue) + 1} /\ Len(queue) + 1 \notin DOMAIN queue
  BY <1>1, <1>2
<1>5. queue'[Len(queue) + 1] = row
  BY <1>1
<1> QED
  BY <1>2, <1>3, <1>4, <1>5 DEF OnlyQueueChanges, StoreStepOK, StoreTypeOK, RowsKept

LEMMA ReceiveType ==
  ASSUME StoreTypeOK, NEW i \in DOMAIN queue, receive_message(i)
  PROVE  /\ StoreStepOK /\ MessageStep /\ OnlyRow(i) /\ OnlyQueueChanges
         /\ Receivable(queue[i])
         /\ queue'[i] = [queue[i] EXCEPT !.status = "PROCESSING", !.attempts = @ + 1,
                                         !.delayed = FALSE, !.expired = FALSE]
<1> DEFINE message == [queue[i] EXCEPT !.status = "PROCESSING", !.attempts = @ + 1,
                                       !.delayed = FALSE, !.expired = FALSE]
<1>1. queue[i] \in QueueRow
  BY RowType
<1>2. message \in QueueRow /\ message.task_id = queue[i].task_id /\ message.status = "PROCESSING"
  <2>1. queue[i].attempts \in Nat /\ queue[i].task_id \in Tasks
    BY <1>1 DEF QueueRow
  <2>2. queue[i].attempts + 1 \in Nat
    BY <2>1, SMT
  <2> QED
    BY <1>1, <2>1, <2>2 DEF QueueRow, QueueStatus
<1>3. SetMessage(i, message) /\ Receivable(queue[i])
  BY DEF receive_message
<1> HIDE DEF message
<1>4. StoreStepOK /\ OnlyRow(i) /\ queue'[i] = message
  BY <1>2, <1>3, SetMessageType
<1>5. MessageStep
  BY <1>2, <1>3, <1>4 DEF MessageStep, MessageWay
<1> QED
  BY <1>3, <1>4, <1>5 DEF message, SetMessage

LEMMA DeleteType ==
  ASSUME StoreTypeOK, NEW i \in DOMAIN queue, delete_message(i),
         i \in letters => \E h \in Handlers : ReplayDelete(h) /\ letter[h] = i
  PROVE  /\ StoreStepOK /\ MessageStep /\ OnlyRow(i) /\ OnlyQueueChanges
         /\ queue'[i] = [queue[i] EXCEPT !.status = "COMPLETED", !.expired = FALSE]
<1> DEFINE message == [queue[i] EXCEPT !.status = "COMPLETED", !.expired = FALSE]
<1>1. queue[i] \in QueueRow
  BY RowType
<1>2. message \in QueueRow /\ message.task_id = queue[i].task_id /\ message.status = "COMPLETED"
  BY <1>1 DEF QueueRow, QueueStatus
<1>3. SetMessage(i, message)
  BY DEF delete_message
<1> HIDE DEF message
<1>4. StoreStepOK /\ OnlyRow(i) /\ queue'[i] = message
  BY <1>2, <1>3, SetMessageType
<1>5. MessageStep
  BY <1>2, <1>3, <1>4 DEF MessageStep, MessageWay
<1> QED
  BY <1>3, <1>4, <1>5 DEF message, SetMessage

LEMMA VisibleType ==
  ASSUME StoreTypeOK, NEW d, d.id \in DOMAIN queue, change_visibility(d)
  PROVE  /\ StoreStepOK /\ MessageStep /\ OnlyRow(d.id) /\ OnlyQueueChanges
         /\ queue[d.id].status = "PROCESSING"
         /\ queue'[d.id] = [queue[d.id] EXCEPT !.status = "PENDING", !.delayed = TRUE]
<1> DEFINE message == [queue[d.id] EXCEPT !.status = "PENDING", !.delayed = TRUE]
<1>1. queue[d.id] \in QueueRow
  BY RowType
<1>2. message \in QueueRow /\ message.task_id = queue[d.id].task_id /\ message.status = "PENDING"
  BY <1>1 DEF QueueRow, QueueStatus
<1>3. SetMessage(d.id, message) /\ queue[d.id].status = "PROCESSING"
  BY DEF change_visibility
<1> HIDE DEF message
<1>4. StoreStepOK /\ OnlyRow(d.id) /\ queue'[d.id] = message
  BY <1>2, <1>3, SetMessageType
<1>5. MessageStep
  BY <1>2, <1>3, <1>4 DEF MessageStep, MessageWay
<1> QED
  BY <1>3, <1>4, <1>5 DEF message, SetMessage

LEMMA ResurrectType ==
  ASSUME StoreTypeOK, NEW i \in DOMAIN queue, Resurrect(i)
  PROVE  /\ StoreStepOK /\ MessageStep /\ OnlyRow(i) /\ OnlyQueueChanges
         /\ queue[i].status = "COMPLETED"
         /\ queue'[i] = [queue[i] EXCEPT !.status = IF i \in letters THEN "DEAD" ELSE "PENDING"]
<1> DEFINE message == [queue[i] EXCEPT !.status = IF i \in letters THEN "DEAD" ELSE "PENDING"]
<1>1. queue[i] \in QueueRow
  BY RowType
<1>2. /\ message \in QueueRow /\ message.task_id = queue[i].task_id
      /\ message.status = IF i \in letters THEN "DEAD" ELSE "PENDING"
  BY <1>1 DEF QueueRow, QueueStatus
<1>3. SetMessage(i, message) /\ queue[i].status = "COMPLETED"
  BY DEF Resurrect
<1> HIDE DEF message
<1>4. StoreStepOK /\ OnlyRow(i) /\ queue'[i] = message
  BY <1>2, <1>3, SetMessageType
<1>5. MessageStep
  BY <1>2, <1>3, <1>4 DEF MessageStep, MessageWay
<1> QED
  BY <1>3, <1>4, <1>5 DEF message, SetMessage

LEMMA AnyTask ==
  ASSUME StoreTypeOK, OnlyQueueChanges, StoreStepOK, NEW i, OnlyRow(i), NEW task
  PROVE  OnlyTask(task)
BY OnlyTaskRow DEF OnlyQueueChanges, StoreStepOK, OnlyRow, SameDomain

LEMMA AppendedTask ==
  ASSUME StoreTypeOK, NEW row \in QueueRow, queue' = Append(queue, row), OnlyQueueChanges
  PROVE  OnlyTask(row.task_id)
BY AppendMessageType DEF OnlyTask, OnlyQueueChanges

LEMMA SendType ==
  ASSUME StoreTypeOK, NEW task \in Tasks, send_message(task)
  PROVE  /\ StoreStepOK /\ MessageStep /\ queue' = Append(queue, NewRow(task)) /\ OnlyQueueChanges
         /\ OnlyTask(task)
<1>1. NewRow(task) \in QueueRow /\ NewRow(task).status = "PENDING" /\ NewRow(task).task_id = task
  BY NewRowType DEF NewRow
<1>2. queue' = Append(queue, NewRow(task)) /\ OnlyQueueChanges
  BY DEF send_message
<1>3. OnlyTask(task)
  BY <1>1, <1>2, AppendedTask
<1> QED
  BY <1>1, <1>2, <1>3, AppendMessageType DEF MessageStep

\* The message that stands in the dead-letter queue for a delivery.
Letter(d) == [NewRow(d.task_id) EXCEPT !.status = "DEAD", !.attempts = d.attempts]

LEMMA LetterIsRow ==
  ASSUME NEW d \in Delivery
  PROVE  Letter(d) \in QueueRow /\ Letter(d).status = "DEAD" /\ Letter(d).task_id = d.task_id
BY DEF Letter, NewRow, Delivery, QueueRow, QueueStatus

LEMMA SendLetterType ==
  ASSUME StoreTypeOK, NEW d \in Delivery, send_dead_letter(d)
  PROVE  /\ StoreStepOK /\ MessageStep /\ queue' = Append(queue, Letter(d)) /\ OnlyQueueChanges
         /\ OnlyTask(d.task_id)
<1>1. queue' = Append(queue, Letter(d)) /\ OnlyQueueChanges
  BY DEF send_dead_letter, Letter
<1>2. OnlyTask(d.task_id)
  BY <1>1, LetterIsRow, AppendedTask
<1> QED
  BY <1>1, <1>2, LetterIsRow, AppendMessageType DEF MessageStep

-----------------------------------------------------------------------------
(* The steps of a worker *)

\* What run_once does as it does on SQLite.
SharedStep(w) ==
    \/ ProcessStep(w) /\ UNCHANGED <<crashes, stalls>>
    \/ DeadLoad(w)
    \/ DeadSave(w)
    \/ PermanentLoad(w)
    \/ PermanentSave(w)

LEMMA SharedRunOnce ==
  ASSUME NEW w \in Workers, SharedStep(w)
  PROVE  RunOnceStep(w) /\ UNCHANGED queue
<1>1. RunOnceStep(w)
  BY DEF SharedStep, RunOnceStep
<1>2. ASSUME ProcessStep(w) PROVE UNCHANGED queue
  BY <1>2
  DEF ProcessStep, Load, SaveRunning, ModelFailsRetryably, ModelFailsPermanently,
      DecideComplete, DecideFail, DecideTool, PolicyDenied, SaveWaiting, CreateApproval,
      ResumeApprovedAction, LookupResult, BackendSucceeds, BackendFailsRetryably,
      BackendTimesOut, BackendFailsPermanently, SaveToolResult, RecordResult,
      Fail, FailRetryably, SaveAndGoto, SaveAndReturn, SaveAndRaise, StaleSave, save_workflow,
      create_approval, save_tool_result, storeVars
<1>3. ASSUME DeadLoad(w) \/ DeadSave(w) \/ PermanentLoad(w) \/ PermanentSave(w)
      PROVE  UNCHANGED queue
  BY <1>3
  DEF DeadLoad, DeadSave, PermanentLoad, PermanentSave, Reload, SaveFinal, save_workflow, storeVars
<1> QED
  BY <1>1, <1>2, <1>3 DEF SharedStep

LEMMA SharedType ==
  ASSUME StoreTypeOK, LocalTypeOK, HoldsRow, NEW w \in Workers, SharedStep(w)
  PROVE  Busy(w) /\ StoreStepOK /\ LocalStepOK
<1>1. CASE ProcessStep(w)
  <2>1. wpc[w] # "idle"
    BY <1>1
    DEF ProcessStep, Load, SaveRunning, ModelFailsRetryably, ModelFailsPermanently,
        DecideComplete, DecideFail, DecideTool, PolicyDenied, SaveWaiting, CreateApproval,
        ResumeApprovedAction, LookupResult, BackendSucceeds, BackendFailsRetryably,
        BackendTimesOut, BackendFailsPermanently, SaveToolResult, RecordResult
  <2> QED
    BY <1>1, <2>1, ProcessStepType DEF Busy
<1>2. CASE DeadLoad(w) \/ DeadSave(w) \/ PermanentLoad(w) \/ PermanentSave(w)
  <2>1. wpc[w] # "idle" /\ ReportStep(w)
    BY <1>2 DEF DeadLoad, DeadSave, PermanentLoad, PermanentSave, ReportStep
  <2>2. Busy(w) /\ delivery[w].id \in DOMAIN queue
    BY <2>1 DEF Busy, HoldsRow
  <2> QED
    BY <2>1, <2>2, ReportStepType
<1> QED
  BY <1>1, <1>2 DEF SharedStep

\* A call of the store that _execute_tool makes for the gateway has failed.
CallFails(w) ==
    /\ wpc[w] \in {"execute", "save_result"}
    /\ FailRetryably(w) \/ Fail(w)
    /\ UNCHANGED Budgets

LeavePC == {"enqueue", "retry", "dead_delete", "dead", "perm_ack", "perm_load"}

\* A report to the queue, or an error: process() or run_once is over.
Leaves(w) ==
    /\ wpc[w] # "idle"
    /\ Finish(w) \/ \E pc \in LeavePC : LeaveProcess(w, pc)
    /\ OnlyQueueChanges
    /\ UNCHANGED Budgets

HoldsNoLetter == \A w \in Workers : wpc[w] # "idle" => delivery[w].id \notin letters

LEMMA ReceiptDeleted ==
  ASSUME StoreTypeOK, NEW d, d.id \in DOMAIN queue, d.id \notin letters,
         acknowledge_receipt(d), NEW task
  PROVE  StoreStepOK /\ MessageStep /\ OnlyQueueChanges /\ OnlyTask(task)
<1>1. CASE delete_message(d.id)
  BY <1>1, DeleteType, AnyTask
<1>2. CASE UNCHANGED storeVars
  BY <1>2, StoreUnchanged, OnlyTaskUnchanged DEF storeVars, MessageStep, OnlyQueueChanges
<1> QED
  BY <1>1, <1>2 DEF acknowledge_receipt

LEMMA DeletedLeaves ==
  ASSUME NEW w \in Workers, Busy(w), HoldsRow, HoldsNoLetter, NEW pc \in LeavePC \cup {"idle"},
         DeleteReceipt(w, pc)
  PROVE  Leaves(w) /\ StoreStepOK /\ MessageStep /\ OnlyTask(Task(w))
<1>1. StoreStepOK /\ MessageStep /\ OnlyQueueChanges /\ OnlyTask(Task(w))
  BY ReceiptDeleted DEF DeleteReceipt, Busy, HoldsRow, HoldsNoLetter
<1>2. (Finish(w) \/ \E q \in LeavePC : LeaveProcess(w, q)) /\ UNCHANGED Budgets
  BY DEF DeleteReceipt
<1> QED
  BY <1>1, <1>2 DEF Leaves, Busy

LEMMA WorkerWays ==
  ASSUME StoreTypeOK, LocalTypeOK, HoldsRow, HoldsNoLetter, NEW w \in Workers, AWSRunOnce(w)
  PROVE  \/ SharedStep(w) /\ UNCHANGED errors
         \/ (\E i \in DOMAIN queue : ReceiveMessage(w, i)) /\ UNCHANGED errors
         \/ CallFails(w) /\ errors' = errors + 1
         \/ /\ Leaves(w) /\ StoreStepOK /\ MessageStep /\ OnlyTask(Task(w))
            /\ errors' \in {errors, errors + 1}
<1>1. CASE StoreCallFails(w)
  <2>1. CASE /\ wpc[w] \in RuntimePC \cup {"ack", "enqueue", "retry"}
             /\ LeaveProcess(w, "retry") \/ LeaveProcess(w, "perm_ack")
             /\ UNCHANGED storeVars
    <3>1. Leaves(w)
      BY <1>1, <2>1
      DEF LeavePC, StoreCallFails, Leaves, RuntimePC, OnlyQueueChanges, storeVars
    <3>2. StoreStepOK /\ MessageStep /\ OnlyTask(Task(w))
      BY <2>1, StoreUnchanged, OnlyTaskUnchanged DEF MessageStep, storeVars
    <3> QED
      BY <1>1, <3>1, <3>2 DEF StoreCallFails
  <2>2. CASE wpc[w] \in {"execute", "save_result"} /\ (FailRetryably(w) \/ Fail(w))
    BY <1>1, <2>2 DEF StoreCallFails, CallFails
  <2> QED
    BY <1>1, <2>1, <2>2 DEF StoreCallFails
<1>2. CASE DeleteThenSend(w) /\ UNCHANGED errors
  <2>1. Busy(w)
    BY <1>2 DEF DeleteThenSend, Busy
  <2>2. CASE wpc[w] = "ack" /\ DeleteReceipt(w, IF state[w].status = "QUEUED" THEN "enqueue" ELSE "idle")
    BY <1>2, <2>1, <2>2, DeletedLeaves DEF LeavePC
  <2>3. CASE wpc[w] = "enqueue" /\ send_message(Task(w)) /\ Finish(w) /\ UNCHANGED Budgets
    <3>1. StoreStepOK /\ MessageStep /\ OnlyQueueChanges /\ OnlyTask(Task(w))
      BY <2>1, <2>3, SendType, HeldTypes DEF Busy
    <3> QED
      BY <1>2, <2>3, <3>1 DEF Leaves
  <2> QED
    BY <1>2, <2>2, <2>3 DEF DeleteThenSend
<1>3. CASE RetryMessage(w) /\ UNCHANGED errors
  <2>1. Busy(w) /\ delivery[w].id \in DOMAIN queue
    BY <1>3 DEF RetryMessage, Busy, HoldsRow
  <2>2. StoreStepOK /\ MessageStep /\ OnlyQueueChanges /\ OnlyTask(Task(w))
    <3>1. CASE change_visibility(delivery[w])
      BY <2>1, <3>1, VisibleType, AnyTask
    <3>2. CASE UNCHANGED storeVars
      BY <3>2, StoreUnchanged, OnlyTaskUnchanged DEF storeVars, MessageStep, OnlyQueueChanges
    <3> QED
      BY <1>3, <3>1, <3>2 DEF RetryMessage
  <2> QED
    BY <1>3, <2>2 DEF RetryMessage, Leaves
<1>4. CASE DeadLetter(w) /\ UNCHANGED errors
  <2>1. Busy(w)
    BY <1>4 DEF DeadLetter, Busy
  <2>2. CASE wpc[w] = "dead_delete" /\ DeleteReceipt(w, "dead")
    BY <1>4, <2>1, <2>2, DeletedLeaves DEF LeavePC
  <2>3. CASE /\ wpc[w] = "retry" /\ send_dead_letter(delivery[w])
             /\ LeaveProcess(w, "dead_delete") /\ UNCHANGED Budgets
    <3>1. StoreStepOK /\ MessageStep /\ OnlyQueueChanges /\ OnlyTask(Task(w))
      BY <2>1, <2>3, SendLetterType, HeldTypes DEF Task, Busy
    <3> QED
      BY <1>4, <2>3, <3>1 DEF Leaves, LeavePC
  <2> QED
    BY <1>4, <2>2, <2>3 DEF DeadLetter
<1>5. CASE wpc[w] = "perm_ack" /\ DeleteReceipt(w, "perm_load") /\ UNCHANGED errors
  <2>1. Busy(w)
    BY <1>5 DEF Busy
  <2> QED
    BY <1>5, <2>1, DeletedLeaves DEF LeavePC
<1> QED
  BY <1>1, <1>2, <1>3, <1>4, <1>5 DEF AWSRunOnce, SharedStep

LEMMA LeavesType ==
  ASSUME NEW w \in Workers, LocalTypeOK, StoreTypeOK, Leaves(w)
  PROVE  /\ LocalStepOK /\ OthersKeep(w)
         /\ wpc'[w] \in LeavePC \cup {"idle"}
         /\ wpc'[w] # "idle" => delivery'[w] = delivery[w]
<1>1. LocalStepOK
  BY LeaveProcessType, FinishType DEF Leaves, Busy, LeavePC, AfterPC, WorkerPC, RuntimePC
<1>2. /\ OthersKeep(w)
      /\ wpc'[w] \in LeavePC \cup {"idle"}
      /\ wpc'[w] # "idle" => delivery'[w] = delivery[w]
  BY DEF Leaves, Finish, LeaveProcess, Goto, OthersKeep, LocalTypeOK, LeavePC
<1> QED
  BY <1>1, <1>2

LEMMA FailLeaves ==
  ASSUME NEW w \in Workers, LocalTypeOK, StoreTypeOK, CallFails(w)
  PROVE  /\ Busy(w) /\ StoreStepOK /\ LocalStepOK /\ OthersKeep(w)
         /\ wpc'[w] \in {"ack", "retry"} /\ delivery' = delivery
         /\ UNCHANGED <<queue, created, tool_results, approvals>>
<1>1. Busy(w)
  BY DEF CallFails, Busy
<1>2. StoreStepOK /\ LocalStepOK
  BY <1>1, FailType DEF CallFails
<1>3. /\ OthersKeep(w) /\ wpc'[w] \in {"ack", "retry"} /\ delivery' = delivery
  BY DEF CallFails, Fail, FailRetryably, SaveAndReturn, SaveAndRaise, StaleSave, Return,
         LeaveProcess, Goto, OthersKeep, LocalTypeOK
<1>4. UNCHANGED <<queue, created, tool_results, approvals>>
  BY DEF CallFails, Fail, FailRetryably, SaveAndReturn, SaveAndRaise, StaleSave,
         save_workflow, storeVars
<1> QED
  BY <1>1, <1>2, <1>3, <1>4

LEMMA ReceiveStepType ==
  ASSUME StoreTypeOK, LocalTypeOK, NEW w \in Workers, NEW i \in DOMAIN queue,
         ReceiveMessage(w, i)
  PROVE  /\ StoreStepOK /\ LocalTypeOK' /\ OthersKeep(w)
         /\ wpc'[w] = "load"
         /\ delivery'[w] = [id |-> i, task_id |-> queue[i].task_id,
                            attempts |-> queue[i].attempts + 1]
         /\ MessageStep /\ OnlyQueueChanges /\ UNCHANGED Budgets /\ OnlyRow(i)
         /\ Receivable(queue[i])
         /\ queue'[i] = [queue[i] EXCEPT !.status = "PROCESSING", !.attempts = @ + 1,
                                         !.delayed = FALSE, !.expired = FALSE]
<1>1. /\ StoreStepOK /\ MessageStep /\ OnlyQueueChanges /\ OnlyRow(i)
      /\ Receivable(queue[i])
      /\ queue'[i] = [queue[i] EXCEPT !.status = "PROCESSING", !.attempts = @ + 1,
                                      !.delayed = FALSE, !.expired = FALSE]
  BY ReceiveType DEF ReceiveMessage
<1>2. /\ wpc' = [wpc EXCEPT ![w] = "load"]
      /\ delivery' = [delivery EXCEPT ![w] = [id |-> i, task_id |-> queue[i].task_id,
                                              attempts |-> queue[i].attempts + 1]]
      /\ UNCHANGED <<state, call, result, Budgets>>
  BY DEF ReceiveMessage, Goto
<1>3. queue[i] \in QueueRow /\ i \in Nat
  BY RowType DEF StoreTypeOK
<1>4. queue[i].attempts \in Nat /\ queue[i].task_id \in Tasks
  BY <1>3 DEF QueueRow
<1>5. queue[i].attempts + 1 \in Nat
  BY <1>4, SMT
<1>6. [id |-> i, task_id |-> queue[i].task_id, attempts |-> queue[i].attempts + 1] \in Delivery
  BY <1>3, <1>4, <1>5 DEF Delivery
<1>7. LocalTypeOK'
  BY <1>2, <1>6 DEF LocalTypeOK, CallChosen, CallPC, WorkerPC, RuntimePC
<1> QED
  BY <1>1, <1>2, <1>7 DEF OthersKeep, LocalTypeOK

-----------------------------------------------------------------------------
(* The steps of a request *)

\* What a request does as it does on SQLite.
SharedRequest(h) == ApproveResolve(h) \/ ApproveSave(h) \/ RejectResolve(h) \/ RejectSave(h)

LEMMA SharedRequestStep ==
  ASSUME NEW h \in Handlers, SharedRequest(h)
  PROVE  HandlerStep(h) /\ UNCHANGED queue
BY DEF SharedRequest, HandlerStep, ApproveResolve, ApproveSave, RejectResolve, RejectSave,
       Resolve, resolve_approval, StaleRequest, save_workflow, storeVars

\* What a replay request may name: a letter, or none.
AnyReceipt == letters \cup {NoLetter}

LEMMA ControlWays ==
  ASSUME NEW h \in Handlers, AWSControlStep(h)
  PROVE  \/ SharedRequest(h) /\ UNCHANGED letter
         \/ ReplaySave(h)
         \/ ReplayDelete(h)
         \/ SendMessage(h)
         \/ \E task \in Tasks : CreateOnAWS(h, task)
         \/ (\E task \in Tasks : Approve(h, task) \/ Reject(h, task)) /\ UNCHANGED letter
         \/ \E i \in AnyReceipt, task \in Tasks : OpenReplay(h, i, task)
BY DEF AWSControlStep, AnyReceipt, AWSHandlerStep, SharedRequest

LetterInHand == \A h \in Handlers : hpc[h] \in ReplayPC => letter[h] \in AnyReceipt

LetterType ==
    /\ letters \subseteq DOMAIN queue
    /\ letter \in [Handlers -> Nat]
    /\ LetterInHand
    /\ astray \subseteq AnyReceipt

ControlOK ==
    /\ StoreStepOK /\ ControlTypeOK' /\ MessageStep
    /\ letter' \in [Handlers -> Nat]
    /\ \A h \in Handlers : hpc'[h] \in ReplayPC => letter'[h] \in AnyReceipt

LEMMA SameLetters ==
  ASSUME LetterType, UNCHANGED letter, \A h \in Handlers : hpc'[h] \in ReplayPC => hpc[h] \in ReplayPC
  PROVE  /\ letter' \in [Handlers -> Nat]
         /\ \A h \in Handlers : hpc'[h] \in ReplayPC => letter'[h] \in AnyReceipt
BY DEF LetterType, LetterInHand

LEMMA SharedRequestType ==
  ASSUME StoreTypeOK, ControlTypeOK, LetterType, NEW h \in Handlers, UNCHANGED letter,
         \/ SharedRequest(h)
         \/ \E task \in Tasks : Approve(h, task) \/ Reject(h, task)
  PROVE  ControlOK
<1>1. CASE SharedRequest(h)
  <2>1. StoreStepOK /\ ControlTypeOK' /\ MessageStep
    BY <1>1, SharedRequestStep, HandlerStepType DEF MessageStep
  <2>2. \A g \in Handlers : hpc'[g] \in ReplayPC => hpc[g] \in ReplayPC
    BY <1>1
    DEF SharedRequest, ApproveResolve, ApproveSave, RejectResolve, RejectSave, Resolve,
        StaleRequest, HGoto, Respond, ControlTypeOK, ReplayPC
  <2> QED
    BY <2>1, <2>2, SameLetters DEF ControlOK
<1>2. ASSUME NEW task \in Tasks, Approve(h, task) \/ Reject(h, task) PROVE ControlOK
  <2>1. StoreStepOK /\ ControlTypeOK' /\ MessageStep
    BY <1>2, OpenType DEF Approve, Reject, Open, HandlerPC, MessageStep, storeVars
  <2>2. \A g \in Handlers : hpc'[g] \in ReplayPC => hpc[g] \in ReplayPC
    BY <1>2 DEF Approve, Reject, Open, ControlTypeOK, ReplayPC
  <2> QED
    BY <2>1, <2>2, SameLetters DEF ControlOK
<1> QED
  BY <1>1, <1>2

LEMMA ReplaySaveType ==
  ASSUME StoreTypeOK, ControlTypeOK, LetterType, NEW h \in Handlers, ReplaySave(h)
  PROVE  ControlOK
<1>1. htask[h] \in Tasks /\ hstate[h] \in Checkpoint
  BY HandlerTypes
<1>2. UNCHANGED letter /\ hpc[h] = "replay_save"
  BY DEF ReplaySave
<1>3. CASE /\ save_workflow(htask[h], [hstate[h] EXCEPT !.status = "QUEUED"])
           /\ hpc' = [hpc EXCEPT ![h] = "replay_send"]
           /\ replays' = replays + 1
           /\ UNCHANGED <<htask, hstate>>
  <2>1. [hstate[h] EXCEPT !.status = "QUEUED"] \in Checkpoint
    BY <1>1, StatusType DEF WorkflowStatus
  <2>2. StoreStepOK
    BY <1>1, <1>3, <2>1, SaveWorkflowType DEF StoreStepOK
  <2>3. replays' \in Nat
    BY <1>3, SMT DEF ControlTypeOK
  <2>4. ControlTypeOK'
    BY <1>3, <2>3 DEF ControlTypeOK, HandlerPC
  <2>5. \A g \in Handlers : hpc'[g] \in ReplayPC => hpc[g] \in ReplayPC
    BY <1>2, <1>3 DEF ControlTypeOK, ReplayPC
  <2> QED
    BY <1>2, <1>3, <2>2, <2>4, <2>5, SameLetters DEF ControlOK, MessageStep, save_workflow
<1>4. CASE StaleRequest(h)
  <2>1. StoreStepOK /\ ControlTypeOK'
    BY <1>4, StoreUnchanged, RespondType DEF StaleRequest
  <2>2. \A g \in Handlers : hpc'[g] \in ReplayPC => hpc[g] \in ReplayPC
    BY <1>4 DEF StaleRequest, Respond, ControlTypeOK, ReplayPC
  <2> QED
    BY <1>2, <1>4, <2>1, <2>2, SameLetters DEF ControlOK, MessageStep, StaleRequest, storeVars
<1> QED
  BY <1>3, <1>4 DEF ReplaySave

LEMMA ReplayDeleteType ==
  ASSUME StoreTypeOK, ControlTypeOK, LetterType, NEW h \in Handlers, ReplayDelete(h)
  PROVE  ControlOK /\ letter[h] \in AnyReceipt
<1>1. /\ letter[h] \in AnyReceipt
      /\ letter[h] # NoLetter => letter[h] \in letters /\ letter[h] \in DOMAIN queue
  BY DEF ReplayDelete, LetterType, LetterInHand, ReplayPC, AnyReceipt
<1>2. StoreStepOK /\ MessageStep
  <2>1. CASE letter[h] # NoLetter /\ delete_message(letter[h])
    BY <1>1, <2>1, DeleteType
  <2>2. CASE UNCHANGED storeVars
    BY <2>2, StoreUnchanged DEF MessageStep, storeVars
  <2> QED
    BY <2>1, <2>2 DEF ReplayDelete
<1>3. ControlTypeOK' /\ UNCHANGED letter
  BY RespondType DEF ReplayDelete
<1>4. \A g \in Handlers : hpc'[g] \in ReplayPC => hpc[g] \in ReplayPC
  BY DEF ReplayDelete, Respond, ControlTypeOK, ReplayPC
<1> QED
  BY <1>1, <1>2, <1>3, <1>4, SameLetters DEF ControlOK

LEMMA SendMessageType ==
  ASSUME StoreTypeOK, ControlTypeOK, LetterType, NEW h \in Handlers, SendMessage(h)
  PROVE  ControlOK
<1>1. htask[h] \in Tasks
  BY HandlerTypes
<1>2. StoreStepOK /\ MessageStep
  BY <1>1, SendType DEF SendMessage
<1>3. ControlTypeOK' /\ UNCHANGED letter
  BY RespondType, HGotoType DEF SendMessage, HandlerPC
<1>4. \A g \in Handlers : hpc'[g] \in ReplayPC => hpc[g] \in ReplayPC
  BY DEF SendMessage, HGoto, Respond, ControlTypeOK, ReplayPC
<1> QED
  BY <1>2, <1>3, <1>4, SameLetters DEF ControlOK

LEMMA CreateOnAWSType ==
  ASSUME StoreTypeOK, ControlTypeOK, LetterType, NEW h \in Handlers, NEW task \in Tasks,
         CreateOnAWS(h, task)
  PROVE  ControlOK
<1>1. StoreStepOK /\ MessageStep
  BY NewWorkflowType
  DEF CreateOnAWS, put_workflow, StoreTypeOK, StoreStepOK, RowsKept, MessageStep
<1>2. ControlTypeOK' /\ UNCHANGED letter
  BY DEF CreateOnAWS, ControlTypeOK, HandlerPC
<1>3. \A g \in Handlers : hpc'[g] \in ReplayPC => hpc[g] \in ReplayPC
  BY DEF CreateOnAWS, ControlTypeOK, ReplayPC
<1> QED
  BY <1>1, <1>2, <1>3, SameLetters DEF ControlOK

LEMMA OpenReplayType ==
  ASSUME StoreTypeOK, ControlTypeOK, LetterType, NEW h \in Handlers, NEW i \in AnyReceipt,
         NEW task \in Tasks, OpenReplay(h, i, task)
  PROVE  ControlOK
<1>1. i \in Nat
  <2>1. i \in DOMAIN queue => i \in Nat
    BY DEF StoreTypeOK
  <2>2. NoLetter \in Nat
    BY DEF NoLetter
  <2> QED
    BY <2>1, <2>2 DEF LetterType, AnyReceipt
<1>2. workflows[task] \in Checkpoint
  BY DEF StoreTypeOK
<1>3. StoreStepOK /\ MessageStep
  BY StoreUnchanged DEF OpenReplay, MessageStep, storeVars
<1>4. ControlTypeOK'
  BY <1>2 DEF OpenReplay, ControlTypeOK, HandlerPC
<1>5. letter' \in [Handlers -> Nat]
  BY <1>1 DEF OpenReplay, LetterType
<1>6. \A g \in Handlers : hpc'[g] \in ReplayPC => letter'[g] \in AnyReceipt
  BY DEF OpenReplay, LetterType, LetterInHand, ControlTypeOK
<1> QED
  BY <1>3, <1>4, <1>5, <1>6 DEF ControlOK

LEMMA AWSControlType ==
  ASSUME StoreTypeOK, ControlTypeOK, LetterType, NEW h \in Handlers, AWSControlStep(h)
  PROVE  ControlOK
BY ControlWays, SharedRequestType, ReplaySaveType, ReplayDeleteType, SendMessageType,
   CreateOnAWSType, OpenReplayType

-----------------------------------------------------------------------------
(* Types *)

\* Outside the dead-letter queue no message is dead, and inside it every message is dead
\* or deleted: only a message that is not a letter can be received.
LettersApart ==
    \A i \in DOMAIN queue :
        /\ queue[i].status = "DEAD" => i \in letters
        /\ i \in letters => queue[i].status \in {"DEAD", "COMPLETED"}

AWSTypeInv == AWSTypeOK /\ LettersApart

LettersGrow ==
    /\ letters' = letters \cup DeadMessages'
    /\ astray' = astray \cup JustAstray'

\* A letter is a message that was one before, or one that is new in the queue.
LEMMA NewLetters ==
  ASSUME StoreTypeOK, letters \subseteq DOMAIN queue, LettersApart, MessageStep, LettersGrow
  PROVE  /\ LettersApart'
         /\ letters' \subseteq DOMAIN queue'
         /\ letters \subseteq letters'
         /\ DOMAIN queue \subseteq DOMAIN queue'
         /\ \A i \in DOMAIN queue : i \in letters' => i \in letters
<1>1. CASE queue' = queue
  BY <1>1 DEF LettersApart, LettersGrow, DeadMessages
<1>2. ASSUME NEW i \in DOMAIN queue, OnlyRow(i), MessageWay(i, queue[i], queue'[i])
      PROVE  /\ LettersApart'
             /\ letters' \subseteq DOMAIN queue'
             /\ DOMAIN queue \subseteq DOMAIN queue'
             /\ \A j \in DOMAIN queue : j \in letters' => j \in letters
  <2>1. queue'[i].status = "DEAD" => i \in letters
    BY <1>2 DEF MessageWay
  <2>2. i \in letters => queue'[i].status \in {"DEAD", "COMPLETED"}
    BY <1>2 DEF MessageWay, LettersApart, Receivable
  <2>3. letters' = letters
    BY <1>2, <2>1 DEF OnlyRow, SameDomain, LettersApart, LettersGrow, DeadMessages
  <2> QED
    BY <1>2, <2>1, <2>2, <2>3 DEF OnlyRow, SameDomain, LettersApart
<1>3. ASSUME NEW row \in QueueRow, row.status \in {"PENDING", "DEAD"}, queue' = Append(queue, row)
      PROVE  /\ LettersApart'
             /\ letters' \subseteq DOMAIN queue'
             /\ DOMAIN queue \subseteq DOMAIN queue'
             /\ \A j \in DOMAIN queue : j \in letters' => j \in letters
  <2>1. queue \in Seq(QueueRow)
    BY DEF StoreTypeOK
  <2>2. /\ DOMAIN queue' = DOMAIN queue \cup {Len(queue) + 1}
        /\ Len(queue) + 1 \notin DOMAIN queue
        /\ queue'[Len(queue) + 1] = row
    BY <1>3, <2>1
  <2>3. \A j \in DOMAIN queue : queue'[j] = queue[j]
    BY <1>3, <2>1
  <2>4. PICK n : n = Len(queue) + 1
    OBVIOUS
  <2>5. letters' = letters \cup {j \in {n} : row.status = "DEAD"}
    BY <2>2, <2>3, <2>4 DEF LettersApart, LettersGrow, DeadMessages
  <2> QED
    BY <1>3, <2>2, <2>3, <2>4, <2>5 DEF LettersApart
<1> QED
  BY <1>1, <1>2, <1>3 DEF MessageStep, LettersGrow

LEMMA AstrayType ==
  ASSUME astray \subseteq AnyReceipt, letters \subseteq letters', LettersGrow,
         \A h \in Handlers : hpc'[h] \in ReplayPC => letter'[h] \in AnyReceipt
  PROVE  astray' \subseteq AnyReceipt'
<1>1. \A i \in JustAstray' : i \in AnyReceipt
  BY DEF JustAstray, ReplayPC
<1> QED
  BY <1>1 DEF LettersGrow, AnyReceipt, NoLetter

LEMMA AWSTypeParts ==
  AWSTypeOK <=>
    /\ StoreTypeOK /\ LocalTypeOK /\ EffectsTypeOK /\ BudgetsTypeOK /\ ControlTypeOK /\ HoldsRow
    /\ errors \in Nat
    /\ LetterType
    /\ HoldsNoLetter
BY TypeParts DEF AWSTypeOK, LetterType, LetterInHand, AnyReceipt, HoldsNoLetter

LEMMA AWSTypePartsNext ==
  ASSUME StoreTypeOK', LocalTypeOK', EffectsTypeOK', BudgetsTypeOK', ControlTypeOK', HoldsRow',
         errors' \in Nat, LetterType',
         HoldsNoLetter'
  PROVE  AWSTypeOK'
<1>1. TypeOK'
  BY TypePartsNext
<1> QED
  BY <1>1 DEF AWSTypeOK, LetterType, LetterInHand, AnyReceipt, HoldsNoLetter

\* Nobody claims a message, and everything else keeps its type.
LEMMA UnclaimedType ==
  ASSUME AWSTypeInv, StoreStepOK, LocalStepOK, EffectsTypeOK', BudgetsTypeOK', ControlTypeOK',
         errors' \in Nat, MessageStep, LettersGrow, letter' \in [Handlers -> Nat],
         \A h \in Handlers : hpc'[h] \in ReplayPC => letter'[h] \in AnyReceipt
  PROVE  AWSTypeInv'
<1>1. /\ StoreTypeOK /\ HoldsRow /\ letters \subseteq DOMAIN queue /\ LettersApart
      /\ HoldsNoLetter /\ astray \subseteq AnyReceipt
  BY AWSTypeParts DEF AWSTypeInv, LetterType
<1>2. /\ LettersApart' /\ letters' \subseteq DOMAIN queue' /\ letters \subseteq letters'
      /\ \A i \in DOMAIN queue : i \in letters' => i \in letters
  BY <1>1, NewLetters
<1>3. HoldsRow'
  BY <1>1, HoldsRowKept DEF StoreStepOK, LocalStepOK
<1>4. HoldsNoLetter'
  BY <1>1, <1>2 DEF LocalStepOK, NothingClaimed, HoldsRow, HoldsNoLetter
<1>5. LetterType'
  BY <1>1, <1>2, AstrayType DEF LetterType, LetterInHand, AnyReceipt, NoLetter
<1> QED
  BY <1>2, <1>3, <1>4, <1>5, AWSTypePartsNext DEF StoreStepOK, LocalStepOK, AWSTypeInv

LEMMA WorkerStepAWSType ==
  ASSUME AWSTypeInv, NEW w \in Workers, AWSRunOnce(w), UNCHANGED <<handlerVars, letter>>,
         LettersGrow
  PROVE  AWSTypeInv'
<1>1. /\ StoreTypeOK /\ LocalTypeOK /\ EffectsTypeOK /\ BudgetsTypeOK /\ ControlTypeOK /\ HoldsRow
      /\ errors \in Nat /\ LetterType /\ LettersApart /\ TypeOK
      /\ HoldsNoLetter
  BY AWSTypeParts DEF AWSTypeInv, AWSTypeOK
<1>2. ControlTypeOK'
  BY <1>1 DEF handlerVars, ControlTypeOK
<1>3. /\ letter' \in [Handlers -> Nat]
      /\ \A h \in Handlers : hpc'[h] \in ReplayPC => letter'[h] \in AnyReceipt
  BY <1>1, SameLetters DEF handlerVars
<1>4. CASE SharedStep(w) /\ UNCHANGED errors
  <2>1. RunOnceStep(w) /\ queue' = queue
    BY <1>4, SharedRunOnce
  <2>2. StoreTypeOK' /\ LocalTypeOK' /\ EffectsTypeOK' /\ BudgetsTypeOK' /\ HoldsRow'
    BY <1>1, <2>1, RunOnceStepType
  <2>3. NothingClaimed
    BY <1>1, <1>4, SharedType DEF LocalStepOK
  <2>4. StoreStepOK /\ LocalStepOK /\ MessageStep
    BY <2>1, <2>2, <2>3 DEF StoreStepOK, RowsKept, LocalStepOK, MessageStep
  <2> QED
    BY <1>1, <1>2, <1>3, <1>4, <2>2, <2>4, UnclaimedType
<1>5. CASE (\E i \in DOMAIN queue : ReceiveMessage(w, i)) /\ UNCHANGED errors
  <2>1. PICK i \in DOMAIN queue : ReceiveMessage(w, i)
    BY <1>5
  <2>2. /\ StoreStepOK /\ LocalTypeOK' /\ OthersKeep(w) /\ MessageStep
        /\ UNCHANGED Budgets /\ Receivable(queue[i])
    BY <1>1, <2>1, ReceiveStepType
  <2>2a. delivery'[w].id = i
    BY <1>1, <2>1 DEF ReceiveMessage, LocalTypeOK
  <2>3. /\ LettersApart' /\ letters' \subseteq DOMAIN queue' /\ letters \subseteq letters'
        /\ \A j \in DOMAIN queue : j \in letters' => j \in letters
    BY <1>1, <2>2, NewLetters DEF LetterType
  <2>4. i \notin letters
    BY <1>1, <2>2 DEF LettersApart, Receivable
  <2>5. HoldsRow' /\ HoldsNoLetter'
    BY <1>1, <2>2, <2>2a, <2>3, <2>4
    DEF HoldsRow, HoldsNoLetter, StoreStepOK, RowsKept, OthersKeep
  <2>6. EffectsTypeOK' /\ BudgetsTypeOK' /\ errors' \in Nat
    BY <1>1, <1>5, <2>2 DEF Budgets, EffectsTypeOK, BudgetsTypeOK
  <2>7. LetterType'
    BY <1>1, <1>3, <2>3, AstrayType DEF LetterType, LetterInHand, AnyReceipt, NoLetter
  <2> QED
    BY <1>2, <2>2, <2>3, <2>5, <2>6, <2>7, AWSTypePartsNext DEF StoreStepOK, AWSTypeInv
<1>6. errors + 1 \in Nat
  BY <1>1, SMT
<1>7. CASE CallFails(w) /\ errors' = errors + 1
  <2>1. StoreStepOK /\ LocalStepOK /\ queue' = queue
    BY <1>1, <1>7, FailLeaves
  <2>2. EffectsTypeOK' /\ BudgetsTypeOK'
    BY <1>1, <1>7 DEF CallFails, Budgets, EffectsTypeOK, BudgetsTypeOK
  <2> QED
    BY <1>2, <1>3, <1>6, <1>7, <2>1, <2>2, UnclaimedType DEF MessageStep
<1>8. CASE Leaves(w) /\ StoreStepOK /\ MessageStep /\ errors' \in {errors, errors + 1}
  <2>1. LocalStepOK
    BY <1>1, <1>8, LeavesType
  <2>2. EffectsTypeOK' /\ BudgetsTypeOK'
    BY <1>1, <1>8 DEF Leaves, Budgets, EffectsTypeOK, BudgetsTypeOK
  <2> QED
    BY <1>1, <1>2, <1>3, <1>6, <1>8, <2>1, <2>2, UnclaimedType
<1> QED
  BY <1>1, <1>4, <1>5, <1>7, <1>8, WorkerWays

LEMMA ExpireMessage ==
  ASSUME StoreTypeOK, NEW i \in DOMAIN queue, LeaseExpires(i)
  PROVE  StoreStepOK /\ MessageStep /\ OnlyQueueChanges
<1>1. StoreStepOK
  BY LeaseExpiresType
<1>2. OnlyRow(i) /\ queue[i].status = "PROCESSING" /\ queue'[i].status = "PROCESSING"
  BY ExpiredRow
<1>3. queue'[i].task_id = queue[i].task_id
  BY <1>1 DEF StoreStepOK, RowsKept
<1> QED
  BY <1>1, <1>2, <1>3 DEF MessageStep, MessageWay, LeaseExpires, OnlyQueueChanges

LEMMA FaultType ==
  ASSUME AWSTypeInv, UNCHANGED <<handlerVars, errors, letter>>, LettersGrow,
         \/ \E w \in Workers : WorkerCrash(w)
         \/ \E i \in DOMAIN queue : LeaseExpires(i) \/ Resurrect(i)
  PROVE  AWSTypeInv'
<1>1. /\ StoreTypeOK /\ LocalTypeOK /\ EffectsTypeOK /\ BudgetsTypeOK /\ ControlTypeOK
      /\ errors \in Nat /\ LetterType
  BY AWSTypeParts DEF AWSTypeInv
<1>2. ControlTypeOK' /\ errors' \in Nat
  BY <1>1 DEF handlerVars, ControlTypeOK
<1>3. /\ letter' \in [Handlers -> Nat]
      /\ \A h \in Handlers : hpc'[h] \in ReplayPC => letter'[h] \in AnyReceipt
  BY <1>1, SameLetters DEF handlerVars
<1>4. crashes + 1 \in Nat /\ stalls + 1 \in Nat
  BY <1>1, SMT DEF BudgetsTypeOK
<1>5. ASSUME NEW w \in Workers, WorkerCrash(w) PROVE AWSTypeInv'
  <2>1. StoreStepOK /\ LocalStepOK /\ MessageStep
    BY <1>1, <1>5, StoreUnchanged, FinishType DEF WorkerCrash, MessageStep, storeVars
  <2>2. EffectsTypeOK' /\ BudgetsTypeOK'
    BY <1>1, <1>4, <1>5 DEF WorkerCrash, EffectsTypeOK, BudgetsTypeOK
  <2> QED
    BY <1>2, <1>3, <2>1, <2>2, UnclaimedType
<1>6. ASSUME NEW i \in DOMAIN queue, LeaseExpires(i) PROVE AWSTypeInv'
  <2>1. StoreStepOK /\ LocalStepOK /\ MessageStep
    BY <1>1, <1>6, ExpireMessage, LocalUnchanged DEF LeaseExpires, runtimeVars
  <2>2. EffectsTypeOK' /\ BudgetsTypeOK'
    BY <1>1, <1>4, <1>6 DEF LeaseExpires, runtimeVars, EffectsTypeOK, BudgetsTypeOK
  <2> QED
    BY <1>2, <1>3, <2>1, <2>2, UnclaimedType
<1>7. ASSUME NEW i \in DOMAIN queue, Resurrect(i) PROVE AWSTypeInv'
  <2>1. StoreStepOK /\ LocalStepOK /\ MessageStep
    BY <1>1, <1>7, ResurrectType, LocalUnchanged DEF Resurrect, runtimeVars
  <2>2. EffectsTypeOK' /\ BudgetsTypeOK'
    BY <1>1, <1>4, <1>7 DEF Resurrect, runtimeVars, EffectsTypeOK, BudgetsTypeOK
  <2> QED
    BY <1>2, <1>3, <2>1, <2>2, UnclaimedType
<1> QED
  BY <1>5, <1>6, <1>7

LEMMA AWSTypeInvNext ==
  ASSUME AWSTypeInv, [AWSNext]_awsVars
  PROVE  AWSTypeInv'
<1>1. /\ StoreTypeOK /\ LocalTypeOK /\ EffectsTypeOK /\ BudgetsTypeOK /\ ControlTypeOK
      /\ errors \in Nat /\ LetterType /\ LettersApart
  BY AWSTypeParts DEF AWSTypeInv
<1>2. ASSUME LettersGrow, NEW h \in Handlers, AWSControlStep(h), UNCHANGED <<workerVars, errors>>
      PROVE  AWSTypeInv'
  <2>1. ControlOK
    BY <1>1, <1>2, AWSControlType
  <2>2. LocalStepOK /\ EffectsTypeOK' /\ BudgetsTypeOK'
    BY <1>1, <1>2, LocalUnchanged DEF workerVars, runtimeVars, EffectsTypeOK, BudgetsTypeOK
  <2> QED
    BY <1>1, <1>2, <2>1, <2>2, UnclaimedType DEF ControlOK
<1>3. ASSUME LettersGrow, NEW h \in Handlers, HandlerCrash(h), UNCHANGED <<errors, letter>>
      PROVE  AWSTypeInv'
  <2>1. StoreStepOK /\ LocalStepOK /\ MessageStep /\ ControlTypeOK'
    BY <1>1, <1>3, StoreUnchanged, LocalUnchanged, RespondType
    DEF HandlerCrash, runtimeVars, MessageStep, storeVars
  <2>2. crashes' \in Nat
    BY <1>1, <1>3, SMT DEF HandlerCrash, BudgetsTypeOK
  <2>3. EffectsTypeOK' /\ BudgetsTypeOK'
    BY <1>1, <1>3, <2>2 DEF HandlerCrash, runtimeVars, EffectsTypeOK, BudgetsTypeOK
  <2>4. \A g \in Handlers : hpc'[g] \in ReplayPC => hpc[g] \in ReplayPC
    BY <1>1, <1>3 DEF HandlerCrash, Respond, ControlTypeOK, ReplayPC
  <2> QED
    BY <1>1, <1>3, <2>1, <2>3, <2>4, SameLetters, UnclaimedType
<1>4. CASE UNCHANGED awsVars
  BY <1>4, AWSTypeParts, AWSTypePartsNext
  DEF AWSTypeInv, awsVars, vars, storeVars, workerVars, runtimeVars, localVars, handlerVars,
      StoreTypeOK, LocalTypeOK, CallChosen, EffectsTypeOK, BudgetsTypeOK, ControlTypeOK, HoldsRow,
      LetterType, LetterInHand, AnyReceipt, LettersApart, HoldsNoLetter
<1> QED
  BY <1>2, <1>3, <1>4, WorkerStepAWSType, FaultType DEF AWSNext, AWSStep, LettersGrow

LEMMA AWSTypeInvInit == AWSInit => AWSTypeInv
<1> SUFFICES ASSUME AWSInit PROVE AWSTypeInv
  OBVIOUS
<1>1. TypeOK
  BY InitType DEF AWSInit
<1>2. queue = <<>>
  BY DEF AWSInit, Init, StoreInit
<1>3. \A h \in Handlers : hpc[h] = "idle"
  BY DEF AWSInit, Init, ControlInit
<1> QED
  BY <1>1, <1>2, <1>3 DEF AWSInit, AWSTypeInv, AWSTypeOK, LettersApart, ReplayPC, NoLetter

LEMMA AWSTypeInvHolds == AWSSpec => []AWSTypeInv
BY AWSTypeInvInit, AWSTypeInvNext, PTL DEF AWSSpec

\* Every variable has its type, a worker never holds a dead letter, and a replay names one
\* or none.
THEOREM AWSTypeCorrect == AWSSpec => []AWSTypeOK
<1>1. AWSTypeInv => AWSTypeOK
  BY DEF AWSTypeInv
<1> QED
  BY <1>1, AWSTypeInvHolds, PTL

-----------------------------------------------------------------------------
(* The policy *)

LEMMA WorkerApprovals ==
  ASSUME AWSTypeInv, NEW w \in Workers, AWSRunOnce(w)
  PROVE  /\ ApprovalsForward
         /\ OthersKeep(w)
         /\ \/ RunOnceStep(w)
            \/ Elsewhere(w) /\ UNCHANGED Budgets
<1>1. StoreTypeOK /\ LocalTypeOK /\ HoldsRow /\ HoldsNoLetter
  BY AWSTypeParts DEF AWSTypeInv
<1>2. CASE SharedStep(w)
  <2>1. RunOnceStep(w)
    BY <1>2, SharedRunOnce
  <2>2. ApprovalsForward
    <3>1. CASE ProcessStep(w)
      BY <1>1, <3>1, ProcessApprovals
    <3>2. CASE DeadLoad(w) \/ DeadSave(w) \/ PermanentLoad(w) \/ PermanentSave(w)
      BY <3>2
      DEF DeadLoad, DeadSave, PermanentLoad, PermanentSave, Reload, SaveFinal, save_workflow,
          storeVars, ApprovalsForward
    <3> QED
      BY <1>2, <3>1, <3>2 DEF SharedStep
  <2> QED
    BY <1>1, <2>1, <2>2, RunOnceOthersKeep
<1>3. ASSUME NEW i \in DOMAIN queue, ReceiveMessage(w, i)
      PROVE  ApprovalsForward /\ OthersKeep(w) /\ Elsewhere(w) /\ UNCHANGED Budgets
  BY <1>1, <1>3, ReceiveStepType DEF OnlyQueueChanges, ApprovalsForward, Elsewhere
<1>4. CASE CallFails(w)
  BY <1>1, <1>4, FailLeaves DEF ApprovalsForward, Elsewhere, CallFails
<1>5. CASE Leaves(w)
  <2>1. Elsewhere(w)
    BY <1>1, <1>5, LeavesType DEF Elsewhere, LeavePC
  <2> QED
    BY <1>1, <1>5, <2>1, LeavesType DEF Leaves, OnlyQueueChanges, ApprovalsForward
<1> QED
  BY <1>1, <1>2, <1>3, <1>4, <1>5, WorkerWays

LEMMA ControlApprovals ==
  ASSUME StoreTypeOK, NEW h \in Handlers, AWSControlStep(h)
  PROVE  ApprovalsForward
<1>1. CASE ApproveResolve(h) \/ RejectResolve(h)
  BY <1>1, ApprovalOps DEF ApproveResolve, RejectResolve, Resolve, ApprovalsForward, storeVars
<1>2. CASE ApproveSave(h) \/ RejectSave(h)
  BY <1>2 DEF ApproveSave, RejectSave, StaleRequest, save_workflow, storeVars, ApprovalsForward
<1>3. CASE ReplaySave(h) \/ ReplayDelete(h) \/ SendMessage(h)
  BY <1>3
  DEF ReplaySave, StaleRequest, save_workflow, ReplayDelete, delete_message, SetMessage,
      SendMessage, send_message, OnlyQueueChanges, storeVars, ApprovalsForward
<1>4. ASSUME NEW task \in Tasks, CreateOnAWS(h, task) \/ Approve(h, task) \/ Reject(h, task)
      PROVE  ApprovalsForward
  BY <1>4 DEF CreateOnAWS, put_workflow, Approve, Reject, Open, storeVars, ApprovalsForward
<1>5. ASSUME NEW i \in AnyReceipt, NEW task \in Tasks, OpenReplay(h, i, task)
      PROVE  ApprovalsForward
  BY <1>5 DEF OpenReplay, storeVars, ApprovalsForward
<1> QED
  BY <1>1, <1>2, <1>3, <1>4, <1>5, ControlWays DEF SharedRequest

LEMMA StillGate ==
  ASSUME TypeOK, GateInv, ApprovalsForward, UNCHANGED <<runtimeVars>>
  PROVE  GateInv'
<1>1. \A v \in Workers : Gated(v)'
  BY GatedKept DEF GateInv, runtimeVars, localVars
<1>2. PolicyGate'
  BY PolicyGateKept DEF GateInv, runtimeVars
<1> QED
  BY <1>1, <1>2 DEF GateInv

LEMMA AWSGateNext ==
  ASSUME AWSTypeInv, GateInv, [AWSNext]_awsVars
  PROVE  GateInv'
<1>1. TypeOK /\ StoreTypeOK /\ LocalTypeOK
  BY AWSTypeParts DEF AWSTypeInv, AWSTypeOK
<1>2. ASSUME NEW w \in Workers, AWSRunOnce(w) PROVE GateInv'
  <2>1. ApprovalsForward /\ OthersKeep(w)
    BY <1>2, WorkerApprovals
  <2>2. Gated(w)'
    BY <1>1, <1>2, WorkerApprovals, GatedStep, ElsewhereIsGated DEF GateInv
  <2>3. \A v \in Workers : Gated(v)'
    BY <1>1, <2>1, <2>2, GatedKept DEF GateInv, OthersKeep
  <2>4. UNCHANGED effects \/ (wpc[w] = "backend" /\ Effect(CurrentKey(w)))
    BY <1>2, WorkerApprovals, EffectsOnlyAtBackend DEF Budgets
  <2>5. PolicyGate'
    BY <1>1, <2>1, <2>4, PolicyGateKept, PolicyGateEffect DEF GateInv
  <2> QED
    BY <2>3, <2>5 DEF GateInv
<1>3. ASSUME NEW w \in Workers, WorkerCrash(w) PROVE GateInv'
  <2>1. ApprovalsForward /\ UNCHANGED effects
    BY <1>3 DEF WorkerCrash, storeVars, ApprovalsForward
  <2>2. OthersKeep(w) /\ Elsewhere(w)
    BY <1>1, <1>3 DEF WorkerCrash, Finish, Goto, OthersKeep, Elsewhere, LocalTypeOK
  <2>3. \A v \in Workers : Gated(v)'
    BY <1>1, <2>1, <2>2, GatedKept, ElsewhereIsGated DEF GateInv, OthersKeep
  <2> QED
    BY <2>1, <2>3, PolicyGateKept DEF GateInv
<1>4. ASSUME NEW i \in DOMAIN queue, LeaseExpires(i) \/ Resurrect(i) PROVE GateInv'
  <2>1. ApprovalsForward /\ UNCHANGED runtimeVars
    BY <1>4 DEF LeaseExpires, Resurrect, SetMessage, OnlyQueueChanges, ApprovalsForward
  <2> QED
    BY <1>1, <2>1, StillGate
<1>5. ASSUME NEW h \in Handlers, AWSControlStep(h), UNCHANGED workerVars PROVE GateInv'
  BY <1>1, <1>5, ControlApprovals, StillGate DEF workerVars
<1>6. ASSUME NEW h \in Handlers, HandlerCrash(h) PROVE GateInv'
  <2>1. ApprovalsForward /\ UNCHANGED runtimeVars
    BY <1>6 DEF HandlerCrash, storeVars, ApprovalsForward
  <2> QED
    BY <1>1, <2>1, StillGate
<1>7. CASE UNCHANGED awsVars
  <2>1. ApprovalsForward /\ UNCHANGED runtimeVars
    BY <1>7 DEF awsVars, vars, storeVars, workerVars, ApprovalsForward
  <2> QED
    BY <1>1, <2>1, StillGate
<1> QED
  BY <1>2, <1>3, <1>4, <1>5, <1>6, <1>7 DEF AWSNext, AWSStep

\* On AWS as on SQLite no call reaches the infrastructure against the policy, whatever is
\* delivered twice, fails or is replayed.
THEOREM AWSPolicyGate == AWSSpec => []PolicyGate
<1>1. AWSInit => GateInv
  BY DEF AWSInit, Init, StoreInit, WorkerInit, RuntimeInit, GateInv, PolicyGate, Gated,
         action_id, Key
<1>2. AWSTypeInv /\ GateInv /\ [AWSNext]_awsVars => GateInv'
  BY AWSGateNext
<1>3. GateInv => PolicyGate
  BY DEF GateInv
<1> QED
  BY <1>1, <1>2, <1>3, AWSTypeInvHolds, PTL DEF AWSSpec

-----------------------------------------------------------------------------
(* Copies of checkpoints *)

\* A request that answers an approval.
AnswerPC == {"approve_resolve", "approve_save", "reject_resolve", "reject_save"}

\* A replay may be asked for a workflow that is over, so its copy may be terminal.
Matches(copy, task) ==
    /\ copy.version <= workflows[task].version
    /\ copy.version = workflows[task].version => copy = workflows[task]

MatchesAfter(copy, task) ==
    /\ copy.version <= workflows'[task].version
    /\ copy.version = workflows'[task].version => copy = workflows'[task]

AWSCopiesFresh ==
    /\ \A w \in Workers : wpc[w] \in CopyPC => FreshCopy(state[w], Task(w))
    /\ \A h \in Handlers :
        /\ hpc[h] \in AnswerPC => FreshCopy(hstate[h], htask[h])
        /\ hpc[h] = "replay_save" => Matches(hstate[h], htask[h])

AWSCheckpointInv == AWSCopiesFresh /\ ResultInHand /\ OnlyCreated

LEMMA MatchesKept ==
  ASSUME StoreTypeOK, StepShape, NEW task \in Tasks, NEW copy \in Checkpoint, Matches(copy, task)
  PROVE  MatchesAfter(copy, task)
<1>1. CASE workflows'[task] = workflows[task]
  BY <1>1 DEF Matches, MatchesAfter
<1>2. CASE Advanced(task)
  <2>1. copy.version \in Nat /\ workflows[task].version \in Nat
    BY DEF StoreTypeOK, Checkpoint
  <2>2. /\ copy.version <= workflows[task].version
        /\ workflows'[task].version = workflows[task].version + 1
    BY <1>2 DEF Advanced, Matches
  <2>3. copy.version <= workflows'[task].version /\ copy.version # workflows'[task].version
    BY <2>1, <2>2, SMT
  <2> QED
    BY <2>3 DEF MatchesAfter
<1> QED
  BY <1>1, <1>2 DEF StepShape

\* What is saved on the current version of a checkpoint, when the workflow may be over.
LEMMA ReplayShapeOnAWS ==
  ASSUME StoreTypeOK, NEW task \in Tasks, NEW copy \in Checkpoint, Matches(copy, task),
         save_workflow(task, [copy EXCEPT !.status = "QUEUED"]), replays \in Nat,
         replays' = replays + 1
  PROVE  StepShape /\ OnlyTask(task)
<1> DEFINE new == [copy EXCEPT !.status = "QUEUED"]
<1>1. "QUEUED" \in WorkflowStatus
  BY DEF WorkflowStatus
<1>2. new \in Checkpoint /\ Extends(copy, new) /\ new.version = copy.version
  BY <1>1, StatusType, StatusExtends
<1>3. save_workflow(task, new)
  OBVIOUS
<1> HIDE DEF new
<1>4. /\ workflows[task].version = new.version
      /\ workflows' = [workflows EXCEPT ![task] = Saved(new)]
      /\ copy = workflows[task]
  BY <1>2, <1>3 DEF save_workflow, VersionMatches, Matches
<1>5. Saved(new) \in Checkpoint /\ Saved(new).version = new.version + 1 /\ Extends(copy, Saved(new))
  BY <1>2, SavedType, ExtendsSaved
<1>6. workflows \in [Tasks -> Checkpoint] /\ replays' > replays
  BY SMT DEF StoreTypeOK
<1>7. Advanced(task)
  BY <1>2, <1>4, <1>5, <1>6 DEF Advanced
<1>8. \A t \in Tasks : t # task => workflows'[t] = workflows[t]
  BY <1>4, <1>6
<1> QED
  BY <1>3, <1>6, <1>7, <1>8, OnlyTaskSave DEF StepShape

-----------------------------------------------------------------------------
(* What a step of a worker does to checkpoints *)

LEMMA AWSRunOnceShape ==
  ASSUME AWSTypeInv, AWSCheckpointInv, NEW w \in Workers, AWSRunOnce(w)
  PROVE  /\ StepShape /\ OwnFresh(w) /\ OthersKeep(w)
         /\ wpc'[w] \in {"save_result", "record"} => result'[w] # NoResult
         /\ \E task \in created : OnlyTask(task)
         /\ wpc'[w] # "idle" => Task(w)' \in created
<1>1. /\ StoreTypeOK /\ LocalTypeOK /\ HoldsRow /\ HoldsNoLetter /\ ResultInHand /\ OnlyCreated
      /\ wpc[w] \in CopyPC => FreshCopy(state[w], Task(w))
      /\ wpc[w] # "idle" => Task(w) \in created
  BY AWSTypeParts DEF AWSTypeInv, AWSCheckpointInv, AWSCopiesFresh, OnlyCreated
<1>2. OthersKeep(w)
  BY WorkerApprovals
<1>3. CASE SharedStep(w)
  <2>1. RunOnceStep(w) /\ wpc[w] # "idle"
    BY <1>1, <1>3, SharedRunOnce, SharedType DEF Busy
  <2>2. StepShape /\ OwnFresh(w) /\ OnlyTask(Task(w))
    BY <1>1, <2>1, RunOnceShape, RunOnceOnlyTask
  <2>3. wpc'[w] \in {"save_result", "record"} => result'[w] # NoResult
    BY <1>1, <2>1, RunOnceResult
  <2>4. wpc'[w] # "idle" => delivery'[w] = delivery[w]
    BY <1>1, <1>3, SharedType DEF LocalStepOK, NothingClaimed
  <2> QED
    BY <1>1, <1>2, <2>1, <2>2, <2>3, <2>4 DEF Task
<1>4. ASSUME NEW i \in DOMAIN queue, ReceiveMessage(w, i)
      PROVE  /\ StepShape /\ OwnFresh(w) /\ wpc'[w] = "load"
             /\ \E task \in created : OnlyTask(task)
             /\ Task(w)' \in created
  <2>1. /\ OnlyQueueChanges /\ StoreStepOK /\ OnlyRow(i) /\ wpc'[w] = "load"
    BY <1>1, <1>4, ReceiveStepType
  <2>2. delivery'[w].task_id = queue[i].task_id
    BY <1>1, <1>4 DEF ReceiveMessage, LocalTypeOK
  <2>3. queue[i].task_id \in created
    BY <1>1 DEF OnlyCreated
  <2> QED
    BY <1>1, <2>1, <2>2, <2>3, AnyTask, ShapeUnchanged
    DEF OnlyQueueChanges, OwnFresh, CopyPC, RuntimePC, Task
<1>5. CASE CallFails(w)
  <2>1. /\ Busy(w) /\ wpc'[w] \in {"ack", "retry"} /\ delivery' = delivery
        /\ UNCHANGED <<queue, created>>
    BY <1>1, <1>5, FailLeaves
  <2>2. Holding(w) /\ state[w] \in Checkpoint
    BY <1>1, <1>5, <2>1, HeldTypes DEF Holding, CallFails, CopyPC, RuntimePC
  <2>3. PICK status \in {"QUEUED", "FAILED"} :
            \/ SaveAndReturn(w, [state[w] EXCEPT !.status = status])
            \/ SaveAndRaise(w, [state[w] EXCEPT !.status = status])
    BY <1>5 DEF CallFails, Fail, FailRetryably
  <2> DEFINE new == [state[w] EXCEPT !.status = status]
  <2>4. new \in Checkpoint /\ new.version = state[w].version /\ Extends(state[w], new)
    <3>1. status \in WorkflowStatus
      BY DEF WorkflowStatus
    <3> QED
      BY <2>2, <3>1, StatusType, StatusExtends
  <2>5. SaveAndReturn(w, new) \/ SaveAndRaise(w, new)
    BY <2>3
  <2> HIDE DEF new
  <2>6. StepShape /\ OwnFresh(w)
    BY <2>2, <2>4, <2>5, SaveAndLeaveShape
  <2>7. OnlyTask(Task(w))
    BY <1>1, <2>5, OnlyTaskSave, OnlyTaskUnchanged
    DEF SaveAndReturn, SaveAndRaise, StaleSave, storeVars
  <2> QED
    BY <1>1, <1>2, <2>1, <2>6, <2>7 DEF Task, Busy
<1>6. CASE Leaves(w) /\ OnlyTask(Task(w))
  <2>1. /\ wpc'[w] \in LeavePC \cup {"idle"}
        /\ wpc'[w] # "idle" => delivery'[w] = delivery[w]
    BY <1>1, <1>6, LeavesType
  <2>2. StepShape /\ OwnFresh(w)
    BY <1>6, <2>1, ShapeUnchanged DEF Leaves, OnlyQueueChanges, OwnFresh, CopyPC, RuntimePC, LeavePC
  <2> QED
    BY <1>1, <1>2, <1>6, <2>1, <2>2 DEF Leaves, LeavePC, Task
<1> QED
  BY <1>1, <1>2, <1>3, <1>4, <1>5, <1>6, WorkerWays

-----------------------------------------------------------------------------
(* What a request does to checkpoints *)

\* Request g has no copy it did not have.
Carries(g) ==
    /\ hpc'[g] # "idle" => hpc[g] # "idle" /\ htask'[g] = htask[g]
    /\ hpc'[g] \in AnswerPC => hpc[g] \in AnswerPC /\ hstate'[g] = hstate[g]
    /\ hpc'[g] = "replay_save" => hpc[g] = "replay_save" /\ hstate'[g] = hstate[g]

RequestFresh(g) ==
    /\ hpc'[g] \in AnswerPC => FreshAfter(hstate'[g], htask'[g])
    /\ hpc'[g] = "replay_save" => MatchesAfter(hstate'[g], htask'[g])

LEMMA CarriedFresh ==
  ASSUME AWSTypeInv, AWSCheckpointInv, StepShape, NEW g \in Handlers, Carries(g)
  PROVE  RequestFresh(g) /\ (hpc'[g] # "idle" => htask'[g] \in created)
<1>1. StoreTypeOK /\ htask[g] \in Tasks /\ hstate[g] \in Checkpoint
  BY AWSTypeParts, HandlerTypes DEF AWSTypeInv
<1>2. /\ hpc[g] \in AnswerPC => FreshCopy(hstate[g], htask[g])
      /\ hpc[g] = "replay_save" => Matches(hstate[g], htask[g])
      /\ hpc[g] # "idle" => htask[g] \in created
  BY DEF AWSCheckpointInv, AWSCopiesFresh, OnlyCreated
<1>3. ASSUME hpc'[g] \in AnswerPC PROVE FreshAfter(hstate'[g], htask'[g])
  BY <1>1, <1>2, <1>3, FreshKept DEF Carries, AnswerPC
<1>4. ASSUME hpc'[g] = "replay_save" PROVE MatchesAfter(hstate'[g], htask'[g])
  BY <1>1, <1>2, <1>4, MatchesKept DEF Carries
<1> QED
  BY <1>2, <1>3, <1>4 DEF RequestFresh, Carries

LEMMA AnswerShape ==
  ASSUME AWSTypeInv, AWSCheckpointInv, NEW h \in Handlers, SharedRequest(h)
  PROVE  StepShape /\ OnlyTask(htask[h]) /\ hpc[h] \in AnswerPC /\ \A g \in Handlers : Carries(g)
<1>1. /\ StoreTypeOK /\ ControlTypeOK /\ htask[h] \in Tasks /\ hstate[h] \in Checkpoint
  BY AWSTypeParts, HandlerTypes DEF AWSTypeInv
<1>2. hpc[h] \in AnswerPC
  BY DEF SharedRequest, ApproveResolve, ApproveSave, RejectResolve, RejectSave, AnswerPC
<1>3. FreshCopy(hstate[h], htask[h])
  BY <1>2 DEF AWSCheckpointInv, AWSCopiesFresh
<1>4. \A g \in Handlers : Carries(g)
  BY <1>1, <1>2
  DEF SharedRequest, ApproveResolve, ApproveSave, RejectResolve, RejectSave, Resolve,
      StaleRequest, Respond, HGoto, ControlTypeOK, Carries, AnswerPC
<1>5. StepShape /\ OnlyTask(htask[h])
  <2>1. CASE UNCHANGED <<created, workflows, queue>>
    BY <2>1, ShapeUnchanged, OnlyTaskUnchanged
  <2>2. CASE save_workflow(htask[h], [hstate[h] EXCEPT !.status = "QUEUED"])
    <3> DEFINE new == [hstate[h] EXCEPT !.status = "QUEUED"]
    <3>1. "QUEUED" \in WorkflowStatus
      BY DEF WorkflowStatus
    <3>2. new \in Checkpoint /\ new.version = hstate[h].version /\ Extends(hstate[h], new)
      BY <1>1, <3>1, StatusType, StatusExtends
    <3>3. save_workflow(htask[h], new)
      BY <2>2
    <3> HIDE DEF new
    <3> QED
      BY <1>1, <1>3, <3>2, <3>3, SaveShape, OnlyTaskSave
  <2>3. CASE save_workflow(htask[h], [hstate[h] EXCEPT !.status = "HUMAN_REJECTED",
                                                       !.pending_action = NoCall])
    <3> DEFINE copy == hstate[h]
               none == NoCall
               new == [copy EXCEPT !.status = "HUMAN_REJECTED", !.pending_action = none]
    <3>1. /\ copy \in Checkpoint /\ "HUMAN_REJECTED" \in WorkflowStatus
          /\ none \in Calls \cup {NoCall}
      BY <1>1 DEF WorkflowStatus
    <3>2. FreshCopy(copy, htask[h]) /\ save_workflow(htask[h], new)
      BY <1>3, <2>3
    <3> HIDE DEF copy, none
    <3>3. new \in Checkpoint
      BY <3>1, PendingType
    <3>4. new.version = copy.version /\ Extends(copy, new)
      BY <3>1, PendingExtends
    <3> HIDE DEF new
    <3> QED
      BY <1>1, <3>1, <3>2, <3>3, <3>4, SaveShape, OnlyTaskSave
  <2> QED
    BY <2>1, <2>2, <2>3
    DEF SharedRequest, ApproveResolve, ApproveSave, RejectResolve, RejectSave, Resolve,
        resolve_approval, StaleRequest, storeVars
<1> QED
  BY <1>2, <1>4, <1>5

LEMMA ReplayCheckpoints ==
  ASSUME AWSTypeInv, AWSCheckpointInv, NEW h \in Handlers,
         ReplaySave(h) \/ ReplayDelete(h) \/ SendMessage(h)
  PROVE  StepShape /\ OnlyTask(htask[h]) /\ hpc[h] # "idle" /\ \A g \in Handlers : Carries(g)
<1>1. /\ StoreTypeOK /\ ControlTypeOK /\ LetterType
      /\ htask[h] \in Tasks /\ hstate[h] \in Checkpoint
  BY AWSTypeParts, HandlerTypes DEF AWSTypeInv
<1>2. hpc[h] # "idle" /\ \A g \in Handlers : Carries(g)
  BY <1>1
  DEF ReplaySave, ReplayDelete, SendMessage, StaleRequest, Respond, HGoto, ControlTypeOK,
      Carries, AnswerPC
<1>3. CASE ReplaySave(h)
  <2>1. CASE StaleRequest(h)
    BY <1>2, <2>1, ShapeUnchanged, OnlyTaskUnchanged DEF StaleRequest, storeVars
  <2>2. CASE save_workflow(htask[h], [hstate[h] EXCEPT !.status = "QUEUED"]) /\ replays' = replays + 1
    <3>1. Matches(hstate[h], htask[h])
      BY <1>3 DEF ReplaySave, AWSCheckpointInv, AWSCopiesFresh
    <3> QED
      BY <1>1, <1>2, <2>2, <3>1, ReplayShapeOnAWS DEF ControlTypeOK
  <2> QED
    BY <1>3, <2>1, <2>2 DEF ReplaySave
<1>4. CASE ReplayDelete(h)
  <2>1. CASE letter[h] # NoLetter /\ delete_message(letter[h])
    <3>1. letter[h] \in DOMAIN queue
      BY <1>1, <1>4, <2>1, ReplayDeleteType DEF LetterType, AnyReceipt
    <3>2. StoreStepOK /\ OnlyRow(letter[h]) /\ OnlyQueueChanges
      BY <1>1, <1>4, <2>1, <3>1, DeleteType
    <3> QED
      BY <1>1, <1>2, <3>2, AnyTask, ShapeUnchanged DEF OnlyQueueChanges
  <2>2. CASE UNCHANGED storeVars
    BY <1>2, <2>2, ShapeUnchanged, OnlyTaskUnchanged DEF storeVars
  <2> QED
    BY <1>4, <2>1, <2>2 DEF ReplayDelete
<1>5. CASE SendMessage(h)
  <2>1. OnlyTask(htask[h]) /\ OnlyQueueChanges
    BY <1>1, <1>5, SendType DEF SendMessage
  <2> QED
    BY <1>2, <2>1, ShapeUnchanged DEF OnlyQueueChanges
<1> QED
  BY <1>2, <1>3, <1>4, <1>5

\* A request that gets its copy takes the row as it is.
LEMMA OpensFresh ==
  ASSUME AWSTypeInv, AWSCheckpointInv, NEW h \in Handlers,
         \/ \E task \in Tasks : Approve(h, task) \/ Reject(h, task)
         \/ \E i \in AnyReceipt, task \in Tasks : OpenReplay(h, i, task)
  PROVE  /\ UNCHANGED storeVars
         /\ RequestFresh(h)
         /\ htask'[h] \in created
         /\ \A g \in Handlers \ {h} : Carries(g)
<1>1. /\ StoreTypeOK /\ ControlTypeOK /\ OnlyCreated
  BY AWSTypeParts DEF AWSTypeInv, AWSCheckpointInv
<1>2. ASSUME NEW task \in Tasks, Approve(h, task) \/ Reject(h, task)
      PROVE  /\ UNCHANGED storeVars /\ htask'[h] = task /\ task \in created
             /\ hstate'[h] = workflows[task] /\ ~terminal(workflows[task])
             /\ hpc'[h] \in AnswerPC /\ \A g \in Handlers \ {h} : Carries(g)
  BY <1>1, <1>2
  DEF Approve, Reject, Open, ControlTypeOK, Carries, AnswerPC, terminal, TerminalStatus
<1>3. ASSUME NEW i \in AnyReceipt, NEW task \in Tasks, OpenReplay(h, i, task)
      PROVE  /\ UNCHANGED storeVars /\ htask'[h] = task /\ task \in created
             /\ hstate'[h] = workflows[task]
             /\ hpc'[h] = "replay_save" /\ \A g \in Handlers \ {h} : Carries(g)
  BY <1>1, <1>3
  DEF OpenReplay, ControlTypeOK, Carries, AnswerPC, OnlyCreated
<1>4. \A task \in Tasks : workflows[task].version \in Nat
  BY <1>1 DEF StoreTypeOK, Checkpoint
<1>5. created \subseteq Tasks
  BY <1>1 DEF StoreTypeOK
<1>6. ASSUME NEW task \in Tasks, UNCHANGED storeVars, hstate'[h] = workflows[task],
             htask'[h] = task
      PROVE  /\ hstate'[h].version <= workflows'[htask'[h]].version
             /\ hstate'[h] = workflows'[htask'[h]]
  <2>1. workflows[task].version <= workflows[task].version
    BY <1>4, SMT
  <2> QED
    BY <1>6, <2>1 DEF storeVars
<1>7. ASSUME NEW task \in Tasks, Approve(h, task) \/ Reject(h, task)
      PROVE  UNCHANGED storeVars /\ RequestFresh(h) /\ htask'[h] \in created
  <2>1. /\ UNCHANGED storeVars /\ htask'[h] = task /\ task \in created
        /\ hstate'[h] = workflows[task] /\ ~terminal(workflows[task])
        /\ hpc'[h] \in AnswerPC
    BY <1>7, <1>2
  <2>2. /\ hstate'[h].version <= workflows'[htask'[h]].version
        /\ hstate'[h] = workflows'[htask'[h]]
    BY <1>6, <2>1
  <2> QED
    BY <2>1, <2>2 DEF RequestFresh, FreshAfter, AnswerPC
<1>8. ASSUME NEW i \in AnyReceipt, NEW task \in Tasks, OpenReplay(h, i, task)
      PROVE  UNCHANGED storeVars /\ RequestFresh(h) /\ htask'[h] \in created
  <2>1. /\ UNCHANGED storeVars /\ htask'[h] = task /\ task \in created
        /\ hstate'[h] = workflows[task]
        /\ hpc'[h] = "replay_save"
    BY <1>8, <1>3
  <2>2. /\ hstate'[h].version <= workflows'[htask'[h]].version
        /\ hstate'[h] = workflows'[htask'[h]]
    BY <1>5, <1>6, <2>1
  <2> QED
    BY <2>1, <2>2 DEF RequestFresh, MatchesAfter, AnswerPC
<1> QED
  BY <1>2, <1>3, <1>7, <1>8

LEMMA CreateCheckpoint ==
  ASSUME AWSTypeInv, AWSCheckpointInv, NEW h \in Handlers, NEW task \in Tasks,
         CreateOnAWS(h, task)
  PROVE  /\ UNCHANGED <<workflows, queue>> /\ created' = created \cup {task}
         /\ RequestFresh(h) /\ htask'[h] \in created'
         /\ \A g \in Handlers \ {h} : Carries(g)
<1>1. StoreTypeOK /\ ControlTypeOK /\ OnlyCreated
  BY AWSTypeParts DEF AWSTypeInv, AWSCheckpointInv
<1>2. UNCHANGED <<workflows, queue>> /\ created' = created \cup {task}
  BY <1>1 DEF CreateOnAWS, put_workflow, OnlyCreated, StoreTypeOK
<1>3. hpc'[h] = "create_send" /\ htask'[h] = task
  BY <1>1 DEF CreateOnAWS, ControlTypeOK
<1>4. \A g \in Handlers \ {h} : Carries(g)
  BY <1>1 DEF CreateOnAWS, ControlTypeOK, Carries
<1> QED
  BY <1>2, <1>3, <1>4 DEF RequestFresh, AnswerPC

-----------------------------------------------------------------------------
(* No update is lost *)

LEMMA CopiesAfter ==
  ASSUME \A w \in Workers : OwnFresh(w), \A g \in Handlers : RequestFresh(g)
  PROVE  AWSCopiesFresh'
BY DEF AWSCopiesFresh, OwnFresh, RequestFresh, FreshAfter, FreshCopy, MatchesAfter, Matches, Task

LEMMA WorkerKeepsCopy ==
  ASSUME AWSTypeInv, AWSCheckpointInv, StepShape, NEW w \in Workers,
         wpc'[w] = wpc[w], delivery'[w] = delivery[w], state'[w] = state[w]
  PROVE  OwnFresh(w)
<1>1. StoreTypeOK /\ LocalTypeOK
  BY AWSTypeParts DEF AWSTypeInv
<1>2. delivery[w].task_id \in Tasks /\ state[w] \in Checkpoint
  BY <1>1 DEF LocalTypeOK, Delivery
<1>3. wpc[w] \in CopyPC => FreshCopy(state[w], delivery[w].task_id)
  BY DEF AWSCheckpointInv, AWSCopiesFresh, Task
<1> QED
  BY <1>1, <1>2, <1>3, FreshKept DEF OwnFresh

LEMMA AWSWorkersStill ==
  ASSUME AWSTypeInv, AWSCheckpointInv, StepShape, UNCHANGED <<wpc, localVars>>
  PROVE  /\ \A w \in Workers : OwnFresh(w)
         /\ ResultInHand'
         /\ \A w \in Workers : wpc'[w] # "idle" => Task(w)' \in created
<1>1. \A w \in Workers : OwnFresh(w)
  BY WorkerKeepsCopy DEF localVars
<1> QED
  BY <1>1 DEF localVars, AWSCheckpointInv, ResultInHand, OnlyCreated, Task

LEMMA AWSWorkerInv ==
  ASSUME AWSTypeInv, AWSCheckpointInv, NEW w \in Workers, AWSRunOnce(w), UNCHANGED handlerVars
  PROVE  StepShape /\ AWSCheckpointInv'
<1>1. TypeOK /\ OnlyCreated /\ ResultInHand
  BY DEF AWSTypeInv, AWSTypeOK, AWSCheckpointInv
<1>2. /\ StepShape /\ OwnFresh(w) /\ OthersKeep(w)
      /\ wpc'[w] \in {"save_result", "record"} => result'[w] # NoResult
      /\ wpc'[w] # "idle" => Task(w)' \in created
  BY AWSRunOnceShape
<1>3. PICK task \in created : OnlyTask(task)
  BY AWSRunOnceShape
<1>4. \A v \in Workers : OwnFresh(v)
  BY <1>2, WorkerKeepsCopy DEF OthersKeep
<1>5. \A g \in Handlers : RequestFresh(g) /\ (hpc'[g] # "idle" => htask'[g] \in created)
  BY <1>2, CarriedFresh DEF handlerVars, Carries
<1>6. ResultInHand'
  BY <1>1, <1>2 DEF ResultInHand, OthersKeep
<1>7. \A v \in Workers : wpc'[v] # "idle" => Task(v)' \in created
  BY <1>1, <1>2 DEF OthersKeep, OnlyCreated, Task
<1>8. OnlyCreated'
  BY <1>1, <1>3, <1>5, <1>7, OnlyCreatedKept
<1> QED
  BY <1>2, <1>4, <1>5, <1>6, <1>8, CopiesAfter DEF AWSCheckpointInv

LEMMA AWSFaultInv ==
  ASSUME AWSTypeInv, AWSCheckpointInv,
         \/ /\ \/ \E w \in Workers : WorkerCrash(w)
               \/ \E i \in DOMAIN queue : LeaseExpires(i) \/ Resurrect(i)
            /\ UNCHANGED handlerVars
         \/ \E h \in Handlers : HandlerCrash(h)
  PROVE  StepShape /\ AWSCheckpointInv'
<1>1. /\ StoreTypeOK /\ LocalTypeOK /\ ControlTypeOK /\ TypeOK /\ OnlyCreated /\ ResultInHand
  BY AWSTypeParts DEF AWSTypeInv, AWSTypeOK, AWSCheckpointInv
<1>2. UNCHANGED <<created, workflows>> /\ RowsKept /\ DOMAIN queue' = DOMAIN queue
  <2>1. ASSUME NEW w \in Workers, WorkerCrash(w)
        PROVE  UNCHANGED <<created, workflows>> /\ RowsKept /\ DOMAIN queue' = DOMAIN queue
    BY <2>1 DEF WorkerCrash, storeVars, RowsKept
  <2>2. ASSUME NEW h \in Handlers, HandlerCrash(h)
        PROVE  UNCHANGED <<created, workflows>> /\ RowsKept /\ DOMAIN queue' = DOMAIN queue
    BY <2>2 DEF HandlerCrash, storeVars, RowsKept
  <2>3. ASSUME NEW i \in DOMAIN queue, LeaseExpires(i)
        PROVE  UNCHANGED <<created, workflows>> /\ RowsKept /\ DOMAIN queue' = DOMAIN queue
    BY <1>1, <2>3, SameRows
  <2>4. ASSUME NEW i \in DOMAIN queue, Resurrect(i)
        PROVE  UNCHANGED <<created, workflows>> /\ RowsKept /\ DOMAIN queue' = DOMAIN queue
    BY <1>1, <2>4, ResurrectType DEF OnlyRow, SameDomain, OnlyQueueChanges, StoreStepOK
  <2> QED
    BY <2>1, <2>2, <2>3, <2>4
<1>3. StepShape
  BY <1>2, ShapeUnchanged
<1>4. \A g \in Handlers : Carries(g)
  BY <1>1 DEF handlerVars, Carries, HandlerCrash, Respond, ControlTypeOK, AnswerPC
<1>5. \A g \in Handlers : RequestFresh(g) /\ (hpc'[g] # "idle" => htask'[g] \in created)
  BY <1>3, <1>4, CarriedFresh
<1>6. \A v \in Workers :
        \/ wpc'[v] = "idle"
        \/ /\ wpc'[v] = wpc[v] /\ delivery'[v] = delivery[v] /\ state'[v] = state[v]
           /\ result'[v] = result[v]
  <2>1. ASSUME NEW w \in Workers, WorkerCrash(w)
        PROVE  \A v \in Workers :
                \/ wpc'[v] = "idle"
                \/ /\ wpc'[v] = wpc[v] /\ delivery'[v] = delivery[v] /\ state'[v] = state[v]
                   /\ result'[v] = result[v]
    BY <1>1, <2>1 DEF WorkerCrash, Finish, Goto, LocalTypeOK
  <2>2. CASE UNCHANGED runtimeVars
    BY <2>2 DEF runtimeVars, localVars
  <2> QED
    BY <2>1, <2>2 DEF LeaseExpires, Resurrect, HandlerCrash
<1>7. \A v \in Workers : OwnFresh(v)
  BY <1>3, <1>6, WorkerKeepsCopy DEF OwnFresh, CopyPC, RuntimePC
<1>8. ResultInHand' /\ \A v \in Workers : wpc'[v] # "idle" => Task(v)' \in created
  BY <1>1, <1>6 DEF ResultInHand, OnlyCreated, Task
<1>9. OnlyCreated'
  BY <1>1, <1>2, <1>5, <1>8, OnlyCreatedSameStore
<1> QED
  BY <1>3, <1>5, <1>7, <1>8, <1>9, CopiesAfter DEF AWSCheckpointInv

LEMMA AWSControlInv ==
  ASSUME AWSTypeInv, AWSCheckpointInv, NEW h \in Handlers, AWSControlStep(h),
         UNCHANGED workerVars
  PROVE  StepShape /\ AWSCheckpointInv'
<1>1. /\ StoreTypeOK /\ ControlTypeOK /\ TypeOK /\ OnlyCreated
      /\ UNCHANGED <<wpc, localVars>>
  BY AWSTypeParts DEF AWSTypeInv, AWSTypeOK, AWSCheckpointInv, workerVars, runtimeVars
<1>2. CASE SharedRequest(h) \/ ReplaySave(h) \/ ReplayDelete(h) \/ SendMessage(h)
  <2>1. StepShape /\ OnlyTask(htask[h]) /\ hpc[h] # "idle" /\ \A g \in Handlers : Carries(g)
    BY <1>2, AnswerShape, ReplayCheckpoints DEF AnswerPC
  <2>2. htask[h] \in created
    BY <1>1, <2>1 DEF OnlyCreated
  <2>3. \A g \in Handlers : RequestFresh(g) /\ (hpc'[g] # "idle" => htask'[g] \in created)
    BY <2>1, CarriedFresh
  <2>4. /\ \A w \in Workers : OwnFresh(w)
        /\ ResultInHand' /\ \A w \in Workers : wpc'[w] # "idle" => Task(w)' \in created
    BY <1>1, <2>1, AWSWorkersStill
  <2>5. OnlyCreated'
    BY <1>1, <2>1, <2>2, <2>3, <2>4, OnlyCreatedKept
  <2> QED
    BY <2>1, <2>3, <2>4, <2>5, CopiesAfter DEF AWSCheckpointInv
<1>3. CASE \/ \E task \in Tasks : Approve(h, task) \/ Reject(h, task)
           \/ \E i \in AnyReceipt, task \in Tasks : OpenReplay(h, i, task)
  <2>1. /\ UNCHANGED storeVars
        /\ RequestFresh(h) /\ htask'[h] \in created
        /\ \A g \in Handlers \ {h} : Carries(g)
    BY <1>3, OpensFresh
  <2>2. StepShape
    BY <2>1, ShapeUnchanged DEF storeVars
  <2>3. \A g \in Handlers : RequestFresh(g) /\ (hpc'[g] # "idle" => htask'[g] \in created)
    BY <2>1, <2>2, CarriedFresh
  <2>4. /\ \A w \in Workers : OwnFresh(w)
        /\ ResultInHand' /\ \A w \in Workers : wpc'[w] # "idle" => Task(w)' \in created
    BY <1>1, <2>2, AWSWorkersStill
  <2>5. OnlyCreated'
    BY <1>1, <2>1, <2>3, <2>4, OnlyCreatedSameStore DEF storeVars, RowsKept
  <2> QED
    BY <2>2, <2>3, <2>4, <2>5, CopiesAfter DEF AWSCheckpointInv
<1>4. ASSUME NEW task \in Tasks, CreateOnAWS(h, task) PROVE StepShape /\ AWSCheckpointInv'
  <2>1. /\ UNCHANGED <<workflows, queue>> /\ created' = created \cup {task}
        /\ RequestFresh(h) /\ htask'[h] \in created'
        /\ \A g \in Handlers \ {h} : Carries(g)
    BY <1>4, CreateCheckpoint
  <2>2. StepShape
    BY <2>1, ShapeUnchanged
  <2>3. \A g \in Handlers : RequestFresh(g) /\ (hpc'[g] # "idle" => htask'[g] \in created')
    BY <2>1, <2>2, CarriedFresh
  <2>4. /\ \A w \in Workers : OwnFresh(w)
        /\ ResultInHand' /\ \A w \in Workers : wpc'[w] # "idle" => Task(w)' \in created
    BY <1>1, <2>2, AWSWorkersStill
  <2>5. OnlyCreated'
    BY <1>1, <2>1, <2>3, <2>4 DEF OnlyCreated
  <2> QED
    BY <2>2, <2>3, <2>4, <2>5, CopiesAfter DEF AWSCheckpointInv
<1> QED
  BY <1>2, <1>3, <1>4, ControlWays

LEMMA AWSCheckpointNext ==
  ASSUME AWSTypeInv, AWSCheckpointInv, [AWSNext]_awsVars
  PROVE  StepShape /\ AWSCheckpointInv'
<1>1. CASE UNCHANGED awsVars
  <2>1. StepShape
    BY <1>1, ShapeUnchanged DEF awsVars, vars, storeVars
  <2> QED
    BY <1>1, <2>1
    DEF awsVars, vars, storeVars, workerVars, runtimeVars, localVars, handlerVars,
        AWSCheckpointInv, AWSCopiesFresh, FreshCopy, Matches, ResultInHand, OnlyCreated, Task
<1> QED
  BY <1>1, AWSWorkerInv, AWSFaultInv, AWSControlInv DEF AWSNext, AWSStep

LEMMA AWSCheckpointInit == AWSInit => AWSCheckpointInv
BY DEF AWSInit, Init, StoreInit, WorkerInit, RuntimeInit, ControlInit, AWSCheckpointInv,
       AWSCopiesFresh, ResultInHand, OnlyCreated, CopyPC, RuntimePC, AnswerPC

\* Every copy that may be saved is fresh or out of date.
THEOREM AWSCopiesStayFresh == AWSSpec => []AWSCheckpointInv
<1>1. AWSTypeInv /\ AWSCheckpointInv /\ [AWSNext]_awsVars => AWSCheckpointInv'
  BY AWSCheckpointNext
<1> QED
  BY <1>1, AWSCheckpointInit, AWSTypeInvHolds, PTL DEF AWSSpec

\* On AWS too no update is lost, whatever a stale worker or a request writes.
THEOREM AWSCheckpointMonotone == AWSSpec => CheckpointMonotone
<1>1. AWSTypeInv /\ AWSCheckpointInv /\ [AWSNext]_awsVars =>
        [\A task \in Tasks :
            LET old == workflows[task]
                new == workflows'[task]
            IN  /\ IsPrefix(old.tool_history, new.tool_history)
                /\ IsPrefix(old.progress_history, new.progress_history)
                /\ completed_steps(old) \subseteq completed_steps(new)]_vars
  BY AWSCheckpointNext, ShapeMonotone, AWSTypeParts DEF AWSTypeInv, awsVars
<1> QED
  BY <1>1, AWSTypeInvHolds, AWSCopiesStayFresh, PTL DEF AWSSpec, CheckpointMonotone

\* On AWS too a workflow that is over changes only by a replay.
THEOREM AWSTerminalIsFinal == AWSSpec => TerminalIsFinal
<1>1. AWSTypeInv /\ AWSCheckpointInv /\ [AWSNext]_awsVars =>
        [\A task \in Tasks :
            terminal(workflows[task]) /\ workflows'[task] # workflows[task] =>
                replays' > replays]_vars
  BY AWSCheckpointNext DEF StepShape, awsVars
<1> QED
  BY <1>1, AWSTypeInvHolds, AWSCopiesStayFresh, PTL DEF AWSSpec, TerminalIsFinal

-----------------------------------------------------------------------------
(* Every step of the queue is one way of one message *)

LEMMA AWSMessageStep ==
  ASSUME AWSTypeInv, AWSNext
  PROVE  RowsKept /\ MessageStep
<1>1. /\ StoreTypeOK /\ LocalTypeOK /\ ControlTypeOK /\ HoldsRow /\ HoldsNoLetter /\ LetterType
  BY AWSTypeParts DEF AWSTypeInv
<1>2. ASSUME UNCHANGED queue PROVE RowsKept /\ MessageStep
  BY <1>2 DEF RowsKept, MessageStep
<1>3. ASSUME NEW w \in Workers, AWSRunOnce(w) PROVE RowsKept /\ MessageStep
  <2>1. CASE SharedStep(w)
    BY <1>2, <2>1, SharedRunOnce
  <2>2. ASSUME NEW i \in DOMAIN queue, ReceiveMessage(w, i) PROVE RowsKept /\ MessageStep
    BY <1>1, <2>2, ReceiveStepType DEF StoreStepOK
  <2>3. CASE CallFails(w)
    BY <1>1, <1>2, <2>3, FailLeaves
  <2>4. CASE StoreStepOK /\ MessageStep
    BY <2>4 DEF StoreStepOK
  <2> QED
    BY <1>1, <1>3, <2>1, <2>2, <2>3, <2>4, WorkerWays
<1>4. ASSUME NEW w \in Workers, WorkerCrash(w) PROVE RowsKept /\ MessageStep
  BY <1>2, <1>4 DEF WorkerCrash, storeVars
<1>5. ASSUME NEW i \in DOMAIN queue, LeaseExpires(i) \/ Resurrect(i) PROVE RowsKept /\ MessageStep
  BY <1>1, <1>5, ExpireMessage, ResurrectType DEF StoreStepOK
<1>6. ASSUME NEW h \in Handlers, AWSControlStep(h) PROVE RowsKept /\ MessageStep
  BY <1>1, <1>6, AWSControlType DEF ControlOK, StoreStepOK
<1>7. ASSUME NEW h \in Handlers, HandlerCrash(h) PROVE RowsKept /\ MessageStep
  BY <1>2, <1>7 DEF HandlerCrash, storeVars
<1> QED
  BY <1>3, <1>4, <1>5, <1>6, <1>7 DEF AWSNext, AWSStep

\* A message that stood in the dead-letter queue and does not any more was deleted there.
LEMMA LetterTaken ==
  ASSUME AWSTypeInv, MessageStep, NEW i \in DeadMessages
  PROVE  /\ i \in DOMAIN queue' /\ queue'[i].task_id = queue[i].task_id
         /\ \/ i \in DeadMessages'
            \/ \E h \in Handlers : ReplayDelete(h) /\ letter[h] = i
<1>1. StoreTypeOK /\ i \in DOMAIN queue /\ i \in letters /\ queue[i].status = "DEAD"
  BY AWSTypeParts DEF AWSTypeInv, LettersApart, DeadMessages
<1>2. CASE queue' = queue
  BY <1>1, <1>2 DEF DeadMessages
<1>3. ASSUME NEW j \in DOMAIN queue, OnlyRow(j), queue'[j].task_id = queue[j].task_id,
             MessageWay(j, queue[j], queue'[j])
      PROVE  /\ i \in DOMAIN queue' /\ queue'[i].task_id = queue[i].task_id
             /\ \/ i \in DeadMessages'
                \/ \E h \in Handlers : ReplayDelete(h) /\ letter[h] = i
  BY <1>1, <1>3 DEF OnlyRow, SameDomain, MessageWay, Receivable, DeadMessages
<1>4. ASSUME NEW row \in QueueRow, queue' = Append(queue, row)
      PROVE  i \in DeadMessages' /\ queue'[i].task_id = queue[i].task_id
  <2>1. queue \in Seq(QueueRow)
    BY <1>1 DEF StoreTypeOK
  <2>2. i \in DOMAIN queue' /\ queue'[i] = queue[i]
    BY <1>1, <1>4, <2>1
  <2> QED
    BY <1>1, <2>2 DEF DeadMessages
<1> QED
  BY <1>1, <1>2, <1>3, <1>4 DEF MessageStep, DeadMessages

\* What becomes a letter stands in the dead-letter queue.
LEMMA NewLetterStands ==
  ASSUME LettersGrow, NEW i \in letters' \ letters
  PROVE  i \in DeadMessages'
BY DEF LettersGrow

-----------------------------------------------------------------------------
(* Who dead-letters a workflow *)

\* Where a worker has sent a letter and has not ended its workflow yet.
DeadPC == {"dead_delete", "dead", "dead_save"}

NoneDeadLettered ==
    \A task \in Tasks :
        workflows'[task].status = "DEAD_LETTERED" => workflows[task].status = "DEAD_LETTERED"

StaysAlive(w) == NoneDeadLettered /\ wpc'[w] \notin DeadPC

LEMMA SaveNoneDead ==
  ASSUME StoreTypeOK, NEW task \in Tasks, NEW new \in Checkpoint, new.status # "DEAD_LETTERED",
         save_workflow(task, new)
  PROVE  NoneDeadLettered
<1>1. workflows' = [workflows EXCEPT ![task] = Saved(new)] /\ workflows \in [Tasks -> Checkpoint]
  BY DEF save_workflow, StoreTypeOK
<1>2. Saved(new).status = new.status
  BY DEF Saved, Checkpoint
<1> QED
  BY <1>1, <1>2 DEF NoneDeadLettered

LEMMA SaveStaysAlive ==
  ASSUME NEW w \in Workers, Busy(w), NEW new \in Checkpoint, new.status # "DEAD_LETTERED",
         \/ SaveAndReturn(w, new) \/ SaveAndRaise(w, new) \/ StaleSave(w, new)
         \/ \E pc \in RuntimePC : SaveAndGoto(w, new, pc)
  PROVE  StaysAlive(w)
<1>1. Task(w) \in Tasks /\ StoreTypeOK /\ LocalTypeOK
  BY HeldTypes DEF Busy
<1>2. wpc'[w] \notin DeadPC
  BY <1>1
  DEF SaveAndReturn, SaveAndRaise, SaveAndGoto, StaleSave, Return, LeaveProcess, Goto,
      LocalTypeOK, DeadPC, RuntimePC
<1>3. CASE save_workflow(Task(w), new)
  BY <1>1, <1>2, <1>3, SaveNoneDead DEF StaysAlive
<1>4. CASE UNCHANGED workflows
  BY <1>2, <1>4 DEF StaysAlive, NoneDeadLettered
<1> QED
  BY <1>3, <1>4 DEF SaveAndReturn, SaveAndRaise, SaveAndGoto, StaleSave, storeVars

LEMMA FailStaysAlive ==
  ASSUME NEW w \in Workers, Busy(w), Fail(w) \/ FailRetryably(w)
  PROVE  StaysAlive(w)
<1>1. PICK status \in {"FAILED", "QUEUED"} :
        \/ SaveAndReturn(w, [state[w] EXCEPT !.status = status])
        \/ SaveAndRaise(w, [state[w] EXCEPT !.status = status])
  BY DEF Fail, FailRetryably
<1>2. PICK new : new = [state[w] EXCEPT !.status = status]
  OBVIOUS
<1>3. state[w] \in Checkpoint /\ status \in WorkflowStatus
  BY HeldTypes DEF WorkflowStatus
<1>4. new \in Checkpoint /\ new.status = status
  BY <1>2, <1>3, StatusFields
<1> QED
  BY <1>1, <1>2, <1>4, SaveStaysAlive

LEMMA DecideStaysAlive ==
  ASSUME NEW w \in Workers, Busy(w), ~terminal(state[w]), NEW c \in Calls, DecideTool(w, c)
  PROVE  StaysAlive(w)
<1> DEFINE requested == Requested(state[w], c)
           stopped == [requested EXCEPT !.status = "LOOP_STOPPED"]
<1>1. state[w] \in Checkpoint /\ Task(w) \in Tasks /\ StoreTypeOK /\ LocalTypeOK
  BY HeldTypes DEF Busy
<1>2. requested \in Checkpoint /\ requested.status # "DEAD_LETTERED"
  BY <1>1, RequestedFields DEF terminal, TerminalStatus
<1>3. stopped \in Checkpoint /\ stopped.status = "LOOP_STOPPED"
  BY <1>2, StatusFields DEF WorkflowStatus
<1> HIDE DEF requested, stopped
<1>4. CASE SaveAndReturn(w, stopped)
  BY <1>3, <1>4, SaveStaysAlive
<1>5. CASE StaleSave(w, requested)
  BY <1>2, <1>5, SaveStaysAlive
<1>6. CASE save_workflow(Task(w), requested) /\ Goto(w, AfterPolicy(c))
  <2>1. wpc'[w] \in {"denied", "pend", "execute"}
    BY <1>1, <1>6 DEF Goto, AfterPolicy, LocalTypeOK
  <2> QED
    BY <1>1, <1>2, <1>6, <2>1, SaveNoneDead DEF StaysAlive, DeadPC
<1> QED
  BY <1>4, <1>5, <1>6 DEF DecideTool, requested, stopped

\* process() never dead-letters a workflow.
LEMMA ProcessStaysAlive ==
  ASSUME NEW w \in Workers, Busy(w), wpc[w] \in CopyPC => ~terminal(state[w]), ProcessStep(w)
  PROVE  StaysAlive(w)
<1>1. state[w] \in Checkpoint /\ Task(w) \in Tasks /\ StoreTypeOK /\ LocalTypeOK
  BY HeldTypes DEF Busy
<1>2. ASSUME NEW status \in WorkflowStatus
      PROVE  /\ [state[w] EXCEPT !.status = status] \in Checkpoint
             /\ [state[w] EXCEPT !.status = status].status = status
  BY <1>1, StatusFields
<1>3. CASE SaveRunning(w) \/ DecideComplete(w)
  <2>1. PICK status \in {"RUNNING", "COMPLETED"} :
            \/ \E pc \in RuntimePC : SaveAndGoto(w, [state[w] EXCEPT !.status = status], pc)
            \/ SaveAndReturn(w, [state[w] EXCEPT !.status = status])
    BY <1>3 DEF SaveRunning, DecideComplete, RuntimePC
  <2>2. PICK new : new = [state[w] EXCEPT !.status = status]
    OBVIOUS
  <2>3. new \in Checkpoint /\ new.status = status
    BY <1>2, <2>2 DEF WorkflowStatus
  <2> QED
    BY <2>1, <2>2, <2>3, SaveStaysAlive
<1>4. CASE \/ ModelFailsRetryably(w) \/ BackendFailsRetryably(w) \/ BackendTimesOut(w)
           \/ DecideFail(w) \/ PolicyDenied(w) \/ BackendFailsPermanently(w)
  BY <1>4, FailStaysAlive
  DEF ModelFailsRetryably, BackendFailsRetryably, BackendTimesOut, DecideFail, PolicyDenied,
      BackendFailsPermanently
<1>5. ASSUME NEW c \in Calls, DecideTool(w, c) PROVE StaysAlive(w)
  <2>1. wpc[w] \in CopyPC
    BY <1>5 DEF DecideTool, CopyPC, RuntimePC
  <2> QED
    BY <1>5, <2>1, DecideStaysAlive
<1>6. CASE SaveWaiting(w)
  <2> DEFINE new == [state[w] EXCEPT !.status = "WAITING_FOR_APPROVAL", !.pending_action = call[w]]
  <2>1. new \in Checkpoint
    BY <1>1, HeldTypes, PendingType DEF WorkflowStatus
  <2>2. new.status = "WAITING_FOR_APPROVAL"
    BY <1>1 DEF Checkpoint
  <2>3. SaveAndGoto(w, new, "create_approval")
    BY <1>6 DEF SaveWaiting
  <2> HIDE DEF new
  <2> QED
    BY <2>1, <2>2, <2>3, SaveStaysAlive DEF RuntimePC
<1>7. CASE RecordResult(w)
  <2> DEFINE new == Completed(state[w], call[w].tool, result[w])
  <2>1. new \in Checkpoint /\ new.status = "QUEUED"
    BY <1>1, HeldTypes, CompletedType DEF Completed, Checkpoint
  <2>2. SaveAndReturn(w, new)
    BY <1>7 DEF RecordResult
  <2> HIDE DEF new
  <2> QED
    BY <2>1, <2>2, SaveStaysAlive
<1>8. CASE \/ Load(w) \/ ModelFailsPermanently(w) \/ CreateApproval(w)
           \/ ResumeApprovedAction(w) \/ LookupResult(w) \/ SaveToolResult(w)
           \/ \E r \in Results : BackendSucceeds(w, r)
  <2>1. UNCHANGED workflows
    BY <1>8
    DEF Load, ModelFailsPermanently, CreateApproval, create_approval, ResumeApprovedAction,
        LookupResult, SaveToolResult, save_tool_result, BackendSucceeds, storeVars
  <2>2. wpc'[w] \in RuntimePC \cup {"ack", "perm_ack"}
    BY <1>1, <1>8
    DEF Load, AfterLoad, ModelFailsPermanently, CreateApproval, ResumeApprovedAction,
        LookupResult, AfterLookup, SaveToolResult, BackendSucceeds, Return, LeaveProcess, Goto,
        LocalTypeOK, RuntimePC
  <2> QED
    BY <2>1, <2>2 DEF StaysAlive, NoneDeadLettered, DeadPC, RuntimePC
<1> QED
  BY <1>3, <1>4, <1>5, <1>6, <1>7, <1>8 DEF ProcessStep

\* What a worker sends to the dead-letter queue.
SendsLetter(w) ==
    \E row \in QueueRow :
        queue' = Append(queue, row) /\ row.status = "DEAD" /\ row.task_id = Task(w)

\* A worker ends a workflow as dead-lettered at dead_save only, and comes there by way of
\* the letter it has sent.
DeadWay(w) ==
    /\ \A task \in Tasks :
        workflows'[task].status = "DEAD_LETTERED" =>
            \/ workflows[task].status = "DEAD_LETTERED"
            \/ wpc[w] = "dead_save" /\ Task(w) = task
    /\ wpc'[w] \in DeadPC => Task(w)' = Task(w) /\ (wpc[w] \in DeadPC \/ SendsLetter(w))

LEMMA AliveWay ==
  ASSUME NEW w, StaysAlive(w)
  PROVE  DeadWay(w)
BY DEF StaysAlive, NoneDeadLettered, DeadWay

LEMMA StillAlive ==
  ASSUME NEW w, UNCHANGED workflows, wpc'[w] \notin DeadPC
  PROVE  DeadWay(w)
BY DEF NoneDeadLettered, DeadWay

LEMMA WorkerDeadWay ==
  ASSUME AWSTypeInv, AWSCheckpointInv, NEW w \in Workers, AWSRunOnce(w)
  PROVE  DeadWay(w)
<1>1. /\ StoreTypeOK /\ LocalTypeOK /\ HoldsRow /\ wpc \in [Workers -> WorkerPC]
      /\ wpc[w] \in CopyPC => ~terminal(state[w])
  BY AWSTypeParts DEF AWSTypeInv, AWSCheckpointInv, AWSCopiesFresh, FreshCopy, LocalTypeOK
<1>2. wpc[w] # "idle" => Busy(w) /\ Task(w) \in Tasks /\ state[w] \in Checkpoint
  BY <1>1, HeldTypes DEF Busy
<1>3. CASE StoreCallFails(w)
  <2>1. CASE UNCHANGED storeVars /\ (LeaveProcess(w, "retry") \/ LeaveProcess(w, "perm_ack"))
    BY <1>1, <2>1, StillAlive DEF LeaveProcess, Goto, DeadPC, storeVars
  <2>2. CASE wpc[w] \in {"execute", "save_result"} /\ (FailRetryably(w) \/ Fail(w))
    BY <1>2, <2>2, FailStaysAlive, AliveWay
  <2> QED
    BY <1>3, <2>1, <2>2 DEF StoreCallFails
<1>4. ASSUME NEW i \in DOMAIN queue, ReceiveMessage(w, i) PROVE DeadWay(w)
  BY <1>1, <1>4, ReceiveStepType, StillAlive DEF OnlyQueueChanges, DeadPC
<1>5. CASE ProcessStep(w)
  <2>1. wpc[w] # "idle"
    BY <1>1, <1>5, SharedType DEF SharedStep, Busy, ProcessStep, Load, SaveRunning,
       ModelFailsRetryably, ModelFailsPermanently, DecideComplete, DecideFail, DecideTool,
       PolicyDenied, SaveWaiting, CreateApproval, ResumeApprovedAction, LookupResult,
       BackendSucceeds, BackendFailsRetryably, BackendTimesOut, BackendFailsPermanently,
       SaveToolResult, RecordResult
  <2> QED
    BY <1>1, <1>2, <1>5, <2>1, ProcessStaysAlive, AliveWay
<1>6. ASSUME NEW pc \in LeavePC \cup {"idle"}, DeleteReceipt(w, pc)
      PROVE  /\ UNCHANGED workflows /\ wpc'[w] = pc
             /\ pc # "idle" => delivery' = delivery
  BY <1>1, <1>6
  DEF DeleteReceipt, acknowledge_receipt, delete_message, SetMessage, OnlyQueueChanges,
      storeVars, Finish, LeaveProcess, Goto
<1>7. CASE DeleteThenSend(w)
  <2>1. CASE wpc[w] = "ack" /\ DeleteReceipt(w, IF state[w].status = "QUEUED" THEN "enqueue" ELSE "idle")
    BY <1>6, <2>1, StillAlive DEF LeavePC, DeadPC
  <2>2. CASE send_message(Task(w)) /\ Finish(w)
    BY <1>1, <2>2, StillAlive DEF send_message, OnlyQueueChanges, Finish, Goto, DeadPC
  <2> QED
    BY <1>7, <2>1, <2>2 DEF DeleteThenSend
<1>8. CASE RetryMessage(w)
  BY <1>1, <1>8, StillAlive
  DEF RetryMessage, change_visibility, SetMessage, OnlyQueueChanges, storeVars, Finish, Goto,
      DeadPC
<1>9. CASE DeadLetter(w)
  <2>1. CASE wpc[w] = "dead_delete" /\ DeleteReceipt(w, "dead")
    <3>1. UNCHANGED workflows /\ delivery' = delivery
      BY <1>6, <2>1 DEF LeavePC
    <3> QED
      BY <2>1, <3>1 DEF DeadWay, DeadPC, Task
  <2>2. CASE wpc[w] = "retry" /\ send_dead_letter(delivery[w]) /\ LeaveProcess(w, "dead_delete")
    <3>1. Busy(w) /\ delivery[w] \in Delivery
      BY <1>2, <2>2, HeldTypes
    <3>2. queue' = Append(queue, Letter(delivery[w])) /\ OnlyQueueChanges
      BY <1>1, <2>2, <3>1, SendLetterType
    <3>3. SendsLetter(w)
      BY <3>1, <3>2, LetterIsRow DEF SendsLetter, Task
    <3>4. UNCHANGED workflows /\ delivery' = delivery
      BY <2>2, <3>2 DEF OnlyQueueChanges, LeaveProcess
    <3> QED
      BY <3>3, <3>4 DEF DeadWay, Task
  <2> QED
    BY <1>9, <2>1, <2>2 DEF DeadLetter
<1>10. CASE DeadLoad(w)
  <2>1. UNCHANGED workflows /\ wpc[w] = "dead" /\ (wpc'[w] = "idle" \/ delivery' = delivery)
    BY <1>1, <1>10 DEF DeadLoad, Reload, Finish, Goto, storeVars
  <2> QED
    BY <2>1 DEF DeadWay, DeadPC, Task
<1>11. CASE DeadSave(w)
  <2>1. wpc[w] = "dead_save" /\ wpc'[w] = "idle"
    BY <1>1, <1>11 DEF DeadSave, SaveFinal, Finish, Goto
  <2>2. \A task \in Tasks : task # Task(w) => workflows'[task] = workflows[task]
    BY <1>1, <1>2, <1>11, <2>1 DEF DeadSave, SaveFinal, save_workflow, storeVars, StoreTypeOK
  <2> QED
    BY <2>1, <2>2 DEF DeadWay, DeadPC
<1>12. CASE wpc[w] = "perm_ack" /\ DeleteReceipt(w, "perm_load")
  BY <1>6, <1>12, StillAlive DEF LeavePC, DeadPC
<1>13. CASE PermanentLoad(w)
  BY <1>1, <1>13, StillAlive DEF PermanentLoad, Reload, Finish, Goto, storeVars, DeadPC
<1>14. CASE PermanentSave(w)
  <2>1. Busy(w) /\ Task(w) \in Tasks /\ state[w] \in Checkpoint /\ wpc'[w] = "idle"
    BY <1>1, <1>2, <1>14 DEF PermanentSave, SaveFinal, Finish, Goto
  <2>2. PICK new : new = [state[w] EXCEPT !.status = "FAILED"]
    OBVIOUS
  <2>3. new \in Checkpoint /\ new.status = "FAILED"
    BY <2>1, <2>2, StatusFields DEF WorkflowStatus
  <2>4. save_workflow(Task(w), new) \/ UNCHANGED workflows
    BY <1>14, <2>2 DEF PermanentSave, SaveFinal, storeVars
  <2>5. StaysAlive(w)
    BY <1>1, <2>1, <2>3, <2>4, SaveNoneDead DEF StaysAlive, NoneDeadLettered, DeadPC
  <2> QED
    BY <2>5, AliveWay
<1> QED
  BY <1>3, <1>4, <1>5, <1>7, <1>8, <1>9, <1>10, <1>11, <1>12, <1>13, <1>14 DEF AWSRunOnce

\* Where a replay has put its workflow back in the queue.
ReplayedPC == {"replay_send", "replay_delete"}

LEMMA RequestStaysAlive ==
  ASSUME AWSTypeInv, AWSCheckpointInv, NEW h \in Handlers, AWSControlStep(h)
  PROVE  /\ NoneDeadLettered
         /\ replays' \in {replays, replays + 1}
         /\ replays' = replays =>
                \A g \in Handlers : hpc'[g] \in ReplayedPC => hpc[g] \in ReplayedPC
<1>1. StoreTypeOK /\ ControlTypeOK /\ hpc \in [Handlers -> HandlerPC] /\ replays \in Nat
  BY AWSTypeParts DEF AWSTypeInv, ControlTypeOK
<1>2. htask[h] \in Tasks /\ hstate[h] \in Checkpoint
  BY <1>1, HandlerTypes
<1>3. ASSUME UNCHANGED workflows PROVE NoneDeadLettered
  BY <1>3 DEF NoneDeadLettered
<1>4. replays # replays + 1
  BY <1>1, SMT
<1>5. ASSUME NEW status \in {"QUEUED", "HUMAN_REJECTED"}, NEW c \in Calls \cup {NoCall},
             NEW new, new \in {[hstate[h] EXCEPT !.status = status],
                               [hstate[h] EXCEPT !.status = status, !.pending_action = c]},
             save_workflow(htask[h], new)
      PROVE  NoneDeadLettered
  <2>1. status \in WorkflowStatus /\ status # "DEAD_LETTERED"
    BY DEF WorkflowStatus
  <2>2. new \in Checkpoint
    <3>1. [hstate[h] EXCEPT !.status = status] \in Checkpoint
      BY <1>2, <2>1, StatusType
    <3>2. [hstate[h] EXCEPT !.status = status, !.pending_action = c] \in Checkpoint
      BY <1>2, <2>1, PendingType
    <3> QED
      BY <1>5, <3>1, <3>2
  <2>3. new.status = status
    BY <1>2, <1>5 DEF Checkpoint
  <2> QED
    BY <1>1, <1>2, <1>5, <2>1, <2>2, <2>3, SaveNoneDead
<1>6. CASE SharedRequest(h)
  <2>1. UNCHANGED replays /\ \A g \in Handlers : hpc'[g] \in ReplayedPC => hpc[g] \in ReplayedPC
    BY <1>1, <1>6
    DEF SharedRequest, ApproveResolve, ApproveSave, RejectResolve, RejectSave, Resolve,
        StaleRequest, HGoto, Respond, ReplayedPC
  <2>2. CASE UNCHANGED workflows
    BY <1>3, <2>1, <2>2
  <2>3. CASE save_workflow(htask[h], [hstate[h] EXCEPT !.status = "QUEUED"])
    BY <1>5, <2>1, <2>3
  <2>4. CASE save_workflow(htask[h], [hstate[h] EXCEPT !.status = "HUMAN_REJECTED",
                                                       !.pending_action = NoCall])
    BY <1>5, <2>1, <2>4
  <2> QED
    BY <1>6, <2>2, <2>3, <2>4
    DEF SharedRequest, ApproveResolve, ApproveSave, RejectResolve, RejectSave, Resolve,
        resolve_approval, StaleRequest, storeVars
<1>7. CASE ReplaySave(h)
  <2>1. CASE /\ save_workflow(htask[h], [hstate[h] EXCEPT !.status = "QUEUED"])
             /\ replays' = replays + 1
    BY <1>4, <1>5, <2>1
  <2>2. CASE StaleRequest(h)
    BY <1>1, <1>3, <2>2 DEF StaleRequest, Respond, storeVars, ReplayedPC
  <2> QED
    BY <1>7, <2>1, <2>2 DEF ReplaySave
<1>8. CASE ReplayDelete(h)
  BY <1>1, <1>3, <1>8
  DEF ReplayDelete, delete_message, SetMessage, OnlyQueueChanges, storeVars, Respond, ReplayedPC
<1>9. CASE SendMessage(h)
  BY <1>1, <1>3, <1>9
  DEF SendMessage, send_message, OnlyQueueChanges, Respond, HGoto, ReplayedPC
<1>10. ASSUME NEW task \in Tasks, CreateOnAWS(h, task)
       PROVE  /\ UNCHANGED <<workflows, replays>>
              /\ \A g \in Handlers : hpc'[g] \in ReplayedPC => hpc[g] \in ReplayedPC
  BY <1>1, <1>10, CreateCheckpoint DEF CreateOnAWS, ReplayedPC
<1>11. ASSUME NEW task \in Tasks, Approve(h, task) \/ Reject(h, task)
       PROVE  /\ UNCHANGED <<workflows, replays>>
              /\ \A g \in Handlers : hpc'[g] \in ReplayedPC => hpc[g] \in ReplayedPC
  BY <1>1, <1>11 DEF Approve, Reject, Open, storeVars, ReplayedPC
<1>12. ASSUME NEW i \in AnyReceipt, NEW task \in Tasks, OpenReplay(h, i, task)
       PROVE  /\ UNCHANGED <<workflows, replays>>
              /\ \A g \in Handlers : hpc'[g] \in ReplayedPC => hpc[g] \in ReplayedPC
  BY <1>1, <1>12 DEF OpenReplay, storeVars, ReplayedPC
<1> QED
  BY <1>3, <1>6, <1>7, <1>8, <1>9, <1>10, <1>11, <1>12, ControlWays

-----------------------------------------------------------------------------
(* A dead-lettered incident has its letter *)

\* Before anything is replayed every letter stands in the dead-letter queue, and a worker
\* that is about to end a workflow as dead-lettered has sent one.
DeadLetterInv ==
    replays = 0 =>
        /\ \A h \in Handlers : hpc[h] \notin ReplayedPC
        /\ letters = DeadMessages
        /\ \A w \in Workers : wpc[w] \in DeadPC => HasLetter(Task(w))
        /\ DeadLetterKept

\* Nobody replays, and the letters stay where they are.
LEMMA LettersStand ==
  ASSUME AWSTypeInv, RowsKept, MessageStep, LettersGrow, letters = DeadMessages,
         \A h \in Handlers : hpc[h] \notin ReplayedPC
  PROVE  letters' = DeadMessages' /\ \A task : HasLetter(task) => HasLetter(task)'
<1>1. ASSUME NEW i \in DeadMessages PROVE i \in DeadMessages' /\ queue'[i].task_id = queue[i].task_id
  BY LetterTaken DEF ReplayDelete, ReplayedPC
<1> QED
  BY <1>1 DEF LettersGrow, HasLetter

LEMMA SentLetter ==
  ASSUME StoreTypeOK, NEW w \in Workers, SendsLetter(w), NEW task, task = Task(w)
  PROVE  HasLetter(task)'
<1>1. PICK row \in QueueRow :
        queue' = Append(queue, row) /\ row.status = "DEAD" /\ row.task_id = task
  BY DEF SendsLetter
<1>2. PICK n : n = Len(queue) + 1
  OBVIOUS
<1>3. n \in DOMAIN queue' /\ queue'[n] = row
  BY <1>1, <1>2 DEF StoreTypeOK
<1> QED
  BY <1>1, <1>3 DEF HasLetter, DeadMessages

\* What a step does to requests and to the workers that are about to end a workflow.
EndingStep ==
    /\ replays' \in {replays, replays + 1}
    /\ replays' = replays =>
            \A g \in Handlers : hpc'[g] \in ReplayedPC => hpc[g] \in ReplayedPC
    /\ \A v \in Workers :
        wpc'[v] \in DeadPC => Task(v)' = Task(v) /\ (wpc[v] \in DeadPC \/ SendsLetter(v))
    /\ \A task \in Tasks :
        workflows'[task].status = "DEAD_LETTERED" =>
            \/ workflows[task].status = "DEAD_LETTERED"
            \/ \E w \in Workers : wpc[w] = "dead_save" /\ Task(w) = task

LEMMA EndingNext ==
  ASSUME AWSTypeInv, AWSCheckpointInv, AWSNext
  PROVE  EndingStep
<1>1. StoreTypeOK /\ LocalTypeOK /\ ControlTypeOK
  BY AWSTypeParts DEF AWSTypeInv
<1>2. ASSUME NEW w \in Workers, AWSRunOnce(w), UNCHANGED handlerVars PROVE EndingStep
  <2>1. OthersKeep(w) /\ DeadWay(w)
    BY <1>2, WorkerApprovals, WorkerDeadWay
  <2> QED
    BY <1>2, <2>1 DEF EndingStep, DeadWay, OthersKeep, handlerVars, DeadPC, Task
<1>3. ASSUME NEW w \in Workers, WorkerCrash(w), UNCHANGED handlerVars PROVE EndingStep
  <2>1. /\ UNCHANGED workflows /\ wpc'[w] \notin DeadPC
        /\ \A v \in Workers \ {w} : wpc'[v] = wpc[v] /\ delivery'[v] = delivery[v]
    BY <1>1, <1>3 DEF WorkerCrash, Finish, Goto, LocalTypeOK, storeVars, DeadPC
  <2> QED
    BY <1>3, <2>1 DEF EndingStep, handlerVars, Task
<1>4. ASSUME NEW i \in DOMAIN queue, LeaseExpires(i) \/ Resurrect(i), UNCHANGED handlerVars
      PROVE  EndingStep
  <2>1. UNCHANGED <<workflows, wpc, delivery>>
    BY <1>4 DEF LeaseExpires, Resurrect, SetMessage, OnlyQueueChanges, runtimeVars, localVars
  <2> QED
    BY <1>4, <2>1 DEF EndingStep, handlerVars, Task
<1>5. ASSUME NEW h \in Handlers, AWSControlStep(h), UNCHANGED workerVars PROVE EndingStep
  <2>1. UNCHANGED <<wpc, delivery>>
    BY <1>5 DEF workerVars, runtimeVars, localVars
  <2>2. /\ NoneDeadLettered
        /\ replays' \in {replays, replays + 1}
        /\ replays' = replays =>
                \A g \in Handlers : hpc'[g] \in ReplayedPC => hpc[g] \in ReplayedPC
    BY <1>5, RequestStaysAlive
  <2> QED
    BY <2>1, <2>2 DEF EndingStep, NoneDeadLettered, Task
<1>6. ASSUME NEW h \in Handlers, HandlerCrash(h) PROVE EndingStep
  <2>1. /\ UNCHANGED <<workflows, wpc, delivery, replays>>
        /\ \A g \in Handlers : hpc'[g] \in ReplayedPC => hpc[g] \in ReplayedPC
    BY <1>1, <1>6
    DEF HandlerCrash, Respond, storeVars, runtimeVars, localVars, ControlTypeOK, ReplayedPC
  <2> QED
    BY <2>1 DEF EndingStep, Task
<1> QED
  BY <1>2, <1>3, <1>4, <1>5, <1>6 DEF AWSNext, AWSStep

LEMMA DeadLetterNext ==
  ASSUME AWSTypeInv, AWSCheckpointInv, DeadLetterInv, [AWSNext]_awsVars
  PROVE  DeadLetterInv'
<1>1. /\ StoreTypeOK /\ LocalTypeOK /\ replays \in Nat
  BY AWSTypeParts DEF AWSTypeInv, ControlTypeOK
<1>2. CASE UNCHANGED awsVars
  BY <1>2
  DEF awsVars, vars, storeVars, workerVars, runtimeVars, localVars, handlerVars, DeadLetterInv,
      DeadLetterKept, HasLetter, DeadMessages, Task
<1>3. ASSUME AWSNext, replays' = 0
      PROVE  /\ \A h \in Handlers : hpc'[h] \notin ReplayedPC
             /\ letters' = DeadMessages'
             /\ \A w \in Workers : wpc'[w] \in DeadPC => HasLetter(Task(w))'
             /\ DeadLetterKept'
  <2>1. EndingStep /\ RowsKept /\ MessageStep /\ LettersGrow
    BY <1>3, EndingNext, AWSMessageStep DEF AWSNext, LettersGrow
  <2>2. replays = 0 /\ replays' = replays
    <3>1. replays + 1 # 0
      BY <1>1, SMT
    <3> QED
      BY <1>3, <2>1, <3>1 DEF EndingStep
  <2>3. /\ \A h \in Handlers : hpc[h] \notin ReplayedPC
        /\ letters = DeadMessages
        /\ \A w \in Workers : wpc[w] \in DeadPC => HasLetter(Task(w))
        /\ DeadLetterKept
    BY <2>2 DEF DeadLetterInv
  <2>4. letters' = DeadMessages' /\ \A task : HasLetter(task) => HasLetter(task)'
    BY <2>1, <2>3, LettersStand
  <2>5. \A h \in Handlers : hpc'[h] \notin ReplayedPC
    BY <2>1, <2>2, <2>3 DEF EndingStep
  <2>6. ASSUME NEW w \in Workers, wpc'[w] \in DeadPC PROVE HasLetter(Task(w))'
    <3>1. PICK task : task = Task(w)
      OBVIOUS
    <3>2. Task(w)' = task /\ (wpc[w] \in DeadPC \/ SendsLetter(w))
      BY <2>1, <2>6, <3>1 DEF EndingStep
    <3>3. HasLetter(task)'
      BY <1>1, <2>3, <2>4, <3>1, <3>2, SentLetter
    <3> QED
      BY <3>2, <3>3 DEF HasLetter
  <2>7. ASSUME NEW task \in Tasks, workflows'[task].status = "DEAD_LETTERED"
        PROVE  HasLetter(task)'
    <3>1. HasLetter(task)
      BY <2>1, <2>2, <2>3, <2>7 DEF EndingStep, DeadLetterKept, DeadPC
    <3> QED
      BY <2>4, <3>1
  <2> QED
    BY <2>4, <2>5, <2>6, <2>7 DEF DeadLetterKept
<1> QED
  BY <1>2, <1>3 DEF DeadLetterInv

LEMMA DeadLetterInit == AWSInit => DeadLetterInv
BY DEF AWSInit, Init, StoreInit, WorkerInit, RuntimeInit, ControlInit, DeadLetterInv,
       DeadLetterKept, DeadMessages, ReplayedPC, DeadPC, NewWorkflow

\* Whatever fails, a dead-lettered incident has a letter an operator can replay.
THEOREM AWSDeadLetterKept == AWSSpec => []DeadLetterKept
<1>1. AWSTypeInv /\ AWSCheckpointInv /\ DeadLetterInv /\ [AWSNext]_awsVars => DeadLetterInv'
  BY DeadLetterNext
<1>2. AWSSpec => []DeadLetterInv
  BY <1>1, DeadLetterInit, AWSTypeInvHolds, AWSCopiesStayFresh, PTL DEF AWSSpec
<1>3. AWSTypeInv /\ DeadLetterInv => DeadLetterKept
  BY DEF DeadLetterInv, DeadLetterKept
<1> QED
  BY <1>2, <1>3, AWSTypeInvHolds, PTL

-----------------------------------------------------------------------------
(* A letter leaves its queue only after its replay's message *)

\* A message of the main queue that was sent after message i, for the same task.
Followed(i) ==
    \E j \in DOMAIN queue \ letters : j > i /\ queue[j].task_id = queue[i].task_id

\* A replay that has been saved has gone astray, or is about the letter of its task, and
\* deletes it when its message is sent.
FollowInv ==
    /\ \A h \in Handlers :
        /\ hpc[h] \in {"replay_send", "replay_delete"} /\ Misaddressed(h) => letter[h] \in astray
        /\ hpc[h] = "replay_delete" => letter[h] \in astray \/ Followed(letter[h])
    /\ LetterFollowed

LEMMA FollowedStays ==
  ASSUME AWSTypeInv, RowsKept, MessageStep, LettersGrow, NEW i \in DOMAIN queue, Followed(i)
  PROVE  Followed(i)'
<1>1. /\ DOMAIN queue \subseteq DOMAIN queue'
      /\ \A j \in DOMAIN queue : j \in letters' => j \in letters
  BY NewLetters, AWSTypeParts DEF AWSTypeInv, LetterType
<1> QED
  BY <1>1 DEF Followed, RowsKept

\* The request keeps its receipt, and its message is sent before the letter is deleted.
FollowStep ==
    \A g \in Handlers :
        hpc'[g] \in ReplayPC =>
            \/ /\ hpc[g] \in ReplayPC /\ UNCHANGED <<letter[g], htask[g]>>
               /\ hpc'[g] = "replay_delete" =>
                    \/ hpc[g] = "replay_delete"
                    \/ hpc[g] = "replay_send" /\ send_message(htask[g])
            \/ hpc'[g] = "replay_save"

LEMMA RequestFollowStep ==
  ASSUME AWSTypeInv, NEW h \in Handlers, AWSControlStep(h)
  PROVE  FollowStep
<1>1. /\ hpc \in [Handlers -> HandlerPC] /\ htask \in [Handlers -> Tasks]
      /\ letter \in [Handlers -> Nat]
  BY AWSTypeParts DEF AWSTypeInv, ControlTypeOK, LetterType
<1>2. CASE SharedRequest(h) /\ UNCHANGED letter
  BY <1>1, <1>2
  DEF SharedRequest, ApproveResolve, ApproveSave, RejectResolve, RejectSave, Resolve,
      StaleRequest, HGoto, Respond, ReplayPC, FollowStep
<1>3. CASE ReplaySave(h)
  BY <1>1, <1>3 DEF ReplaySave, StaleRequest, Respond, ReplayPC, FollowStep
<1>4. CASE ReplayDelete(h)
  BY <1>1, <1>4 DEF ReplayDelete, Respond, ReplayPC, FollowStep
<1>5. CASE SendMessage(h)
  BY <1>1, <1>5 DEF SendMessage, Respond, HGoto, ReplayPC, FollowStep
<1>6. ASSUME NEW task \in Tasks, CreateOnAWS(h, task) PROVE FollowStep
  BY <1>1, <1>6 DEF CreateOnAWS, ReplayPC, FollowStep
<1>7. ASSUME NEW task \in Tasks, Approve(h, task) \/ Reject(h, task), UNCHANGED letter
      PROVE  FollowStep
  BY <1>1, <1>7 DEF Approve, Reject, Open, ReplayPC, FollowStep
<1>8. ASSUME NEW i \in AnyReceipt, NEW task \in Tasks, OpenReplay(h, i, task)
      PROVE  FollowStep
  BY <1>1, <1>8 DEF OpenReplay, ReplayPC, FollowStep
<1> QED
  BY <1>2, <1>3, <1>4, <1>5, <1>6, <1>7, <1>8, ControlWays

LEMMA FollowStepNext ==
  ASSUME AWSTypeInv, AWSNext
  PROVE  FollowStep
<1>1. CASE UNCHANGED <<handlerVars, letter>>
  BY <1>1 DEF handlerVars, FollowStep
<1>2. ASSUME NEW h \in Handlers, HandlerCrash(h), UNCHANGED letter PROVE FollowStep
  <2>1. hpc \in [Handlers -> HandlerPC] /\ htask \in [Handlers -> Tasks]
    BY AWSTypeParts DEF AWSTypeInv, ControlTypeOK
  <2> QED
    BY <1>2, <2>1 DEF HandlerCrash, Respond, ReplayPC, FollowStep
<1> QED
  BY <1>1, <1>2, RequestFollowStep DEF AWSNext, AWSStep

LEMMA SentFollows ==
  ASSUME AWSTypeInv, LettersGrow, NEW i \in letters, send_message(queue[i].task_id)
  PROVE  Followed(i)'
<1>1. /\ StoreTypeOK /\ i \in DOMAIN queue /\ i \in Nat /\ letters \subseteq DOMAIN queue
      /\ LettersApart
  BY AWSTypeParts DEF AWSTypeInv, LetterType, StoreTypeOK
<1>2. PICK task : task = queue[i].task_id
  OBVIOUS
<1>3. task \in Tasks
  BY <1>1, <1>2, RowType DEF QueueRow
<1>4. queue' = Append(queue, NewRow(task)) /\ OnlyQueueChanges /\ NewRow(task) \in QueueRow
  BY <1>2, <1>3, NewRowType DEF send_message
<1>5. PICK n : n = Len(queue) + 1
  OBVIOUS
<1>6. /\ DOMAIN queue' = DOMAIN queue \cup {n} /\ n \notin DOMAIN queue
      /\ \A j \in DOMAIN queue : queue'[j] = queue[j] /\ j < n
      /\ queue'[n] = NewRow(task)
  BY <1>1, <1>4, <1>5, AppendMessageType
<1>7. n \notin letters'
  BY <1>1, <1>6 DEF LettersGrow, DeadMessages, NewRow
<1>8. n > i
  BY <1>1, <1>6
<1>9. queue'[n].task_id = queue'[i].task_id
  BY <1>1, <1>2, <1>6 DEF NewRow
<1> QED
  BY <1>6, <1>7, <1>8, <1>9 DEF Followed

LEMMA FollowNext ==
  ASSUME AWSTypeInv, FollowInv, [AWSNext]_awsVars
  PROVE  FollowInv'
<1>1. /\ letters \subseteq DOMAIN queue /\ LetterInHand
  BY AWSTypeParts DEF AWSTypeInv, LetterType
<1>2. CASE UNCHANGED awsVars
  BY <1>2
  DEF awsVars, vars, storeVars, handlerVars, FollowInv, LetterFollowed, Followed, DeadMessages,
      Misaddressed
<1>3. CASE AWSNext
  <2>1. FollowStep /\ RowsKept /\ MessageStep /\ LettersGrow
    BY <1>3, FollowStepNext, AWSMessageStep DEF AWSNext, LettersGrow
  <2>2. ASSUME NEW i \in letters, Followed(i) PROVE Followed(i)'
    BY <1>1, <2>1, <2>2, FollowedStays
  <2>3. astray \subseteq astray'
    BY <2>1 DEF LettersGrow
  <2>4. ASSUME NEW i \in letters' \ (DeadMessages' \cup astray') PROVE Followed(i)'
    <3>1. i \in letters /\ i \notin astray
      BY <2>1, <2>3, <2>4, NewLetterStands
    <3>2. CASE i \notin DeadMessages
      BY <2>2, <3>1, <3>2 DEF FollowInv, LetterFollowed, Followed
    <3>3. CASE i \in DeadMessages
      <4>1. PICK h \in Handlers : ReplayDelete(h) /\ letter[h] = i
        BY <2>1, <2>4, <3>3, LetterTaken
      <4> QED
        BY <2>2, <3>1, <4>1 DEF FollowInv, ReplayDelete
    <3> QED
      BY <3>2, <3>3
  <2>5. ASSUME NEW g \in Handlers, hpc'[g] = "replay_send", Misaddressed(g)'
        PROVE  letter'[g] \in astray'
    BY <2>1, <2>5 DEF LettersGrow, JustAstray
  <2>6. ASSUME NEW g \in Handlers, hpc'[g] = "replay_delete"
        PROVE  /\ Misaddressed(g)' => letter'[g] \in astray'
               /\ letter'[g] = letter[g]
               /\ letter'[g] \in astray' \/ Followed(letter[g])'
    <3>1. /\ hpc[g] \in ReplayPC /\ UNCHANGED <<letter[g], htask[g]>>
          /\ \/ hpc[g] = "replay_delete"
             \/ hpc[g] = "replay_send" /\ send_message(htask[g])
      BY <2>1, <2>6 DEF FollowStep, ReplayPC
    <3>2. CASE letter[g] \in astray
      BY <2>3, <3>1, <3>2
    <3>3. CASE letter[g] \notin astray
      <4>1. ~Misaddressed(g)
        BY <3>1, <3>3 DEF FollowInv
      <4>2. PICK i \in letters : i = letter[g] /\ i # NoLetter /\ queue[i].task_id = htask[g]
        BY <1>1, <3>1, <4>1 DEF LetterInHand, AnyReceipt, Misaddressed
      <4>3. ~Misaddressed(g)'
        BY <1>1, <2>1, <3>1, <4>2 DEF RowsKept, Misaddressed, NoLetter
      <4>4. Followed(i)'
        BY <2>1, <2>2, <3>1, <3>3, <4>2, SentFollows DEF FollowInv
      <4>5. Followed(letter[g])'
        BY <3>1, <4>2, <4>4 DEF Followed
      <4> QED
        BY <3>1, <4>3, <4>5
    <3> QED
      BY <3>2, <3>3
  <2> QED
    BY <2>4, <2>5, <2>6 DEF FollowInv, LetterFollowed, Followed
<1> QED
  BY <1>2, <1>3

LEMMA FollowInit == AWSInit => FollowInv
BY DEF AWSInit, Init, ControlInit, FollowInv, LetterFollowed, ReplayPC

\* Whatever fails and however often it is replayed, a letter leaves the dead-letter queue
\* only after a later message of its incident has been sent, unless a saved replay of
\* another incident names it.
THEOREM AWSLetterFollowed == AWSSpec => []LetterFollowed
<1>1. AWSTypeInv /\ FollowInv /\ [AWSNext]_awsVars => FollowInv'
  BY FollowNext
<1>2. AWSSpec => []FollowInv
  BY <1>1, FollowInit, AWSTypeInvHolds, PTL DEF AWSSpec
<1>3. FollowInv => LetterFollowed
  BY DEF FollowInv
<1> QED
  BY <1>2, <1>3, PTL

-----------------------------------------------------------------------------
(* The slots of a task on AWS *)

\* Where a worker has yet to give its message back, or to delete it.
AWSKeepPC == KeepPC \cup {"dead_delete"}

\* The worker holds the last receipt of message i.
Receipt(w, i) ==
    /\ wpc[w] \in AWSKeepPC
    /\ delivery[w].id = i /\ delivery[w].attempts = queue[i].attempts

\* Message i is received again, now or when the visibility timeout of a receipt that
\* nobody holds any more has passed.
ShowsAgain(i) ==
    \/ Receivable(queue[i])
    \/ queue[i].status = "PROCESSING" /\ \A w \in Workers : ~Receipt(w, i)

\* The first replay takes the place of its letter; what the next ones send, and what one
\* of another incident sends, is paid for.
MessageSlot(task, i) ==
    /\ queue[i].task_id = task
    /\ (queue[i].status = "DEAD" /\ replays = 0) \/ ShowsAgain(i)

SendPC == {"approve_enqueue", "create_send", "replay_send"}

SendSlot(task, h) == hpc[h] \in SendPC /\ htask[h] = task

AWSSlots(task, c) ==
    {<<"worker", w>> : w \in {v \in Workers : WorkerSlot(task, c, v)}}
        \cup {<<"row", i>> : i \in {j \in DOMAIN queue : MessageSlot(task, j)}}
        \cup {<<"request", h>> : h \in {g \in Handlers : SendSlot(task, g)}}
        \cup {x \in {<<"waiting", task>>} : Waiting(task)}

\* What the replays pay for: the first is free as long as none has gone astray.
Charge == replays - IF replays > 0 /\ astray = {} THEN 1 ELSE 0

Paid == Faults + Charge

AWSCandidates(task, c) ==
    IF tool_results[<<task, c>>] = NoResult THEN AWSSlots(task, c) ELSE Actors(task, c)

AWSEffectsBounded(task, c) ==
    /\ IsFiniteSet(AWSCandidates(task, c))
    /\ effects[<<task, c>>] + Cardinality(AWSCandidates(task, c)) <= 1 + Paid + timeouts

\* A request that answers has read a checkpoint that waits.
AnswersWait == \A h \in Handlers : hpc[h] \in AnswerPC => hstate[h].status = "WAITING_FOR_APPROVAL"

AWSWayInv ==
    /\ HeldRowTask
    /\ AskingWaits
    /\ AnswersWait
    /\ EffectsOnCreated
    /\ \A w \in Workers : OpenCopy(w)

LEMMA AWSSlotsStep ==
  ASSUME NEW task, NEW c, NEW X, NEW Y,
         \A w \in Workers : WorkerSlot(task, c, w)' =>
            <<"worker", w>> \in Y \/ (WorkerSlot(task, c, w) /\ <<"worker", w>> \notin X),
         \A i \in DOMAIN queue' : MessageSlot(task, i)' =>
            \/ <<"row", i>> \in Y
            \/ i \in DOMAIN queue /\ MessageSlot(task, i) /\ <<"row", i>> \notin X,
         \A h \in Handlers : SendSlot(task, h)' =>
            <<"request", h>> \in Y \/ (SendSlot(task, h) /\ <<"request", h>> \notin X),
         Waiting(task)' =>
            <<"waiting", task>> \in Y \/ (Waiting(task) /\ <<"waiting", task>> \notin X)
  PROVE  AWSSlots(task, c)' \subseteq (AWSSlots(task, c) \ X) \cup Y
<1> SUFFICES ASSUME NEW x \in AWSSlots(task, c)', x \notin Y
             PROVE  x \in AWSSlots(task, c) /\ x \notin X
  OBVIOUS
<1>1. CASE \E w \in Workers : x = <<"worker", w>> /\ WorkerSlot(task, c, w)'
  BY <1>1 DEF AWSSlots
<1>2. CASE \E i \in DOMAIN queue' : x = <<"row", i>> /\ MessageSlot(task, i)'
  BY <1>2 DEF AWSSlots
<1>3. CASE \E h \in Handlers : x = <<"request", h>> /\ SendSlot(task, h)'
  BY <1>3 DEF AWSSlots
<1>4. CASE x = <<"waiting", task>> /\ Waiting(task)'
  BY <1>4 DEF AWSSlots
<1> QED
  BY <1>1, <1>2, <1>3, <1>4 DEF AWSSlots

LEMMA AWSSlotsMember ==
  ASSUME NEW task, NEW c
  PROVE  /\ \A w \in Workers : WorkerSlot(task, c, w) => <<"worker", w>> \in AWSSlots(task, c)
         /\ \A i \in DOMAIN queue : MessageSlot(task, i) => <<"row", i>> \in AWSSlots(task, c)
         /\ \A h \in Handlers : SendSlot(task, h) => <<"request", h>> \in AWSSlots(task, c)
         /\ Waiting(task) => <<"waiting", task>> \in AWSSlots(task, c)
  BY DEF AWSSlots

AWSSlotsKept(task, c) == AWSSlots(task, c)' \subseteq AWSSlots(task, c)

AWSSlotPassed(task, c) ==
    \E x \in AWSSlots(task, c) : \E y :
        AWSSlots(task, c)' \subseteq (AWSSlots(task, c) \ {x}) \cup {y}

AWSSlotMade(task, c) ==
    /\ \E y : AWSSlots(task, c)' \subseteq AWSSlots(task, c) \cup {y}
    /\ Paid' >= Paid + 1

AWSSlotMove(task, c) ==
    AWSSlotsKept(task, c) \/ AWSSlotPassed(task, c) \/ AWSSlotMade(task, c)

LEMMA AWSSlotsSwap ==
  ASSUME NEW task, NEW c, NEW x, NEW y,
         \A w \in Workers : WorkerSlot(task, c, w)' =>
            <<"worker", w>> = y \/ (WorkerSlot(task, c, w) /\ <<"worker", w>> # x),
         \A i \in DOMAIN queue' : MessageSlot(task, i)' =>
            <<"row", i>> = y \/ (i \in DOMAIN queue /\ MessageSlot(task, i) /\ <<"row", i>> # x),
         \A h \in Handlers : SendSlot(task, h)' =>
            <<"request", h>> = y \/ (SendSlot(task, h) /\ <<"request", h>> # x),
         Waiting(task)' => <<"waiting", task>> = y \/ (Waiting(task) /\ <<"waiting", task>> # x)
  PROVE  AWSSlots(task, c)' \subseteq (AWSSlots(task, c) \ {x}) \cup {y}
<1> DEFINE X == {x}
           Y == {y}
<1>1. /\ \A w \in Workers : WorkerSlot(task, c, w)' =>
            <<"worker", w>> \in Y \/ (WorkerSlot(task, c, w) /\ <<"worker", w>> \notin X)
      /\ \A i \in DOMAIN queue' : MessageSlot(task, i)' =>
            \/ <<"row", i>> \in Y
            \/ i \in DOMAIN queue /\ MessageSlot(task, i) /\ <<"row", i>> \notin X
      /\ \A h \in Handlers : SendSlot(task, h)' =>
            <<"request", h>> \in Y \/ (SendSlot(task, h) /\ <<"request", h>> \notin X)
      /\ Waiting(task)' =>
            <<"waiting", task>> \in Y \/ (Waiting(task) /\ <<"waiting", task>> \notin X)
  OBVIOUS
<1> HIDE DEF X, Y
<1>2. AWSSlots(task, c)' \subseteq (AWSSlots(task, c) \ X) \cup Y
  BY <1>1, AWSSlotsStep
<1> QED
  BY <1>2 DEF X, Y

LEMMA AWSSlotsKeptStep ==
  ASSUME NEW task, NEW c,
         \A w \in Workers : WorkerSlot(task, c, w)' => WorkerSlot(task, c, w),
         \A i \in DOMAIN queue' : MessageSlot(task, i)' => i \in DOMAIN queue /\ MessageSlot(task, i),
         \A h \in Handlers : SendSlot(task, h)' => SendSlot(task, h),
         Waiting(task)' => Waiting(task)
  PROVE  AWSSlotMove(task, c)
<1>1. AWSSlots(task, c)' \subseteq (AWSSlots(task, c) \ {}) \cup {}
  BY AWSSlotsStep
<1> QED
  BY <1>1 DEF AWSSlotMove, AWSSlotsKept

\* One slot x that was there goes and at most y comes.
LEMMA AWSSlotsPassedStep ==
  ASSUME NEW task, NEW c, NEW x \in AWSSlots(task, c), NEW y,
         \A w \in Workers : WorkerSlot(task, c, w)' =>
            <<"worker", w>> = y \/ (WorkerSlot(task, c, w) /\ <<"worker", w>> # x),
         \A i \in DOMAIN queue' : MessageSlot(task, i)' =>
            <<"row", i>> = y \/ (i \in DOMAIN queue /\ MessageSlot(task, i) /\ <<"row", i>> # x),
         \A h \in Handlers : SendSlot(task, h)' =>
            <<"request", h>> = y \/ (SendSlot(task, h) /\ <<"request", h>> # x),
         Waiting(task)' => <<"waiting", task>> = y \/ (Waiting(task) /\ <<"waiting", task>> # x)
  PROVE  AWSSlotMove(task, c)
<1>1. AWSSlots(task, c)' \subseteq (AWSSlots(task, c) \ {x}) \cup {y}
  BY AWSSlotsSwap
<1> QED
  BY <1>1 DEF AWSSlotMove, AWSSlotPassed

\* A slot y comes, and is paid for.
LEMMA AWSSlotsMadeStep ==
  ASSUME NEW task, NEW c, NEW y, Paid' >= Paid + 1,
         \A w \in Workers : WorkerSlot(task, c, w)' =>
            <<"worker", w>> = y \/ WorkerSlot(task, c, w),
         \A i \in DOMAIN queue' : MessageSlot(task, i)' =>
            <<"row", i>> = y \/ (i \in DOMAIN queue /\ MessageSlot(task, i)),
         \A h \in Handlers : SendSlot(task, h)' => <<"request", h>> = y \/ SendSlot(task, h),
         Waiting(task)' => <<"waiting", task>> = y \/ Waiting(task)
  PROVE  AWSSlotMove(task, c)
<1> DEFINE Y == {y}
<1>1. /\ \A w \in Workers : WorkerSlot(task, c, w)' =>
            <<"worker", w>> \in Y \/ (WorkerSlot(task, c, w) /\ <<"worker", w>> \notin {})
      /\ \A i \in DOMAIN queue' : MessageSlot(task, i)' =>
            \/ <<"row", i>> \in Y
            \/ i \in DOMAIN queue /\ MessageSlot(task, i) /\ <<"row", i>> \notin {}
      /\ \A h \in Handlers : SendSlot(task, h)' =>
            <<"request", h>> \in Y \/ (SendSlot(task, h) /\ <<"request", h>> \notin {})
      /\ Waiting(task)' =>
            <<"waiting", task>> \in Y \/ (Waiting(task) /\ <<"waiting", task>> \notin {})
  OBVIOUS
<1> HIDE DEF Y
<1>2. AWSSlots(task, c)' \subseteq (AWSSlots(task, c) \ {}) \cup Y
  BY <1>1, AWSSlotsStep
<1>3. AWSSlots(task, c)' \subseteq AWSSlots(task, c) \cup {y}
  BY <1>2 DEF Y
<1> QED
  BY <1>3 DEF AWSSlotMove, AWSSlotMade

-----------------------------------------------------------------------------
(* A step about one message of the queue *)

\* No message but r changes, and no other loses its last receipt.
MessagesStand(r) ==
    /\ DOMAIN queue' \subseteq DOMAIN queue \cup {r}
    /\ \A i \in DOMAIN queue :
        i # r => /\ queue'[i] = queue[i]
                 /\ \A v \in Workers : Receipt(v, i) => Receipt(v, i)'

LEMMA StandingSlots ==
  ASSUME NEW r, MessagesStand(r), replays' = 0 => replays = 0, NEW task,
         NEW i \in DOMAIN queue', i # r, MessageSlot(task, i)'
  PROVE  i \in DOMAIN queue /\ MessageSlot(task, i)
<1>1. i \in DOMAIN queue /\ queue'[i] = queue[i]
  BY DEF MessagesStand
<1>2. \A v \in Workers : Receipt(v, i) => Receipt(v, i)'
  BY <1>1 DEF MessagesStand
<1> QED
  BY <1>1, <1>2 DEF MessageSlot, ShowsAgain, Receivable

\* The receipts of the workers a step is not about.
LEMMA StandsButOwn ==
  ASSUME NEW w \in Workers, OthersKeep(w), NEW r, DOMAIN queue' \subseteq DOMAIN queue \cup {r},
         \A i \in DOMAIN queue :
            i # r => queue'[i] = queue[i] /\ (Receipt(w, i) => Receipt(w, i)')
  PROVE  MessagesStand(r)
<1>1. ASSUME NEW i \in DOMAIN queue, queue'[i] = queue[i], NEW v \in Workers \ {w}, Receipt(v, i)
      PROVE  Receipt(v, i)'
  BY <1>1 DEF OthersKeep, Receipt
<1> QED
  BY <1>1 DEF MessagesStand

LEMMA SameRequests ==
  ASSUME UNCHANGED handlerVars, NEW task
  PROVE  /\ \A h \in Handlers : SendSlot(task, h)' <=> SendSlot(task, h)
         /\ replays' = replays
  BY DEF handlerVars, SendSlot

\* A step of w in which at most message r, or w, gets a slot: neither does, or one takes
\* the slot of the other, or it is paid for.
LEMMA MessageSlots ==
  ASSUME NEW w \in Workers, OthersKeep(w), UNCHANGED handlerVars, NEW task, NEW c,
         Waiting(task)' => Waiting(task), NEW r, MessagesStand(r),
         \/ /\ WorkerSlot(task, c, w)' => WorkerSlot(task, c, w)
            /\ r \in DOMAIN queue' /\ MessageSlot(task, r)' =>
                    r \in DOMAIN queue /\ MessageSlot(task, r)
         \/ WorkerSlot(task, c, w) /\ ~WorkerSlot(task, c, w)'
         \/ /\ r \in DOMAIN queue /\ MessageSlot(task, r)
            /\ r \in DOMAIN queue' => ~MessageSlot(task, r)'
         \/ /\ Paid' >= Paid + 1
            /\ ~WorkerSlot(task, c, w)'
         \/ /\ Paid' >= Paid + 1
            /\ r \in DOMAIN queue' /\ MessageSlot(task, r)' =>
                    r \in DOMAIN queue /\ MessageSlot(task, r)
  PROVE  AWSSlotMove(task, c)
<1>0. PICK x, y : x = <<"worker", w>> /\ y = <<"row", r>>
  OBVIOUS
<1>1. \A v \in Workers : v # w => (WorkerSlot(task, c, v)' => WorkerSlot(task, c, v))
  BY OtherWorkersSlot
<1>2. \A h \in Handlers : SendSlot(task, h)' => SendSlot(task, h)
  BY SameRequests
<1>3. \A i \in DOMAIN queue' :
          i # r /\ MessageSlot(task, i)' => i \in DOMAIN queue /\ MessageSlot(task, i)
  BY SameRequests, StandingSlots
<1>4. /\ \A v \in Workers : <<"worker", v>> = x <=> v = w
      /\ \A v : <<"worker", v>> # y /\ <<"request", v>> # x /\ <<"request", v>> # y
      /\ \A i : <<"row", i>> # x /\ (<<"row", i>> = y <=> i = r)
      /\ <<"waiting", task>> # x /\ <<"waiting", task>> # y
  BY <1>0
<1>5. CASE /\ WorkerSlot(task, c, w)' => WorkerSlot(task, c, w)
           /\ r \in DOMAIN queue' /\ MessageSlot(task, r)' =>
                    r \in DOMAIN queue /\ MessageSlot(task, r)
  BY <1>1, <1>2, <1>3, <1>5, AWSSlotsKeptStep
<1>6. CASE WorkerSlot(task, c, w) /\ ~WorkerSlot(task, c, w)'
  <2>1. x \in AWSSlots(task, c)
    BY <1>0, <1>6, AWSSlotsMember
  <2> QED
    BY <1>1, <1>2, <1>3, <1>4, <1>6, <2>1, AWSSlotsPassedStep
<1>7. CASE /\ r \in DOMAIN queue /\ MessageSlot(task, r)
           /\ r \in DOMAIN queue' => ~MessageSlot(task, r)'
  <2>1. y \in AWSSlots(task, c)
    BY <1>0, <1>7, AWSSlotsMember
  <2> QED
    BY <1>1, <1>2, <1>3, <1>4, <1>7, <2>1, AWSSlotsPassedStep
<1>8. CASE Paid' >= Paid + 1 /\ ~WorkerSlot(task, c, w)'
  BY <1>1, <1>2, <1>3, <1>4, <1>8, AWSSlotsMadeStep
<1>9. CASE /\ Paid' >= Paid + 1
           /\ r \in DOMAIN queue' /\ MessageSlot(task, r)' =>
                    r \in DOMAIN queue /\ MessageSlot(task, r)
  BY <1>1, <1>2, <1>3, <1>4, <1>9, AWSSlotsMadeStep
<1> QED
  BY <1>5, <1>6, <1>7, <1>8, <1>9

-----------------------------------------------------------------------------
(* The steps of run_once *)

LEMMA StandsWithQueue ==
  ASSUME NEW w \in Workers, OthersKeep(w), queue' = queue, NEW r,
         \A i \in DOMAIN queue : i # r => (Receipt(w, i) => Receipt(w, i)')
  PROVE  MessagesStand(r)
  BY StandsButOwn

\* The messages of a worker that keeps the delivery it has yet to report on.
LEMMA StandsWithDelivery ==
  ASSUME NEW w \in Workers, OthersKeep(w), queue' = queue,
         wpc[w] \in AWSKeepPC => wpc'[w] \in AWSKeepPC /\ delivery'[w] = delivery[w], NEW r
  PROVE  /\ MessagesStand(r)
         /\ \A v \in Workers, i \in DOMAIN queue : Receipt(v, i) => Receipt(v, i)'
<1>1. ASSUME NEW i \in DOMAIN queue, NEW v \in Workers, Receipt(v, i) PROVE Receipt(v, i)'
  BY <1>1 DEF OthersKeep, Receipt
<1> QED
  BY <1>1 DEF MessagesStand

\* Nothing happens to the messages and their receipts.
LEMMA MessagesKept ==
  ASSUME queue' = queue, replays' = 0 => replays = 0, NEW task,
         \A v \in Workers, i \in DOMAIN queue : Receipt(v, i) => Receipt(v, i)'
  PROVE  \A i \in DOMAIN queue' : MessageSlot(task, i)' => i \in DOMAIN queue /\ MessageSlot(task, i)
  BY DEF MessageSlot, ShowsAgain, Receivable

LEMMA AWSProcessSlots ==
  ASSUME NEW w \in Workers, Busy(w), OpenCopy(w), AskingWaits, ProcessStep(w),
         UNCHANGED handlerVars, OthersKeep(w), NEW task \in Tasks, NEW c,
         ~(wpc[w] = "save_result" /\ call[w] = c /\ Task(w) = task)
  PROVE  AWSSlotMove(task, c)
<1>1. /\ wpc[w] \in RuntimePC /\ wpc'[w] \in KeepPC /\ delivery' = delivery /\ queue' = queue
  BY ProcessHolds DEF Busy
<1>2. \A v \in Workers, i \in DOMAIN queue : Receipt(v, i) => Receipt(v, i)'
  BY <1>1, StandsWithDelivery DEF AWSKeepPC
<1>3. \A i \in DOMAIN queue' : MessageSlot(task, i)' => i \in DOMAIN queue /\ MessageSlot(task, i)
  BY <1>1, <1>2, SameRequests, MessagesKept
<1>4. \A v \in Workers : WorkerSlot(task, c, v)' => WorkerSlot(task, c, v)
  BY OtherWorkersSlot, ProcessWorkerSlot
<1>5. \A h \in Handlers : SendSlot(task, h)' => SendSlot(task, h)
  BY SameRequests
<1>6. CASE Waiting(task)' => Waiting(task)
  BY <1>3, <1>4, <1>5, <1>6, AWSSlotsKeptStep
<1>7. CASE wpc[w] = "pend" /\ wpc'[w] = "create_approval" /\ Task(w) = task
  <2>0. PICK x, y : x = <<"worker", w>> /\ y = <<"waiting", task>>
    OBVIOUS
  <2>1. x \in AWSSlots(task, c)
    BY <1>7, <2>0, AWSSlotsMember DEF WorkerSlot, SlotPC, RuntimePC
  <2>2. ~WorkerSlot(task, c, w)'
    BY <1>7 DEF WorkerSlot, SlotPC
  <2>3. /\ \A v \in Workers : WorkerSlot(task, c, v)' => WorkerSlot(task, c, v) /\ <<"worker", v>> # x
        /\ \A i : <<"row", i>> # x
        /\ \A h : <<"request", h>> # x
    BY <1>4, <2>0, <2>2
  <2> QED
    BY <1>3, <1>5, <2>0, <2>1, <2>3, AWSSlotsPassedStep
<1> QED
  BY <1>6, <1>7, ProcessWaits DEF NoNewWait

\* A worker whose call was answered gives its slot for the effect.
LEMMA AWSBackendSlots ==
  ASSUME NEW w \in Workers, Busy(w), NEW r \in Results, BackendSucceeds(w, r),
         UNCHANGED handlerVars, OthersKeep(w), NEW task \in Tasks, NEW c,
         Task(w) = task, call[w] = c
  PROVE  /\ <<"worker", w>> \in AWSSlots(task, c)
         /\ AWSSlots(task, c)' \subseteq AWSSlots(task, c) \ {<<"worker", w>>}
<1>0. PICK x : x = <<"worker", w>>
  OBVIOUS
<1>1. /\ wpc[w] = "backend" /\ wpc'[w] = "save_result" /\ call' = call /\ delivery' = delivery
      /\ queue' = queue /\ workflows' = workflows
  BY DEF BackendSucceeds, Goto, storeVars, Busy, LocalTypeOK
<1>2. \A v \in Workers, i \in DOMAIN queue : Receipt(v, i) => Receipt(v, i)'
  BY <1>1, StandsWithDelivery DEF AWSKeepPC, KeepPC, RuntimePC
<1>3. \A i \in DOMAIN queue' : MessageSlot(task, i)' => i \in DOMAIN queue /\ MessageSlot(task, i)
  BY <1>1, <1>2, SameRequests, MessagesKept
<1>4. WorkerSlot(task, c, w) /\ ~WorkerSlot(task, c, w)'
  BY <1>1 DEF WorkerSlot, SlotPC, RuntimePC
<1>5. /\ \A v \in Workers : WorkerSlot(task, c, v)' => WorkerSlot(task, c, v) /\ <<"worker", v>> # x
      /\ \A i : <<"row", i>> # x
      /\ \A h : <<"request", h>> # x
      /\ <<"waiting", task>> # x
  BY <1>0, <1>4, OtherWorkersSlot
<1>6. \A h \in Handlers : SendSlot(task, h)' => SendSlot(task, h)
  BY SameRequests
<1>7. Waiting(task)' => Waiting(task)
  BY <1>1 DEF Waiting
<1>8. AWSSlots(task, c)' \subseteq (AWSSlots(task, c) \ {x}) \cup {}
  <2> DEFINE X == {x}
  <2>1. /\ \A v \in Workers : WorkerSlot(task, c, v)' => WorkerSlot(task, c, v) /\ <<"worker", v>> \notin X
        /\ \A i \in DOMAIN queue' : MessageSlot(task, i)' =>
              i \in DOMAIN queue /\ MessageSlot(task, i) /\ <<"row", i>> \notin X
        /\ \A h \in Handlers : SendSlot(task, h)' => SendSlot(task, h) /\ <<"request", h>> \notin X
        /\ Waiting(task)' => Waiting(task) /\ <<"waiting", task>> \notin X
    BY <1>3, <1>5, <1>6, <1>7
  <2> HIDE DEF X
  <2>2. AWSSlots(task, c)' \subseteq (AWSSlots(task, c) \ X) \cup {}
    BY <2>1, AWSSlotsStep
  <2> QED
    BY <2>2 DEF X
<1>9. x \in AWSSlots(task, c)
  BY <1>0, <1>4, AWSSlotsMember
<1> QED
  BY <1>0, <1>8, <1>9

LEMMA ReloadMessageSlots ==
  ASSUME NEW w \in Workers, Busy(w),
         DeadLoad(w) \/ DeadSave(w) \/ PermanentLoad(w) \/ PermanentSave(w),
         OthersKeep(w), UNCHANGED handlerVars, NEW task \in Tasks, NEW c
  PROVE  AWSSlotMove(task, c)
<1>1. /\ wpc[w] \notin AWSKeepPC /\ queue' = queue
      /\ wpc'[w] \notin SlotPC /\ wpc'[w] # "ack"
  BY DEF Busy, DeadLoad, DeadSave, PermanentLoad, PermanentSave, Reload, SaveFinal, Finish, Goto,
         save_workflow, storeVars, LocalTypeOK, AWSKeepPC, KeepPC, RuntimePC, SlotPC
<1>2. \A v \in Workers, i \in DOMAIN queue : Receipt(v, i) => Receipt(v, i)'
  BY <1>1, StandsWithDelivery
<1>3. \A i \in DOMAIN queue' : MessageSlot(task, i)' => i \in DOMAIN queue /\ MessageSlot(task, i)
  BY <1>1, <1>2, SameRequests, MessagesKept
<1>4. \A v \in Workers : WorkerSlot(task, c, v)' => WorkerSlot(task, c, v)
  BY <1>1, OtherWorkersSlot DEF WorkerSlot
<1>5. Waiting(task)' => Waiting(task)
  BY ReloadWaits DEF NoNewWait
<1> QED
  BY <1>3, <1>4, <1>5, SameRequests, AWSSlotsKeptStep

LEMMA ReceiveSlots ==
  ASSUME StoreTypeOK, LocalTypeOK, NEW w \in Workers, NEW i \in DOMAIN queue,
         ReceiveMessage(w, i), UNCHANGED handlerVars, NEW task \in Tasks, NEW c
  PROVE  AWSSlotMove(task, c)
<1>1. /\ OthersKeep(w) /\ wpc[w] = "idle" /\ wpc'[w] = "load"
      /\ delivery'[w] = [id |-> i, task_id |-> queue[i].task_id,
                         attempts |-> queue[i].attempts + 1]
      /\ OnlyRow(i) /\ OnlyQueueChanges /\ Receivable(queue[i])
      /\ queue'[i] = [queue[i] EXCEPT !.status = "PROCESSING", !.attempts = @ + 1,
                                      !.delayed = FALSE, !.expired = FALSE]
  BY ReceiveStepType DEF ReceiveMessage
<1>2. queue[i] \in QueueRow
  BY RowType
<1>3. /\ queue'[i].status = "PROCESSING" /\ ~queue'[i].expired
      /\ queue'[i].attempts = queue[i].attempts + 1
      /\ delivery'[w].id = i /\ delivery'[w].attempts = queue[i].attempts + 1
      /\ delivery'[w].task_id = queue[i].task_id
  <2> DEFINE message == [queue[i] EXCEPT !.status = "PROCESSING", !.attempts = @ + 1,
                                         !.delayed = FALSE, !.expired = FALSE]
  <2>1. /\ message.status = "PROCESSING" /\ ~message.expired
        /\ message.attempts = queue[i].attempts + 1
    BY <1>2, Zenon DEF QueueRow
  <2>2. queue'[i] = message
    BY <1>1
  <2> HIDE DEF message
  <2> QED
    BY <1>1, <2>1, <2>2
<1>4. MessagesStand(i)
  <2>1. ASSUME NEW j \in DOMAIN queue PROVE ~Receipt(w, j)
    BY <1>1, <2>1 DEF Receipt, AWSKeepPC, KeepPC, RuntimePC
  <2> QED
    BY <1>1, <2>1, StandsButOwn DEF OnlyRow, SameDomain
<1>5. ~MessageSlot(task, i)'
  <2>1. Receipt(w, i)'
    BY <1>1, <1>3 DEF Receipt, AWSKeepPC, KeepPC, RuntimePC
  <2> QED
    BY <1>3, <2>1 DEF MessageSlot, ShowsAgain, Receivable
<1>6. Waiting(task)' => Waiting(task)
  BY <1>1 DEF OnlyQueueChanges, Waiting
<1>7. CASE queue[i].task_id = task
  <2>1. MessageSlot(task, i)
    BY <1>1, <1>7 DEF MessageSlot, ShowsAgain
  <2> QED
    BY <1>1, <1>4, <1>5, <1>6, <2>1, MessageSlots
<1>8. CASE queue[i].task_id # task
  <2>1. ~WorkerSlot(task, c, w)'
    BY <1>3, <1>8 DEF WorkerSlot, Task
  <2> QED
    BY <1>1, <1>4, <1>5, <1>6, <2>1, MessageSlots
<1> QED
  BY <1>7, <1>8

LEMMA ChargeGrows ==
  ASSUME replays \in Nat, replays' \in Nat, replays <= replays', astray \subseteq astray'
  PROVE  Charge \in Nat /\ Charge' \in Nat /\ Charge <= Charge'
<1>1. PICK m, n : m = replays /\ n = replays'
  OBVIOUS
<1>2. PICK a, b : /\ a = (IF m > 0 /\ astray = {} THEN 1 ELSE 0)
                  /\ b = (IF n > 0 /\ astray' = {} THEN 1 ELSE 0)
  OBVIOUS
<1>3. Charge = m - a /\ Charge' = n - b
  BY <1>1, <1>2 DEF Charge
<1>4. m \in Nat /\ n \in Nat /\ m <= n
  BY <1>1
<1>5. a \in {0, 1} /\ b \in {0, 1} /\ (m = 0 => a = 0) /\ (n = 0 => b = 0)
  BY <1>2, <1>4, SMT
<1>6. a = 0 => m = 0 \/ b = 0
  BY <1>2, <1>4, SMT
<1>7. m - a \in Nat /\ n - b \in Nat /\ m - a <= n - b
  BY <1>4, <1>5, <1>6, SMT
<1> QED
  BY <1>3, <1>7

\* A fault is paid for.
LEMMA FaultPaid ==
  ASSUME replays \in Nat, replays' = replays, astray \subseteq astray',
         Faults \in Nat, Faults' = Faults + 1
  PROVE  Paid' >= Paid + 1
<1>1. replays <= replays'
  BY SMT
<1>2. PICK f, m, n : f = Faults /\ m = Charge /\ n = Charge'
  OBVIOUS
<1>3. f \in Nat /\ m \in Nat /\ n \in Nat /\ m <= n
  BY <1>1, <1>2, ChargeGrows
<1>4. Paid = f + m /\ Paid' = f + 1 + n
  BY <1>2 DEF Paid
<1>5. f + 1 + n >= f + m + 1
  BY <1>3, SMT
<1> QED
  BY <1>4, <1>5

LEMMA FaultTypes ==
  ASSUME AWSTypeOK
  PROVE  /\ replays \in Nat /\ Faults \in Nat
         /\ crashes \in Nat /\ stalls \in Nat /\ errors \in Nat
<1>1. crashes \in Nat /\ stalls \in Nat /\ replays \in Nat /\ errors \in Nat
  BY AWSTypeParts DEF BudgetsTypeOK, ControlTypeOK
<1>2. Faults \in Nat
  BY <1>1, SMT DEF Faults
<1> QED
  BY <1>1, <1>2

LEMMA FailSlots ==
  ASSUME AWSTypeOK, NEW w \in Workers, StoreCallFails(w), UNCHANGED handlerVars,
         astray \subseteq astray',
         NEW task \in Tasks, NEW c
  PROVE  AWSSlotMove(task, c)
<1>1. StoreTypeOK /\ LocalTypeOK
  BY AWSTypeParts
<1>2. Paid' >= Paid + 1
  <2>1. crashes' = crashes /\ stalls' = stalls /\ errors' = errors + 1 /\ replays' = replays
    BY DEF StoreCallFails, Budgets, handlerVars
  <2>2. Faults' = Faults + 1
    BY <2>1, FaultTypes, SMT DEF Faults
  <2> QED
    BY <2>1, <2>2, FaultTypes, FaultPaid
<1>3. CASE wpc[w] \in {"execute", "save_result"} /\ (FailRetryably(w) \/ Fail(w))
  <2>1. CallFails(w)
    BY <1>3 DEF StoreCallFails, CallFails
  <2>2. /\ Busy(w) /\ OthersKeep(w) /\ wpc'[w] \in {"ack", "retry"} /\ delivery' = delivery
        /\ queue' = queue
    BY <1>1, <2>1, FailLeaves
  <2>3. MessagesStand(0)
    BY <2>2, StandsWithDelivery DEF AWSKeepPC, KeepPC
  <2>4. NoNewWait
    <3>1. ASSUME NEW status \in {"FAILED", "QUEUED"}, NEW new,
                 new = [state[w] EXCEPT !.status = status],
                 SaveAndReturn(w, new) \/ SaveAndRaise(w, new)
          PROVE  NoNewWait
      <4>1. /\ Task(w) \in Tasks /\ new \in Checkpoint /\ new.status # "WAITING_FOR_APPROVAL"
        BY <2>2, <3>1, HeldTypes, StatusFields DEF WorkflowStatus
      <4>2. save_workflow(Task(w), new) \/ UNCHANGED workflows
        BY <3>1 DEF SaveAndReturn, SaveAndRaise, StaleSave, storeVars
      <4>3. CASE UNCHANGED workflows
        BY <4>3 DEF NoNewWait, Waiting
      <4> QED
        BY <1>1, <4>1, <4>2, <4>3, SaveNoNewWait
    <3> QED
      BY <1>3, <3>1 DEF Fail, FailRetryably
  <2>5. \A i \in DOMAIN queue' : i # 0
    BY <1>1, <2>2, LenProperties, SMT DEF StoreTypeOK
  <2> QED
    BY <1>2, <2>2, <2>3, <2>4, <2>5, MessageSlots DEF NoNewWait
<1>4. CASE /\ wpc[w] \in RuntimePC \cup {"ack", "enqueue", "retry"}
           /\ LeaveProcess(w, "retry") \/ LeaveProcess(w, "perm_ack")
           /\ UNCHANGED storeVars
  <2>1. /\ OthersKeep(w) /\ wpc'[w] \in {"retry", "perm_ack"} /\ delivery' = delivery
        /\ queue' = queue /\ workflows' = workflows
    BY <1>1, <1>4 DEF LeaveProcess, Goto, LocalTypeOK, OthersKeep, storeVars
  <2>2. MessagesStand(0)
    BY <2>1, StandsWithDelivery DEF AWSKeepPC, KeepPC
  <2>3. \A i \in DOMAIN queue' : i # 0
    BY <1>1, <2>1, LenProperties, SMT DEF StoreTypeOK
  <2>4. Waiting(task)' => Waiting(task)
    BY <2>1 DEF Waiting
  <2> QED
    BY <1>2, <2>1, <2>2, <2>3, <2>4, MessageSlots
<1> QED
  BY <1>3, <1>4 DEF StoreCallFails

\* A message that is deleted is no slot, and an old receipt was none either.
LEMMA DeleteSlots ==
  ASSUME NEW w \in Workers, Busy(w), HoldsRow, HoldsNoLetter, NEW pc \in LeavePC \cup {"idle"},
         DeleteReceipt(w, pc), UNCHANGED handlerVars, NEW task \in Tasks, NEW c,
         WorkerSlot(task, c, w)' => WorkerSlot(task, c, w)
  PROVE  AWSSlotMove(task, c)
<1>0. PICK r : r = delivery[w].id
  OBVIOUS
<1>1. StoreTypeOK /\ LocalTypeOK /\ r \in DOMAIN queue /\ r \notin letters
  BY <1>0 DEF Busy, HoldsRow, HoldsNoLetter
<1>2. OthersKeep(w) /\ OnlyQueueChanges
  BY <1>1, DeletedLeaves, LeavesType DEF Leaves
<1>3. Waiting(task)' => Waiting(task)
  BY <1>2 DEF OnlyQueueChanges, Waiting
<1>4. CASE delete_message(r)
  <2>1. /\ OnlyRow(r)
        /\ queue'[r] = [queue[r] EXCEPT !.status = "COMPLETED", !.expired = FALSE]
    BY <1>1, <1>4, DeleteType
  <2>2. queue'[r].status = "COMPLETED"
    BY <1>1, <2>1, RowType DEF QueueRow
  <2>3. ~MessageSlot(task, r)'
    BY <2>2 DEF MessageSlot, ShowsAgain, Receivable
  <2>4. MessagesStand(r)
    BY <1>0, <1>2, <2>1, StandsButOwn DEF OnlyRow, SameDomain, Receipt
  <2> QED
    BY <1>2, <1>3, <2>3, <2>4, MessageSlots
<1>5. CASE Stale(delivery[w]) /\ UNCHANGED storeVars
  <2>1. queue' = queue
    BY <1>5 DEF storeVars
  <2>2. \A i : ~Receipt(w, i)
    BY <1>5 DEF Stale, Receipt
  <2>3. MessagesStand(0)
    BY <1>2, <2>1, <2>2, StandsWithQueue
  <2>4. \A i \in DOMAIN queue' : i # 0
    BY <1>1, <2>1, LenProperties, SMT DEF StoreTypeOK
  <2> QED
    BY <1>2, <1>3, <2>3, <2>4, MessageSlots
<1> QED
  BY <1>0, <1>4, <1>5 DEF DeleteReceipt, acknowledge_receipt

\* The row that is added is for the task of the worker that gives its slot for it, or is
\* no slot.
LEMMA AppendedSlots ==
  ASSUME NEW w \in Workers, Busy(w), OthersKeep(w), UNCHANGED handlerVars,
         NEW row \in QueueRow, queue' = Append(queue, row), OnlyQueueChanges,
         row.task_id = Task(w),
         wpc[w] \in {"retry", "enqueue"}, wpc'[w] \notin SlotPC \cup {"ack"},
         wpc[w] \in AWSKeepPC => wpc'[w] \in AWSKeepPC /\ delivery'[w] = delivery[w],
         NEW task \in Tasks, NEW c
  PROVE  AWSSlotMove(task, c)
<1>1. PICK n : /\ DOMAIN queue' = DOMAIN queue \cup {n} /\ n \notin DOMAIN queue
               /\ \A i \in DOMAIN queue : queue'[i] = queue[i]
               /\ queue'[n] = row
  BY AppendMessageType DEF Busy
<1>2. MessagesStand(n)
  <2>1. ASSUME NEW i \in DOMAIN queue, Receipt(w, i) PROVE Receipt(w, i)'
    BY <1>1, <2>1 DEF Receipt
  <2> QED
    BY <1>1, <2>1, StandsButOwn
<1>3. Waiting(task)' => Waiting(task)
  BY DEF OnlyQueueChanges, Waiting
<1>4. ~WorkerSlot(task, c, w)'
  BY DEF WorkerSlot
<1>5. CASE Task(w) = task
  <2>1. WorkerSlot(task, c, w)
    BY <1>5 DEF WorkerSlot, SlotPC
  <2> QED
    BY <1>2, <1>3, <1>4, <2>1, MessageSlots
<1>6. CASE Task(w) # task
  <2>1. ~MessageSlot(task, n)'
    BY <1>1, <1>6 DEF MessageSlot
  <2> QED
    BY <1>2, <1>3, <1>4, <2>1, MessageSlots
<1> QED
  BY <1>5, <1>6

LEMMA SendSlots ==
  ASSUME NEW w \in Workers, Busy(w), UNCHANGED handlerVars, NEW task \in Tasks, NEW c,
         \/ /\ wpc[w] = "enqueue" /\ send_message(Task(w)) /\ Finish(w)
         \/ /\ wpc[w] = "retry" /\ send_dead_letter(delivery[w])
            /\ LeaveProcess(w, "dead_delete")
  PROVE  AWSSlotMove(task, c)
<1>1. StoreTypeOK /\ LocalTypeOK /\ delivery[w] \in Delivery /\ Task(w) \in Tasks
  BY HeldTypes DEF Busy
<1>2. CASE wpc[w] = "enqueue" /\ send_message(Task(w)) /\ Finish(w)
  <2>1. OthersKeep(w) /\ wpc'[w] = "idle"
    BY <1>1, <1>2 DEF Finish, Goto, LocalTypeOK, OthersKeep
  <2>2. NewRow(Task(w)) \in QueueRow /\ NewRow(Task(w)).task_id = Task(w)
    BY <1>1, NewRowType DEF NewRow
  <2>3. queue' = Append(queue, NewRow(Task(w))) /\ OnlyQueueChanges
    BY <1>2 DEF send_message
  <2>4. wpc'[w] \notin SlotPC \cup {"ack"} /\ wpc[w] \notin AWSKeepPC
    BY <1>2, <2>1 DEF SlotPC, RuntimePC, AWSKeepPC, KeepPC
  <2> QED
    BY <1>2, <2>1, <2>2, <2>3, <2>4, AppendedSlots
<1>3. CASE /\ wpc[w] = "retry" /\ send_dead_letter(delivery[w])
           /\ LeaveProcess(w, "dead_delete")
  <2>1. OthersKeep(w) /\ wpc'[w] = "dead_delete" /\ delivery' = delivery
    BY <1>1, <1>3 DEF LeaveProcess, Goto, LocalTypeOK, OthersKeep
  <2>2. Letter(delivery[w]) \in QueueRow /\ Letter(delivery[w]).task_id = Task(w)
    BY <1>1, LetterIsRow DEF Task
  <2>3. queue' = Append(queue, Letter(delivery[w])) /\ OnlyQueueChanges
    BY <1>1, <1>3, SendLetterType
  <2>4. wpc'[w] \notin SlotPC \cup {"ack"} /\ wpc'[w] \in AWSKeepPC
    BY <2>1 DEF SlotPC, RuntimePC, AWSKeepPC
  <2> QED
    BY <1>3, <2>1, <2>2, <2>3, <2>4, AppendedSlots
<1> QED
  BY <1>2, <1>3

LEMMA RetrySlots ==
  ASSUME NEW w \in Workers, Busy(w), HoldsRow, HeldRowTask, RetryMessage(w),
         UNCHANGED handlerVars, NEW task \in Tasks, NEW c
  PROVE  AWSSlotMove(task, c)
<1>0. PICK r : r = delivery[w].id
  OBVIOUS
<1>1. /\ StoreTypeOK /\ LocalTypeOK /\ r \in DOMAIN queue /\ queue[r].task_id = Task(w)
      /\ wpc[w] = "retry"
  BY <1>0 DEF Busy, HoldsRow, HeldRowTask, RetryMessage
<1>2. OthersKeep(w) /\ wpc'[w] = "idle" /\ workflows' = workflows
  BY <1>1 DEF RetryMessage, Finish, Goto, LocalTypeOK, OthersKeep, change_visibility, SetMessage,
              OnlyQueueChanges, storeVars
<1>3. ~WorkerSlot(task, c, w)' /\ (Waiting(task)' => Waiting(task))
  BY <1>2 DEF WorkerSlot, SlotPC, RuntimePC, Waiting
<1>4. CASE change_visibility(delivery[w])
  <2>1. OnlyRow(r) /\ StoreStepOK
    BY <1>0, <1>1, <1>4, VisibleType
  <2>2. MessagesStand(r)
    BY <1>0, <1>2, <2>1, StandsButOwn DEF OnlyRow, SameDomain, Receipt
  <2>3. CASE Task(w) = task
    <3>1. WorkerSlot(task, c, w)
      BY <1>1, <2>3 DEF WorkerSlot, SlotPC
    <3> QED
      BY <1>2, <1>3, <2>2, <3>1, MessageSlots
  <2>4. CASE Task(w) # task
    <3>1. ~MessageSlot(task, r)'
      BY <1>1, <2>1, <2>4 DEF StoreStepOK, RowsKept, MessageSlot
    <3> QED
      BY <1>2, <1>3, <2>2, <3>1, MessageSlots
  <2> QED
    BY <2>3, <2>4
<1>5. CASE VisibilityRefused(delivery[w]) /\ UNCHANGED storeVars
  <2>1. queue' = queue /\ replays' = replays
    BY <1>5 DEF storeVars, handlerVars
  <2>2. MessagesStand(r)
    BY <1>0, <1>2, <2>1, StandsWithQueue DEF Receipt
  <2>3. MessageSlot(task, r)' => MessageSlot(task, r)
    <3>1. ASSUME NEW v \in Workers \ {w} PROVE Receipt(v, r) => Receipt(v, r)'
      BY <1>2, <2>1, <3>1 DEF OthersKeep, Receipt
    <3>2. CASE queue[r].status # "PROCESSING" \/ queue[r].expired
      BY <2>1, <3>2 DEF MessageSlot, ShowsAgain, Receivable
    <3>3. CASE Stale(delivery[w])
      <4>1. ~Receipt(w, r)
        BY <1>0, <3>3 DEF Stale, Receipt
      <4> QED
        BY <2>1, <3>1, <4>1 DEF MessageSlot, ShowsAgain, Receivable
    <3> QED
      BY <1>0, <1>5, <3>2, <3>3 DEF VisibilityRefused
  <2> QED
    BY <1>1, <1>2, <1>3, <2>2, <2>3, MessageSlots
<1> QED
  BY <1>4, <1>5 DEF RetryMessage

LEMMA RunOnceSlots ==
  ASSUME AWSTypeOK, AWSWayInv, NEW w \in Workers, AWSRunOnce(w), UNCHANGED handlerVars,
         astray \subseteq astray', NEW task \in Tasks, NEW c, ~Recorded(task, c)
  PROVE  AWSSlotMove(task, c)
<1>1. /\ StoreTypeOK /\ LocalTypeOK /\ HoldsRow /\ HoldsNoLetter
      /\ HeldRowTask /\ AskingWaits /\ OpenCopy(w)
  BY AWSTypeParts DEF AWSWayInv
<1>2. ASSUME wpc[w] # "idle" PROVE Busy(w)
  BY <1>1, <1>2 DEF Busy
<1>3. CASE StoreCallFails(w)
  BY <1>3, FailSlots
<1>4. ASSUME NEW i \in DOMAIN queue, ReceiveMessage(w, i) PROVE AWSSlotMove(task, c)
  BY <1>1, <1>4, ReceiveSlots
<1>5. CASE ProcessStep(w) /\ UNCHANGED <<crashes, stalls>>
  <2>1. Busy(w)
    BY <1>1, <1>5, StepBusy
  <2>2. OthersKeep(w)
    BY <1>1, <1>5, RunOnceOthersKeep DEF RunOnceStep
  <2>3. ~(wpc[w] = "save_result" /\ call[w] = c /\ Task(w) = task)
    BY <1>5
    DEF Recorded, ProcessStep, Load, SaveRunning, ModelFailsRetryably, ModelFailsPermanently,
        DecideComplete, DecideFail, DecideTool, PolicyDenied, SaveWaiting, CreateApproval,
        ResumeApprovedAction, LookupResult, BackendSucceeds, BackendFailsRetryably,
        BackendTimesOut, BackendFailsPermanently, RecordResult
  <2> QED
    BY <1>1, <1>5, <2>1, <2>2, <2>3, AWSProcessSlots
<1>6. CASE \/ DeadLoad(w) \/ DeadSave(w) \/ PermanentLoad(w) \/ PermanentSave(w)
  <2>1. OthersKeep(w)
    BY <1>1, <1>6, RunOnceOthersKeep DEF RunOnceStep
  <2>2. Busy(w)
    BY <1>1, <1>6 DEF Busy, DeadLoad, DeadSave, PermanentLoad, PermanentSave
  <2> QED
    BY <1>6, <2>1, <2>2, ReloadMessageSlots
<1>7. CASE wpc[w] = "ack" /\ DeleteReceipt(w, IF state[w].status = "QUEUED" THEN "enqueue" ELSE "idle")
  <2>1. PICK pc \in {"enqueue", "idle"} :
            pc = IF state[w].status = "QUEUED" THEN "enqueue" ELSE "idle"
    OBVIOUS
  <2>2. DeleteReceipt(w, pc)
    BY <1>7, <2>1
  <2>3. WorkerSlot(task, c, w)' => WorkerSlot(task, c, w)
    BY <1>1, <1>7, <2>1, <2>2
    DEF DeleteReceipt, Finish, LeaveProcess, Goto, LocalTypeOK, WorkerSlot, SlotPC, RuntimePC, Task
  <2> QED
    BY <1>1, <1>2, <1>7, <2>2, <2>3, DeleteSlots DEF LeavePC
<1>8. ASSUME NEW pc \in {"dead", "perm_load"}, wpc[w] # "idle", DeleteReceipt(w, pc)
      PROVE  AWSSlotMove(task, c)
  <2>1. ~WorkerSlot(task, c, w)'
    BY <1>1, <1>8
    DEF DeleteReceipt, LeaveProcess, Goto, LocalTypeOK, WorkerSlot, SlotPC, RuntimePC
  <2> QED
    BY <1>1, <1>2, <1>8, <2>1, DeleteSlots DEF LeavePC
<1>9. CASE \/ wpc[w] = "enqueue" /\ send_message(Task(w)) /\ Finish(w)
           \/ wpc[w] = "retry" /\ send_dead_letter(delivery[w]) /\ LeaveProcess(w, "dead_delete")
  BY <1>2, <1>9, SendSlots
<1>10. CASE RetryMessage(w)
  BY <1>1, <1>2, <1>10, RetrySlots DEF RetryMessage
<1> QED
  BY <1>3, <1>4, <1>5, <1>6, <1>7, <1>8, <1>9, <1>10 DEF AWSRunOnce, DeleteThenSend, DeadLetter

-----------------------------------------------------------------------------
(* Faults *)

LEMMA CrashMessageSlots ==
  ASSUME AWSTypeOK, NEW w \in Workers, WorkerCrash(w), UNCHANGED handlerVars,
         UNCHANGED errors, astray \subseteq astray', NEW task \in Tasks, NEW c
  PROVE  AWSSlotMove(task, c)
<1>0. PICK r : r = delivery[w].id
  OBVIOUS
<1>1. LocalTypeOK
  BY AWSTypeParts
<1>2. /\ OthersKeep(w) /\ wpc'[w] = "idle" /\ queue' = queue /\ workflows' = workflows
      /\ crashes' = crashes + 1 /\ stalls' = stalls
  BY <1>1 DEF WorkerCrash, Finish, Goto, LocalTypeOK, OthersKeep, storeVars
<1>3. Paid' >= Paid + 1
  <2>1. replays' = replays
    BY DEF handlerVars
  <2>2. Faults' = Faults + 1
    BY <1>2, FaultTypes, SMT DEF Faults
  <2> QED
    BY <2>1, <2>2, FaultTypes, FaultPaid
<1>4. MessagesStand(r)
  BY <1>0, <1>2, StandsWithQueue DEF Receipt
<1>5. ~WorkerSlot(task, c, w)' /\ (Waiting(task)' => Waiting(task))
  BY <1>2 DEF WorkerSlot, SlotPC, RuntimePC, Waiting
<1> QED
  BY <1>2, <1>3, <1>4, <1>5, MessageSlots

\* A message that a fault shows again is the one slot that comes.
LEMMA ShownSlots ==
  ASSUME WorkersStay, UNCHANGED handlerVars, NEW r \in DOMAIN queue, OnlyRow(r),
         NEW task \in Tasks, NEW c, workflows' = workflows,
         \/ Paid' >= Paid + 1
         \/ MessageSlot(task, r)' => MessageSlot(task, r)
  PROVE  AWSSlotMove(task, c)
<1>0. PICK y : y = <<"row", r>>
  OBVIOUS
<1>1. \A v \in Workers : WorkerSlot(task, c, v)' <=> WorkerSlot(task, c, v)
  BY DEF WorkersStay, WorkerSlot, Task
<1>2. MessagesStand(r)
  BY DEF WorkersStay, Receipt, MessagesStand, OnlyRow, SameDomain
<1>3. \A i \in DOMAIN queue' :
          i # r /\ MessageSlot(task, i)' => i \in DOMAIN queue /\ MessageSlot(task, i)
  BY <1>2, SameRequests, StandingSlots
<1>4. Waiting(task)' => Waiting(task)
  BY DEF Waiting
<1>5. CASE MessageSlot(task, r)' => MessageSlot(task, r)
  BY <1>1, <1>3, <1>4, <1>5, SameRequests, AWSSlotsKeptStep
<1>6. CASE Paid' >= Paid + 1
  BY <1>0, <1>1, <1>3, <1>4, <1>6, SameRequests, AWSSlotsMadeStep
<1> QED
  BY <1>5, <1>6

LEMMA FaultSlots ==
  ASSUME AWSTypeOK, NEW r \in DOMAIN queue, LeaseExpires(r) \/ Resurrect(r),
         UNCHANGED handlerVars, UNCHANGED errors, astray \subseteq astray',
         NEW task \in Tasks, NEW c
  PROVE  AWSSlotMove(task, c)
<1>1. StoreTypeOK
  BY AWSTypeParts
<1>2. WorkersStay
  BY DEF LeaseExpires, Resurrect, runtimeVars, localVars, WorkersStay
<1>3. OnlyRow(r) /\ workflows' = workflows
  <2>1. CASE LeaseExpires(r)
    BY <1>1, <2>1, ExpiredRow DEF LeaseExpires
  <2>2. CASE Resurrect(r)
    BY <1>1, <2>2, ResurrectType DEF OnlyQueueChanges
  <2> QED
    BY <2>1, <2>2
<1>4. ASSUME stalls' = stalls + 1, crashes' = crashes PROVE Paid' >= Paid + 1
  <2>1. replays' = replays
    BY DEF handlerVars
  <2>2. Faults' = Faults + 1
    BY <1>4, FaultTypes, SMT DEF Faults
  <2> QED
    BY <2>1, <2>2, FaultTypes, FaultPaid
<1>5. CASE stalls' = stalls + 1 /\ crashes' = crashes
  BY <1>2, <1>3, <1>4, <1>5, ShownSlots
<1>6. CASE LeaseExpires(r) /\ ~Held(r)
  <2>1. queue[r].status = "PROCESSING" /\ queue'[r].task_id = queue[r].task_id
    BY <1>1, <1>6, ExpireMessage DEF StoreStepOK, RowsKept, LeaseExpires
  <2>2. ShowsAgain(r)
    BY <1>6, <2>1 DEF Held, ShowsAgain, Receipt, AWSKeepPC, KeepPC, RuntimePC
  <2>3. MessageSlot(task, r)' => MessageSlot(task, r)
    BY <2>1, <2>2 DEF MessageSlot
  <2> QED
    BY <1>2, <1>3, <2>3, ShownSlots
<1> QED
  BY <1>5, <1>6 DEF LeaseExpires, Resurrect

-----------------------------------------------------------------------------
(* Requests *)

\* What a step about request h leaves alone: the workers, and what other requests send.
RequestAlone(h) ==
    /\ WorkersStay
    /\ \A g \in Handlers \ {h} : hpc'[g] = hpc[g] /\ htask'[g] = htask[g]

LEMMA StandsWithWorkers ==
  ASSUME WorkersStay, NEW r, DOMAIN queue' \subseteq DOMAIN queue \cup {r},
         \A i \in DOMAIN queue : i # r => queue'[i] = queue[i],
         replays' = 0 => replays = 0, NEW task
  PROVE  \A i \in DOMAIN queue' :
            i # r /\ MessageSlot(task, i)' => i \in DOMAIN queue /\ MessageSlot(task, i)
<1>1. MessagesStand(r)
  BY DEF MessagesStand, WorkersStay, Receipt
<1> QED
  BY <1>1, StandingSlots

\* A step of a request h that gets no slot, about a message r that gets none.
LEMMA QuietRequest ==
  ASSUME NEW h \in Handlers, RequestAlone(h), NEW r, NEW task \in Tasks, NEW c,
         DOMAIN queue' \subseteq DOMAIN queue \cup {r},
         \A i \in DOMAIN queue : i # r => queue'[i] = queue[i],
         replays' = 0 => replays = 0,
         SendSlot(task, h)' => SendSlot(task, h),
         r \in DOMAIN queue' /\ MessageSlot(task, r)' => r \in DOMAIN queue /\ MessageSlot(task, r),
         Waiting(task)' => Waiting(task)
  PROVE  AWSSlotMove(task, c)
<1>1. \A w \in Workers : WorkerSlot(task, c, w)' <=> WorkerSlot(task, c, w)
  BY WorkersStaySlots DEF RequestAlone
<1>2. \A i \in DOMAIN queue' : MessageSlot(task, i)' => i \in DOMAIN queue /\ MessageSlot(task, i)
  BY StandsWithWorkers DEF RequestAlone
<1>3. \A g \in Handlers : SendSlot(task, g)' => SendSlot(task, g)
  BY DEF RequestAlone, SendSlot
<1> QED
  BY <1>1, <1>2, <1>3, AWSSlotsKeptStep

\* A step of a request h that gets slot y for slot x.
LEMMA PassingRequest ==
  ASSUME NEW h \in Handlers, RequestAlone(h), NEW r, NEW task \in Tasks, NEW c,
         DOMAIN queue' \subseteq DOMAIN queue \cup {r},
         \A i \in DOMAIN queue : i # r => queue'[i] = queue[i],
         replays' = 0 => replays = 0,
         NEW x \in AWSSlots(task, c), NEW y,
         \A w : <<"worker", w>> # x,
         \A i \in DOMAIN queue' : MessageSlot(task, i)' /\ i = r => <<"row", i>> = y,
         \A i \in DOMAIN queue' : MessageSlot(task, i)' => <<"row", i>> # x,
         \A g \in Handlers : SendSlot(task, g)' => <<"request", g>> # x,
         SendSlot(task, h)' => <<"request", h>> = y,
         Waiting(task)' => Waiting(task) /\ <<"waiting", task>> # x
  PROVE  AWSSlotMove(task, c)
<1>1. \A w \in Workers : WorkerSlot(task, c, w)' <=> WorkerSlot(task, c, w)
  BY WorkersStaySlots DEF RequestAlone
<1>2. \A i \in DOMAIN queue' :
        i # r /\ MessageSlot(task, i)' => i \in DOMAIN queue /\ MessageSlot(task, i)
  BY StandsWithWorkers DEF RequestAlone
<1>3. \A g \in Handlers : g # h /\ SendSlot(task, g)' => SendSlot(task, g)
  BY DEF RequestAlone, SendSlot
<1>4. \A g \in Handlers : SendSlot(task, g)' =>
          <<"request", g>> = y \/ (SendSlot(task, g) /\ <<"request", g>> # x)
  BY <1>3
<1>5. \A i \in DOMAIN queue' : MessageSlot(task, i)' =>
          <<"row", i>> = y \/ (i \in DOMAIN queue /\ MessageSlot(task, i) /\ <<"row", i>> # x)
  BY <1>2
<1> QED
  BY <1>1, <1>4, <1>5, AWSSlotsPassedStep

LEMMA AnswerSaveSlots ==
  ASSUME StoreTypeOK, ControlTypeOK, WorkersStay, NEW h \in Handlers, ApproveSave(h),
         FreshCopy(hstate[h], htask[h]), hstate[h].status = "WAITING_FOR_APPROVAL",
         NEW task \in Tasks, NEW c
  PROVE  AWSSlotMove(task, c)
<1>0. RequestAlone(h) /\ queue' = queue /\ replays' = replays
  BY DEF ApproveSave, StaleRequest, Respond, HGoto, save_workflow, storeVars, ControlTypeOK,
         RequestAlone
<1>1. CASE StaleRequest(h)
  <2>1. ~SendSlot(task, h)' /\ (Waiting(task)' => Waiting(task))
    BY <1>1 DEF StaleRequest, Respond, ControlTypeOK, storeVars, SendSlot, SendPC, Waiting
  <2>2. \A i \in DOMAIN queue' : i # 0
    BY <1>0, LenProperties, SMT DEF StoreTypeOK
  <2> QED
    BY <1>0, <2>1, <2>2, QuietRequest
<1>2. CASE /\ save_workflow(htask[h], [hstate[h] EXCEPT !.status = "QUEUED"])
           /\ HGoto(h, "approve_enqueue")
  <2>0. PICK new : new = [hstate[h] EXCEPT !.status = "QUEUED"]
    OBVIOUS
  <2>1. /\ htask[h] \in Tasks /\ new \in Checkpoint /\ new.status = "QUEUED"
        /\ new.version = hstate[h].version
    BY <2>0, HandlerTypes, StatusFields DEF WorkflowStatus
  <2>2. save_workflow(htask[h], new)
    BY <1>2, <2>0
  <2>3. NoNewWait
    BY <2>1, <2>2, SaveNoNewWait
  <2>4. \A i \in DOMAIN queue' : i # 0
    BY <1>0, LenProperties, SMT DEF StoreTypeOK
  <2>5. CASE htask[h] # task
    <3>1. ~SendSlot(task, h)'
      BY <1>2, <2>5 DEF HGoto, SendSlot
    <3> QED
      BY <1>0, <2>3, <2>4, <3>1, QuietRequest DEF NoNewWait
  <2>6. CASE htask[h] = task
    <3>0. PICK x, y : x = <<"waiting", task>> /\ y = <<"request", h>>
      OBVIOUS
    <3>1. Waiting(task)
      BY <2>1, <2>2, <2>6 DEF FreshCopy, save_workflow, VersionMatches, Waiting
    <3>2. ~Waiting(task)'
      <4>1. Saved(new).status = "QUEUED"
        BY <2>1 DEF Saved, Checkpoint
      <4> QED
        BY <2>2, <2>6, <4>1 DEF save_workflow, StoreTypeOK, Waiting
    <3>3. x \in AWSSlots(task, c)
      BY <3>0, <3>1, AWSSlotsMember
    <3>4. \A v : <<"worker", v>> # x /\ <<"row", v>> # x /\ <<"request", v>> # x
      BY <3>0
    <3>5. PICK r : r = 0
      OBVIOUS
    <3>6. /\ DOMAIN queue' \subseteq DOMAIN queue \cup {r}
          /\ \A i \in DOMAIN queue : i # r => queue'[i] = queue[i]
          /\ \A i \in DOMAIN queue' : MessageSlot(task, i)' /\ i = r => <<"row", i>> = y
          /\ \A i \in DOMAIN queue' : MessageSlot(task, i)' => <<"row", i>> # x
          /\ \A g \in Handlers : SendSlot(task, g)' => <<"request", g>> # x
          /\ SendSlot(task, h)' => <<"request", h>> = y
          /\ Waiting(task)' => Waiting(task) /\ <<"waiting", task>> # x
      BY <1>0, <2>4, <3>0, <3>2, <3>4, <3>5
    <3> QED
      BY <1>0, <3>3, <3>4, <3>6, PassingRequest
  <2> QED
    BY <2>5, <2>6
<1> QED
  BY <1>1, <1>2 DEF ApproveSave

\* A message that is sent takes the slot of the request that sends it.
LEMMA SentMessageSlots ==
  ASSUME StoreTypeOK, ControlTypeOK, WorkersStay, NEW h \in Handlers, SendMessage(h),
         NEW task \in Tasks, NEW c
  PROVE  AWSSlotMove(task, c)
<1>1. /\ RequestAlone(h) /\ replays' = replays /\ workflows' = workflows
      /\ hpc[h] \in SendPC /\ htask[h] \in Tasks
      /\ hpc'[h] \notin SendPC
  BY HandlerTypes
  DEF SendMessage, send_message, OnlyQueueChanges, Respond, HGoto, ControlTypeOK, RequestAlone,
      SendPC
<1>2. /\ NewRow(htask[h]) \in QueueRow /\ NewRow(htask[h]).task_id = htask[h]
      /\ queue' = Append(queue, NewRow(htask[h])) /\ OnlyQueueChanges
  BY <1>1, NewRowType DEF NewRow, SendMessage, send_message
<1>3. PICK n : /\ DOMAIN queue' = DOMAIN queue \cup {n} /\ n \notin DOMAIN queue
               /\ \A i \in DOMAIN queue : queue'[i] = queue[i]
               /\ queue'[n] = NewRow(htask[h])
  BY <1>2, AppendMessageType
<1>4. ~SendSlot(task, h)' /\ (Waiting(task)' => Waiting(task))
  BY <1>1 DEF SendSlot, Waiting
<1>5. CASE htask[h] # task
  <2>1. ~MessageSlot(task, n)'
    BY <1>2, <1>3, <1>5 DEF MessageSlot
  <2> QED
    BY <1>1, <1>3, <1>4, <2>1, QuietRequest
<1>6. CASE htask[h] = task
  <2>0. PICK x, y : x = <<"request", h>> /\ y = <<"row", n>>
    OBVIOUS
  <2>1. x \in AWSSlots(task, c)
    BY <1>1, <1>6, <2>0, AWSSlotsMember DEF SendSlot
  <2>2. /\ \A v : <<"worker", v>> # x /\ <<"row", v>> # x
        /\ \A g : <<"request", g>> = x <=> g = h
        /\ <<"waiting", task>> # x
    BY <2>0
  <2>3. /\ \A i \in DOMAIN queue' : MessageSlot(task, i)' /\ i = n => <<"row", i>> = y
        /\ \A i \in DOMAIN queue' : MessageSlot(task, i)' => <<"row", i>> # x
        /\ \A g \in Handlers : SendSlot(task, g)' => <<"request", g>> # x
        /\ SendSlot(task, h)' => <<"request", h>> = y
        /\ Waiting(task)' => Waiting(task) /\ <<"waiting", task>> # x
    BY <1>4, <2>0, <2>2
  <2> QED
    BY <1>1, <1>3, <2>1, <2>2, <2>3, PassingRequest
<1> QED
  BY <1>5, <1>6

\* The copy a replay saves waits for nobody.
LEMMA ReplaySaveSlots ==
  ASSUME AWSTypeOK, DeadLetterInv, FollowInv, WorkersStay, UNCHANGED errors,
         UNCHANGED <<crashes, stalls>>, LettersGrow,
         NEW h \in Handlers, ReplaySave(h), NEW task \in Tasks, NEW c
  PROVE  AWSSlotMove(task, c)
<1>1. /\ StoreTypeOK /\ ControlTypeOK /\ LetterType /\ replays \in Nat
      /\ RequestAlone(h) /\ queue' = queue /\ hpc[h] = "replay_save"
  BY AWSTypeParts
  DEF ReplaySave, StaleRequest, Respond, save_workflow, storeVars, ControlTypeOK, RequestAlone
<1>2. \A i \in DOMAIN queue' : i # 0
  BY <1>1, LenProperties, SMT DEF StoreTypeOK
<1>3. CASE StaleRequest(h)
  <2>1. ~SendSlot(task, h)' /\ (Waiting(task)' => Waiting(task)) /\ replays' = replays
    BY <1>1, <1>3 DEF StaleRequest, Respond, ControlTypeOK, storeVars, SendSlot, SendPC, Waiting
  <2> QED
    BY <1>1, <1>2, <2>1, QuietRequest
<1>4. CASE /\ save_workflow(htask[h], [hstate[h] EXCEPT !.status = "QUEUED"])
           /\ hpc' = [hpc EXCEPT ![h] = "replay_send"]
           /\ replays' = replays + 1
           /\ UNCHANGED <<htask, hstate>>
  <2>0. PICK new : new = [hstate[h] EXCEPT !.status = "QUEUED"]
    OBVIOUS
  <2>1. htask[h] \in Tasks /\ new \in Checkpoint /\ new.status = "QUEUED"
    BY <1>1, <2>0, HandlerTypes, StatusFields DEF WorkflowStatus
  <2>2. NoNewWait
    BY <1>1, <1>4, <2>0, <2>1, SaveNoNewWait
  <2>3. replays' # 0
    BY <1>1, <1>4, SMT
  <2>4. CASE htask[h] # task
    <3>1. ~SendSlot(task, h)'
      BY <1>4, <2>4 DEF SendSlot
    <3> QED
      BY <1>1, <1>2, <2>2, <2>3, <3>1, QuietRequest DEF NoNewWait
  <2>5. CASE htask[h] = task /\ replays = 0 /\ ~Misaddressed(h)
    <3>0. PICK r, x, y : r = letter[h] /\ x = <<"row", r>> /\ y = <<"request", h>>
      OBVIOUS
    <3>1. r \in DOMAIN queue /\ queue[r].status = "DEAD" /\ queue[r].task_id = task
      BY <1>1, <2>5, <3>0
      DEF DeadLetterInv, Misaddressed, LetterType, LetterInHand, AnyReceipt, ReplayPC, DeadMessages
    <3>2. MessageSlot(task, r)
      BY <2>5, <3>1 DEF MessageSlot
    <3>3. ~MessageSlot(task, r)'
      BY <1>1, <2>3, <3>1 DEF MessageSlot, ShowsAgain, Receivable
    <3>4. x \in AWSSlots(task, c)
      BY <3>0, <3>1, <3>2, AWSSlotsMember
    <3>5. /\ \A v : <<"worker", v>> # x /\ <<"request", v>> # x
          /\ \A i : <<"row", i>> = x <=> i = r
          /\ <<"waiting", task>> # x
      BY <3>0
    <3>6. /\ \A i \in DOMAIN queue' : MessageSlot(task, i)' /\ i = r => <<"row", i>> = y
          /\ \A i \in DOMAIN queue' : MessageSlot(task, i)' => <<"row", i>> # x
          /\ \A g \in Handlers : SendSlot(task, g)' => <<"request", g>> # x
          /\ SendSlot(task, h)' => <<"request", h>> = y
          /\ Waiting(task)' => Waiting(task) /\ <<"waiting", task>> # x
      BY <2>2, <3>0, <3>3, <3>5 DEF NoNewWait
    <3> QED
      BY <1>1, <2>3, <3>4, <3>5, <3>6, PassingRequest
  <2>6. CASE replays # 0 \/ Misaddressed(h)
    <3>0. PICK y : y = <<"request", h>>
      OBVIOUS
    <3>1. Paid' >= Paid + 1
      <4>1. Faults' = Faults /\ Faults \in Nat
        BY FaultTypes DEF Faults
      <4>2. astray \subseteq astray'
        BY DEF LettersGrow
      <4>3. replays = 0 => astray' # {}
        <5>1. hpc'[h] = "replay_send" /\ letter' = letter /\ htask' = htask
          BY <1>1, <1>4 DEF ReplaySave, ControlTypeOK
        <5>2. Misaddressed(h) => Misaddressed(h)'
          BY <1>1, <5>1 DEF Misaddressed
        <5>3. Misaddressed(h)' => letter'[h] \in astray'
          BY <5>1 DEF LettersGrow, JustAstray
        <5> QED
          BY <2>6, <5>2, <5>3
      <4>4. PICK a, b, m, n, f : /\ a = (IF replays > 0 /\ astray = {} THEN 1 ELSE 0)
                                 /\ b = (IF replays' > 0 /\ astray' = {} THEN 1 ELSE 0)
                                 /\ m = replays /\ n = replays' /\ f = Faults
        OBVIOUS
      <4>5. Paid = f + (m - a) /\ Paid' = f + (n - b)
        BY <4>1, <4>4 DEF Paid, Charge
      <4>6. n = m + 1 /\ m \in Nat /\ a \in {0, 1} /\ b \in {0, 1} /\ f \in Nat /\ (m = 0 => b = 0)
        <5>1. m \in Nat /\ f \in Nat
          BY <1>1, <4>1, <4>4
        <5>2. a \in {0, 1} /\ b \in {0, 1}
          BY <4>4, Zenon
        <5>3. m = 0 => b = 0
          BY <4>3, <4>4, Zenon
        <5> QED
          BY <1>4, <4>4, <5>1, <5>2, <5>3
      <4>7. a = 0 => m = 0 \/ b = 0
        BY <1>1, <4>2, <4>4, SMT
      <4>8. f + (n - b) >= f + (m - a) + 1
        BY <4>6, <4>7, SMT
      <4> QED
        BY <4>5, <4>8
    <3>2. \A w \in Workers : WorkerSlot(task, c, w)' <=> WorkerSlot(task, c, w)
      BY WorkersStaySlots
    <3>3. \A i \in DOMAIN queue' :
              MessageSlot(task, i)' => i \in DOMAIN queue /\ MessageSlot(task, i)
      BY <1>1, <1>2, <2>3, StandsWithWorkers
    <3>4. \A g \in Handlers : SendSlot(task, g)' => <<"request", g>> = y \/ SendSlot(task, g)
      BY <1>1, <3>0 DEF RequestAlone, SendSlot
    <3> QED
      BY <2>2, <3>1, <3>2, <3>3, <3>4, AWSSlotsMadeStep DEF NoNewWait
  <2> QED
    BY <2>4, <2>5, <2>6
<1> QED
  BY <1>3, <1>4 DEF ReplaySave

\* Steps of a request that neither send nor save anything that waits.
LEMMA SilentRequest ==
  ASSUME StoreTypeOK, NEW h \in Handlers, RequestAlone(h), queue' = queue, replays' = replays,
         NEW task \in Tasks, NEW c, SendSlot(task, h)' => SendSlot(task, h),
         Waiting(task)' => Waiting(task)
  PROVE  AWSSlotMove(task, c)
<1>1. \A i \in DOMAIN queue' : i # 0
  BY LenProperties, SMT DEF StoreTypeOK
<1> QED
  BY <1>1, QuietRequest

LEMMA RejectedSaveSlots ==
  ASSUME StoreTypeOK, ControlTypeOK, WorkersStay, NEW h \in Handlers, RejectSave(h),
         NEW task \in Tasks, NEW c
  PROVE  AWSSlotMove(task, c)
<1>1. /\ RequestAlone(h) /\ queue' = queue /\ replays' = replays /\ ~SendSlot(task, h)'
  BY DEF RejectSave, StaleRequest, Respond, save_workflow, storeVars, ControlTypeOK, RequestAlone,
         SendSlot, SendPC
<1>2. CASE StaleRequest(h)
  BY <1>1, <1>2, SilentRequest DEF StaleRequest, storeVars, Waiting
<1>3. CASE save_workflow(htask[h], [hstate[h] EXCEPT !.status = "HUMAN_REJECTED",
                                                     !.pending_action = NoCall])
  <2>0. PICK new : new = [hstate[h] EXCEPT !.status = "HUMAN_REJECTED", !.pending_action = NoCall]
    OBVIOUS
  <2>1. htask[h] \in Tasks /\ new \in Checkpoint
    BY <2>0, HandlerTypes, PendingType DEF WorkflowStatus
  <2>2. new.status = "HUMAN_REJECTED"
    BY <2>0, <2>1, HandlerTypes DEF Checkpoint
  <2>3. NoNewWait
    BY <1>3, <2>0, <2>1, <2>2, SaveNoNewWait
  <2> QED
    BY <1>1, <2>3, SilentRequest DEF NoNewWait
<1> QED
  BY <1>2, <1>3 DEF RejectSave

\* A letter that is deleted is no slot.
LEMMA ReplayDeleteSlots ==
  ASSUME StoreTypeOK, ControlTypeOK, LetterType, WorkersStay, NEW h \in Handlers, ReplayDelete(h),
         NEW task \in Tasks, NEW c
  PROVE  AWSSlotMove(task, c)
<1>0. PICK r : r = letter[h]
  OBVIOUS
<1>1. /\ RequestAlone(h) /\ replays' = replays /\ ~SendSlot(task, h)'
      /\ workflows' = workflows
  BY <1>0
  DEF ReplayDelete, delete_message, SetMessage, OnlyQueueChanges, Respond, storeVars, ControlTypeOK,
      RequestAlone, SendSlot, SendPC
<1>2. CASE UNCHANGED storeVars
  BY <1>1, <1>2, SilentRequest DEF storeVars, Waiting
<1>3. CASE r # NoLetter /\ delete_message(r)
  <2>0. r \in DOMAIN queue
    BY <1>0, <1>3, ReplayDeleteType DEF LetterType, AnyReceipt
  <2>1. /\ OnlyRow(r)
        /\ queue'[r] = [queue[r] EXCEPT !.status = "COMPLETED", !.expired = FALSE]
    BY <1>0, <1>3, <2>0, DeleteType
  <2>2. queue'[r].status = "COMPLETED"
    BY <2>0, <2>1, RowType DEF QueueRow
  <2>3. ~MessageSlot(task, r)'
    BY <2>2 DEF MessageSlot, ShowsAgain, Receivable
  <2> QED
    BY <1>1, <2>0, <2>1, <2>3, QuietRequest DEF OnlyRow, SameDomain, Waiting
<1> QED
  BY <1>0, <1>2, <1>3 DEF ReplayDelete

LEMMA AWSRequestSlots ==
  ASSUME AWSTypeOK, AWSCheckpointInv, DeadLetterInv, FollowInv, AWSWayInv, NEW h \in Handlers,
         AWSControlStep(h), UNCHANGED <<workerVars, errors>>, LettersGrow, NEW task \in Tasks, NEW c,
         ~CreateOnAWS(h, task)
  PROVE  AWSSlotMove(task, c)
<1>1. /\ StoreTypeOK /\ ControlTypeOK /\ LetterType /\ WorkersStay
      /\ UNCHANGED <<crashes, stalls>>
  BY AWSTypeParts DEF workerVars, runtimeVars, localVars, WorkersStay
<1>2. CASE ApproveSave(h)
  <2>1. FreshCopy(hstate[h], htask[h]) /\ hstate[h].status = "WAITING_FOR_APPROVAL"
    BY <1>2 DEF AWSCheckpointInv, AWSCopiesFresh, AnswerPC, AWSWayInv, AnswersWait, ApproveSave
  <2> QED
    BY <1>1, <1>2, <2>1, AnswerSaveSlots
<1>3. CASE ApproveResolve(h) \/ RejectResolve(h)
  <2>1. ASSUME NEW resolution, NEW pc \in {"approve_save", "reject_save"},
               Resolve(h, resolution, pc)
        PROVE  AWSSlotMove(task, c)
    <3>1. /\ RequestAlone(h) /\ queue' = queue /\ replays' = replays /\ workflows' = workflows
          /\ ~SendSlot(task, h)'
      BY <1>1, <2>1
      DEF Resolve, resolve_approval, HGoto, Respond, storeVars, ControlTypeOK, RequestAlone,
          SendSlot, SendPC
    <3> QED
      BY <1>1, <3>1, SilentRequest DEF Waiting
  <2> QED
    BY <1>3, <2>1 DEF ApproveResolve, RejectResolve
<1>4. ASSUME NEW other \in Tasks, Approve(h, other) \/ Reject(h, other) PROVE AWSSlotMove(task, c)
  <2>1. /\ RequestAlone(h) /\ queue' = queue /\ replays' = replays /\ workflows' = workflows
        /\ ~SendSlot(task, h)'
    BY <1>1, <1>4
    DEF Approve, Reject, Open, storeVars, ControlTypeOK, RequestAlone, SendSlot, SendPC
  <2> QED
    BY <1>1, <2>1, SilentRequest DEF Waiting
<1>5. ASSUME NEW i \in AnyReceipt, NEW t \in Tasks, OpenReplay(h, i, t)
      PROVE  AWSSlotMove(task, c)
  <2>1. /\ RequestAlone(h) /\ queue' = queue /\ replays' = replays /\ workflows' = workflows
        /\ ~SendSlot(task, h)'
    BY <1>1, <1>5
    DEF OpenReplay, storeVars, ControlTypeOK, RequestAlone, SendSlot, SendPC
  <2> QED
    BY <1>1, <2>1, SilentRequest DEF Waiting
<1>6. ASSUME NEW other \in Tasks, other # task, CreateOnAWS(h, other) PROVE AWSSlotMove(task, c)
  <2>1. /\ RequestAlone(h) /\ queue' = queue /\ replays' = replays
        /\ ~SendSlot(task, h)'
    BY <1>1, <1>6
    DEF CreateOnAWS, put_workflow, ControlTypeOK, RequestAlone, SendSlot, SendPC
  <2>2. Waiting(task)' => Waiting(task)
    BY <1>1, <1>6 DEF CreateOnAWS, put_workflow, StoreTypeOK, Waiting
  <2> QED
    BY <1>1, <2>1, <2>2, SilentRequest
<1> QED
  BY <1>1, <1>2, <1>3, <1>4, <1>5, <1>6, RejectedSaveSlots, ReplaySaveSlots, ReplayDeleteSlots,
     SentMessageSlots, ControlWays DEF SharedRequest

LEMMA RequestDiesSlots ==
  ASSUME AWSTypeOK, NEW h \in Handlers, HandlerCrash(h), NEW task \in Tasks, NEW c
  PROVE  AWSSlotMove(task, c)
<1>1. StoreTypeOK /\ ControlTypeOK
  BY AWSTypeParts
<1>2. /\ RequestAlone(h) /\ queue' = queue /\ replays' = replays /\ workflows' = workflows
      /\ ~SendSlot(task, h)'
  BY <1>1
  DEF HandlerCrash, Respond, storeVars, runtimeVars, localVars, WorkersStay, ControlTypeOK,
      RequestAlone, SendSlot, SendPC
<1> QED
  BY <1>1, <1>2, SilentRequest DEF Waiting

\* A new incident has one slot, the request that is about to send its message.
LEMMA CreatedOnAWSSlots ==
  ASSUME AWSTypeOK, AWSCheckpointInv, NEW h \in Handlers, NEW task \in Tasks, NEW c,
         CreateOnAWS(h, task), UNCHANGED workerVars
  PROVE  /\ AWSSlots(task, c)' \subseteq {<<"request", h>>}
         /\ Actors(task, c)' = {}
<1>1. /\ StoreTypeOK /\ ControlTypeOK /\ WorkersStay /\ queue' = queue /\ replays' = replays
      /\ task \notin created /\ RequestAlone(h)
  BY AWSTypeParts
  DEF workerVars, runtimeVars, localVars, WorkersStay, CreateOnAWS, put_workflow, RequestAlone,
      ControlTypeOK
<1>2. /\ \A w \in Workers : wpc[w] = "idle" \/ Task(w) # task
      /\ \A i \in DOMAIN queue : queue[i].task_id # task
      /\ \A g \in Handlers : hpc[g] = "idle" \/ htask[g] # task
  BY <1>1 DEF AWSCheckpointInv, OnlyCreated
<1>3. ~Waiting(task)'
  BY <1>1 DEF CreateOnAWS, put_workflow, StoreTypeOK, Waiting, NewWorkflow
<1>4. \A w \in Workers : ~WorkerSlot(task, c, w)'
  BY <1>1, <1>2 DEF WorkersStay, WorkerSlot, SlotPC, RuntimePC, Task
<1>5. \A g \in Handlers : SendSlot(task, g)' => g = h
  BY <1>1, <1>2 DEF RequestAlone, SendSlot, SendPC
<1>6. \A i \in DOMAIN queue' : ~MessageSlot(task, i)'
  BY <1>1, <1>2 DEF MessageSlot
<1>7. Actors(task, c)' = {}
  BY <1>1, <1>2 DEF Actors, CurrentKey, action_id, Task, WorkersStay
<1> QED
  BY <1>3, <1>4, <1>5, <1>6, <1>7 DEF AWSSlots

LEMMA AWSSlotMoves ==
  ASSUME AWSTypeOK, AWSCheckpointInv, DeadLetterInv, FollowInv, AWSWayInv, [AWSNext]_awsVars,
         NEW task \in Tasks, NEW c, ~Recorded(task, c), \A h \in Handlers : ~CreateOnAWS(h, task)
  PROVE  AWSSlotMove(task, c)
<1>0. AWSNext => LettersGrow /\ astray \subseteq astray'
  BY DEF AWSNext, LettersGrow
<1>1. ASSUME NEW w \in Workers, AWSRunOnce(w), UNCHANGED handlerVars, AWSNext
      PROVE  AWSSlotMove(task, c)
  BY <1>0, <1>1, RunOnceSlots
<1>2. CASE /\ \/ \E w \in Workers : WorkerCrash(w)
              \/ \E i \in DOMAIN queue : LeaseExpires(i) \/ Resurrect(i)
           /\ UNCHANGED <<handlerVars, errors>> /\ AWSNext
  <2>1. UNCHANGED handlerVars /\ UNCHANGED errors
    BY <1>2
  <2> QED
    BY <1>0, <1>2, <2>1, CrashMessageSlots, FaultSlots
<1>3. ASSUME NEW h \in Handlers, AWSControlStep(h), UNCHANGED <<workerVars, errors>>, AWSNext
      PROVE  AWSSlotMove(task, c)
  BY <1>0, <1>3, AWSRequestSlots
<1>4. ASSUME NEW h \in Handlers, HandlerCrash(h) PROVE AWSSlotMove(task, c)
  BY <1>4, RequestDiesSlots
<1>5. CASE UNCHANGED awsVars
  <2>1. /\ UNCHANGED handlerVars /\ WorkersStay /\ queue' = queue /\ workflows' = workflows
        /\ wpc' = wpc /\ delivery' = delivery
    BY <1>5 DEF awsVars, vars, storeVars, workerVars, runtimeVars, localVars, WorkersStay
  <2>2. \A w \in Workers : WorkerSlot(task, c, w)' <=> WorkerSlot(task, c, w)
    BY <2>1, WorkersStaySlots
  <2>3. \A v \in Workers, i \in DOMAIN queue : Receipt(v, i) => Receipt(v, i)'
    BY <2>1 DEF Receipt
  <2>4. \A i \in DOMAIN queue' : MessageSlot(task, i)' => i \in DOMAIN queue /\ MessageSlot(task, i)
    BY <2>1, <2>3, SameRequests, MessagesKept
  <2> QED
    BY <2>1, <2>2, <2>4, SameRequests, AWSSlotsKeptStep DEF Waiting
<1> QED
  BY <1>1, <1>2, <1>3, <1>4, <1>5 DEF AWSNext, AWSStep

-----------------------------------------------------------------------------
(* What pays for the slots only grows *)

LEMMA OneMore ==
  ASSUME NEW m \in Nat, NEW n \in {m, m + 1}
  PROVE  n \in Nat /\ m <= n
  BY SMT

LEMMA FaultsGrow ==
  ASSUME AWSTypeInv, [AWSNext]_awsVars
  PROVE  /\ crashes' \in {crashes, crashes + 1}
         /\ stalls' \in {stalls, stalls + 1}
         /\ errors' \in {errors, errors + 1}
<1>1. StoreTypeOK /\ LocalTypeOK /\ HoldsRow /\ HoldsNoLetter
  BY AWSTypeParts DEF AWSTypeInv
<1>2. ASSUME NEW w \in Workers, AWSRunOnce(w)
      PROVE  UNCHANGED <<crashes, stalls>> /\ errors' \in {errors, errors + 1}
  <2>1. CASE SharedStep(w) /\ UNCHANGED errors
    BY <2>1
    DEF SharedStep, DeadLoad, DeadSave, PermanentLoad, PermanentSave, Reload, SaveFinal, Budgets
  <2>2. ASSUME NEW i \in DOMAIN queue, ReceiveMessage(w, i), UNCHANGED errors
        PROVE  UNCHANGED <<crashes, stalls>> /\ errors' \in {errors, errors + 1}
    BY <2>2 DEF ReceiveMessage, Budgets
  <2> QED
    BY <1>1, <1>2, <2>1, <2>2, WorkerWays DEF CallFails, Leaves, Budgets
<1>3. CASE /\ \/ \E w \in Workers : WorkerCrash(w)
              \/ \E i \in DOMAIN queue : LeaseExpires(i) \/ Resurrect(i)
           /\ UNCHANGED errors
  BY <1>3 DEF WorkerCrash, LeaseExpires, Resurrect
<1> QED
  BY <1>2, <1>3 DEF AWSNext, AWSStep, workerVars, HandlerCrash, awsVars, vars

LEMMA PaidGrows ==
  ASSUME AWSTypeInv, AWSCheckpointInv, [AWSNext]_awsVars
  PROVE  Paid \in Nat /\ Paid' \in Nat /\ Paid <= Paid'
<1>1. /\ crashes \in Nat /\ stalls \in Nat /\ errors \in Nat /\ replays \in Nat
  BY FaultTypes DEF AWSTypeInv
<1>2. replays' \in {replays, replays + 1}
  BY EndingNext DEF EndingStep, awsVars, vars, handlerVars
<1>3. /\ crashes' \in Nat /\ crashes <= crashes' /\ stalls' \in Nat /\ stalls <= stalls'
      /\ errors' \in Nat /\ errors <= errors' /\ replays' \in Nat /\ replays <= replays'
  BY <1>1, <1>2, FaultsGrow, OneMore
<1>4. PICK i, j : i = Charge /\ j = Charge'
  OBVIOUS
<1>5. i \in Nat /\ j \in Nat /\ i <= j
  <2>1. astray \subseteq astray'
    BY DEF AWSNext, awsVars
  <2> QED
    BY <1>1, <1>3, <1>4, <2>1, ChargeGrows
<1>6. Paid = crashes + stalls + errors + i /\ Paid' = crashes' + stalls' + errors' + j
  BY <1>4 DEF Paid, Faults
<1>7. PICK a, b, d, p, q, r : /\ a = crashes /\ b = stalls /\ d = errors
                                /\ p = crashes' /\ q = stalls' /\ r = errors'
  OBVIOUS
<1>8. /\ a \in Nat /\ b \in Nat /\ d \in Nat /\ p \in Nat /\ q \in Nat /\ r \in Nat
      /\ a <= p /\ b <= q /\ d <= r
  BY <1>1, <1>3, <1>7
<1>9. /\ a + b + d + i \in Nat /\ p + q + r + j \in Nat /\ a + b + d + i <= p + q + r + j
  BY <1>5, <1>8, SMT
<1> QED
  BY <1>6, <1>7, <1>9

-----------------------------------------------------------------------------
(* The ledger and the backend on AWS *)

\* What AWS adds to the steps of a worker touches neither.
LEMMA AWSLedgerSteps ==
  ASSUME AWSTypeInv, [AWSNext]_awsVars
  PROVE  LedgerStep
<1>1. StoreTypeOK /\ LocalTypeOK /\ HoldsRow /\ HoldsNoLetter
  BY AWSTypeParts DEF AWSTypeInv
<1>2. ASSUME NEW w \in Workers, AWSRunOnce(w), UNCHANGED handlerVars PROVE LedgerStep
  <2>1. CASE SharedStep(w)
    <3>1. Next
      BY <1>2, <2>1, SharedRunOnce DEF Next, WorkerNext
    <3> QED
      BY <3>1, LedgerSteps
  <2>2. ASSUME NEW i \in DOMAIN queue, ReceiveMessage(w, i) PROVE LedgerStep
    BY <2>2
    DEF ReceiveMessage, receive_message, SetMessage, OnlyQueueChanges, Budgets, LedgerStep, Untouched
  <2>3. CASE CallFails(w)
    BY <1>1, <2>3, FailLeaves DEF CallFails, Budgets, LedgerStep, Untouched
  <2>4. CASE Leaves(w)
    BY <2>4 DEF Leaves, OnlyQueueChanges, Budgets, LedgerStep, Untouched
  <2> QED
    BY <1>1, <1>2, <2>1, <2>2, <2>3, <2>4, WorkerWays
<1>3. CASE \/ \E w \in Workers : WorkerCrash(w)
           \/ \E i \in DOMAIN queue : LeaseExpires(i) \/ Resurrect(i)
  BY <1>3
  DEF WorkerCrash, LeaseExpires, Resurrect, SetMessage, OnlyQueueChanges, storeVars, runtimeVars,
      LedgerStep, Untouched
<1>4. ASSUME NEW h \in Handlers, AWSControlStep(h), UNCHANGED workerVars PROVE LedgerStep
  <2>1. UNCHANGED tool_results
    BY <1>4, ControlWays
    DEF SharedRequest, ApproveResolve, ApproveSave, RejectResolve, RejectSave, Resolve,
        resolve_approval, StaleRequest, save_workflow, ReplaySave, ReplayDelete, delete_message,
        SetMessage, SendMessage, send_message, OnlyQueueChanges, CreateOnAWS, put_workflow,
        Approve, Reject, Open, OpenReplay, storeVars
  <2> QED
    BY <1>4, <2>1 DEF workerVars, runtimeVars, LedgerStep, Untouched
<1>5. ASSUME NEW h \in Handlers, HandlerCrash(h) PROVE LedgerStep
  BY <1>5 DEF HandlerCrash, storeVars, runtimeVars, LedgerStep, Untouched
<1>6. CASE UNCHANGED awsVars
  BY <1>6 DEF awsVars, vars, storeVars, workerVars, runtimeVars, LedgerStep, Untouched
<1> QED
  BY <1>2, <1>3, <1>4, <1>5, <1>6 DEF AWSNext, AWSStep

\* Whose step it is when a worker gets past the loading of its checkpoint.
LEMMA AWSOwnSteps ==
  ASSUME AWSTypeInv, [AWSNext]_awsVars, NEW v \in Workers
  PROVE  \/ RunOnceStep(v) /\ UNCHANGED handlerVars
         \/ SameWork(v)
         \/ wpc'[v] \notin RuntimePC \ {"load"}
<1>1. StoreTypeOK /\ LocalTypeOK /\ HoldsRow /\ HoldsNoLetter
  BY AWSTypeParts DEF AWSTypeInv
<1>2. ASSUME NEW w \in Workers, AWSRunOnce(w), UNCHANGED handlerVars, v = w
      PROVE  (RunOnceStep(v) /\ UNCHANGED handlerVars) \/ wpc'[v] \notin RuntimePC \ {"load"}
  <2>1. CASE SharedStep(w)
    BY <1>2, <2>1, SharedRunOnce
  <2>2. ASSUME NEW i \in DOMAIN queue, ReceiveMessage(w, i) PROVE wpc'[v] = "load"
    BY <1>1, <1>2, <2>2, ReceiveStepType
  <2>3. CASE CallFails(w)
    BY <1>1, <1>2, <2>3, FailLeaves DEF RuntimePC
  <2>4. CASE Leaves(w)
    BY <1>1, <1>2, <2>4, LeavesType DEF LeavePC, RuntimePC
  <2> QED
    BY <1>1, <1>2, <2>1, <2>2, <2>3, <2>4, WorkerWays
<1>3. ASSUME NEW w \in Workers, AWSRunOnce(w), v # w PROVE SameWork(v)
  BY <1>3, WorkerApprovals DEF OthersKeep, SameWork
<1>4. ASSUME NEW w \in Workers, WorkerCrash(w)
      PROVE  SameWork(v) \/ wpc'[v] = "idle"
  BY <1>1, <1>4 DEF WorkerCrash, Finish, Goto, LocalTypeOK, SameWork
<1>5. ASSUME UNCHANGED <<wpc, localVars>> PROVE SameWork(v)
  BY <1>5 DEF localVars, SameWork
<1>6. ASSUME NEW i \in DOMAIN queue, LeaseExpires(i) \/ Resurrect(i) PROVE SameWork(v)
  BY <1>5, <1>6 DEF LeaseExpires, Resurrect, runtimeVars
<1>7. ASSUME \/ UNCHANGED workerVars
             \/ \E h \in Handlers : HandlerCrash(h)
             \/ UNCHANGED awsVars
      PROVE  SameWork(v)
  BY <1>5, <1>7 DEF workerVars, runtimeVars, HandlerCrash, awsVars, vars
<1> QED
  BY <1>2, <1>3, <1>4, <1>6, <1>7 DEF AWSNext, AWSStep, RuntimePC

LEMMA AWSOwnWays ==
  ASSUME AWSTypeInv, [AWSNext]_awsVars
  PROVE  \A v \in Workers : OnItsOwn(v)
  BY AWSOwnSteps DEF OnItsOwn

-----------------------------------------------------------------------------
(* The effects are accounted for *)

\* e effects and the candidates S are within the budget b: so are f effects and T within d.
LEMMA Accounts ==
  ASSUME NEW S, NEW T, IsFiniteSet(S), NEW e \in Nat, NEW f \in Nat, NEW b \in Nat, NEW d \in Nat,
         e + Cardinality(S) <= b,
         \/ T \subseteq S /\ f - e <= d - b
         \/ \E x \in S : T \subseteq S \ {x} /\ f = e + 1 /\ b <= d
         \/ \E x \in S : \E y : T \subseteq (S \ {x}) \cup {y} /\ f - e <= d - b
         \/ \E y : T \subseteq S \cup {y} /\ f - e + 1 <= d - b
  PROVE  IsFiniteSet(T) /\ f + Cardinality(T) <= d
<1>1. PICK n : n = Cardinality(S)
  OBVIOUS
<1>2. n \in Nat /\ e + n <= b
  BY <1>1, FS_CardinalityType
<1>3. ASSUME IsFiniteSet(T), NEW m \in Nat, m = Cardinality(T),
             \/ m <= n /\ f - e <= d - b
             \/ m <= n - 1 /\ f = e + 1 /\ b <= d
             \/ m <= n + 1 /\ f - e + 1 <= d - b
      PROVE  IsFiniteSet(T) /\ f + Cardinality(T) <= d
  <2>1. f + m <= d
    BY <1>2, <1>3, SMT
  <2> QED
    BY <1>3, <2>1
<1>4. CASE T \subseteq S /\ f - e <= d - b
  BY <1>1, <1>3, <1>4, Shrink
<1>5. CASE \E x \in S : T \subseteq S \ {x} /\ f = e + 1 /\ b <= d
  BY <1>1, <1>3, <1>5, Discard
<1>6. CASE \E x \in S : \E y : T \subseteq (S \ {x}) \cup {y} /\ f - e <= d - b
  BY <1>1, <1>3, <1>6, Exchange
<1>7. CASE \E y : T \subseteq S \cup {y} /\ f - e + 1 <= d - b
  BY <1>1, <1>3, <1>7, Grow
<1> QED
  BY <1>4, <1>5, <1>6, <1>7

LEMMA AWSActorSlots ==
  ASSUME NEW task, NEW c
  PROVE  Actors(task, c) \subseteq AWSSlots(task, c)
  BY ActorSlot DEF Actors, AWSSlots

\* What one step does to the candidates of a call and to its effects.
LEMMA CandidatesStep ==
  ASSUME AWSTypeInv, AWSCheckpointInv, DeadLetterInv, FollowInv, AWSWayInv, [AWSNext]_awsVars,
         NEW task \in Tasks, NEW c \in Calls, \A h \in Handlers : ~CreateOnAWS(h, task),
         NEW S, S = AWSCandidates(task, c), NEW T, T = AWSCandidates(task, c)'
  PROVE  \/ T \subseteq S /\ ~KeyDone(<<task, c>>)
         \/ \E x \in S : T \subseteq S \ {x}
         \/ \E x \in S : \E y : T \subseteq (S \ {x}) \cup {y} /\ ~KeyDone(<<task, c>>)
         \/ \E y : T \subseteq S \cup {y} /\ ~KeyDone(<<task, c>>) /\ Paid' >= Paid + 1
<1>0. PICK key : key = <<task, c>>
  OBVIOUS
<1>1. /\ key \in Key /\ AWSTypeOK /\ StoreTypeOK /\ LocalTypeOK /\ EffectsTypeOK
      /\ LedgerStep /\ \A v \in Workers : OnItsOwn(v)
  BY <1>0, AWSTypeParts, AWSLedgerSteps, AWSOwnWays DEF AWSTypeInv, Key
<1>2. CASE tool_results[key] # NoResult
  <2>1. tool_results'[key] # NoResult
    BY <1>1, <1>2, LedgerKeeps
  <2>2. S = Actors(task, c) /\ T = Actors(task, c)'
    BY <1>0, <1>2, <2>1 DEF AWSCandidates
  <2>3. T \subseteq S
    BY <1>0, <1>1, <1>2, <2>2, ActorsStep
  <2>4. CASE KeyDone(key)
    <3>1. PICK w \in Workers, r \in Results : BackendSucceeds(w, r) /\ CurrentKey(w) = key
      BY <2>4 DEF KeyDone
    <3>2. wpc[w] = "backend" /\ wpc'[w] # "backend"
      BY <1>1, <3>1 DEF BackendSucceeds, Goto, LocalTypeOK
    <3>3. <<"worker", w>> \in Actors(task, c) /\ <<"worker", w>> \notin Actors(task, c)'
      BY <1>0, <3>1, <3>2 DEF Actors
    <3> QED
      BY <2>2, <2>3, <3>3
  <2> QED
    BY <1>0, <2>3, <2>4
<1>3. CASE tool_results[key] = NoResult /\ tool_results'[key] # NoResult
  <2>1. S = AWSSlots(task, c) /\ T = Actors(task, c)'
    BY <1>0, <1>3 DEF AWSCandidates
  <2>2. T \subseteq S
    BY <1>0, <1>1, <1>3, <2>1, ActorsStep, AWSActorSlots
  <2> QED
    BY <1>0, <1>3, <2>2 DEF KeyDone
<1>4. CASE tool_results[key] = NoResult /\ tool_results'[key] = NoResult
  <2>1. S = AWSSlots(task, c) /\ T = AWSSlots(task, c)'
    BY <1>0, <1>4 DEF AWSCandidates
  <2>2. CASE KeyDone(key)
    <3>1. PICK w \in Workers, r \in Results : BackendSucceeds(w, r) /\ CurrentKey(w) = key
      BY <2>2 DEF KeyDone
    <3>2. Task(w) = task /\ call[w] = c
      BY <1>0, <3>1 DEF CurrentKey, action_id
    <3>3. wpc[w] = "backend" /\ wpc'[w] = "save_result"
      BY <1>1, <3>1 DEF BackendSucceeds, Goto, LocalTypeOK
    <3>4. RunOnceStep(w) /\ Busy(w) /\ UNCHANGED handlerVars
      BY <1>1, <3>3, AWSOwnSteps DEF SameWork, Busy, RuntimePC
    <3>5. OthersKeep(w)
      BY <1>1, <3>4, RunOnceOthersKeep
    <3>6. /\ <<"worker", w>> \in AWSSlots(task, c)
          /\ AWSSlots(task, c)' \subseteq AWSSlots(task, c) \ {<<"worker", w>>}
      BY <3>1, <3>2, <3>4, <3>5, AWSBackendSlots
    <3> QED
      BY <2>1, <3>6
  <2>3. CASE ~KeyDone(key)
    <3>1. ~Recorded(task, c)
      BY <1>0, <1>1, <1>4, RecordedFills DEF AWSCheckpointInv
    <3>2. AWSSlotMove(task, c)
      BY <1>1, <3>1, AWSSlotMoves
    <3> QED
      BY <1>0, <2>1, <2>3, <3>2 DEF AWSSlotMove, AWSSlotsKept, AWSSlotPassed, AWSSlotMade
  <2> QED
    BY <2>2, <2>3
<1> QED
  BY <1>2, <1>3, <1>4

\* A task with a workflow.
LEMMA AWSEffectsBoundedStep ==
  ASSUME AWSTypeInv, AWSTypeInv', AWSCheckpointInv, DeadLetterInv, FollowInv, AWSWayInv,
         [AWSNext]_awsVars, NEW task \in Tasks, NEW c \in Calls,
         \A h \in Handlers : ~CreateOnAWS(h, task), AWSEffectsBounded(task, c)
  PROVE  AWSEffectsBounded(task, c)'
<1>0. PICK S, T, e, f, p, q, s, t :
        /\ S = AWSCandidates(task, c) /\ T = AWSCandidates(task, c)'
        /\ e = effects[<<task, c>>] /\ f = effects'[<<task, c>>]
        /\ p = Paid /\ q = Paid' /\ s = timeouts /\ t = timeouts'
  OBVIOUS
<1>1. <<task, c>> \in Key /\ EffectsTypeOK /\ EffectsTypeOK' /\ LedgerStep
  <2>1. AWSTypeOK'
    BY DEF AWSTypeInv
  <2>2. EffectsTypeOK'
    BY <2>1, AWSTypeParts, PTL
  <2> QED
    BY <2>2, AWSTypeParts, AWSLedgerSteps DEF AWSTypeInv, Key
<1>2. e \in Nat /\ f \in Nat /\ s \in Nat /\ t \in Nat
  BY <1>0, <1>1 DEF EffectsTypeOK
<1>3. p \in Nat /\ q \in Nat /\ p <= q
  BY <1>0, PaidGrows
<1>4. /\ ~KeyDone(<<task, c>>) =>
            (f = e /\ t \in {s, s + 1}) \/ (f = e + 1 /\ t = s + 1)
      /\ f \in {e, e + 1} /\ t \in {s, s + 1}
  <2>1. KeyQuiet(<<task, c>>) \/ KeyDone(<<task, c>>) \/ KeyTimedOut(<<task, c>>)
    BY <1>1, KeyStep
  <2>2. CASE KeyQuiet(<<task, c>>)
    BY <1>0, <2>2 DEF KeyQuiet
  <2>3. CASE KeyDone(<<task, c>>)
    <3>1. f = e + 1 /\ t = s
      BY <1>0, <2>3 DEF KeyDone
    <3> QED
      BY <2>3, <3>1
  <2>4. CASE KeyTimedOut(<<task, c>>)
    BY <1>0, <2>4 DEF KeyTimedOut
  <2> QED
    BY <2>1, <2>2, <2>3, <2>4
<1>5. PICK b, d : b = 1 + p + s /\ d = 1 + q + t
  OBVIOUS
<1>6. b \in Nat /\ d \in Nat
  BY <1>2, <1>3, <1>5, SMT
<1>7. f = e \/ f = e + 1
  BY <1>4
<1>8. b <= d
  BY <1>2, <1>3, <1>4, <1>5, SMT
<1>9. ASSUME ~KeyDone(<<task, c>>) PROVE f - e <= d - b
  BY <1>2, <1>3, <1>4, <1>5, <1>9, SMT
<1>10. ASSUME ~KeyDone(<<task, c>>), Paid' >= Paid + 1 PROVE f - e + 1 <= d - b
  <2>1. q >= p + 1
    BY <1>0, <1>10
  <2> QED
    BY <1>2, <1>3, <1>4, <1>5, <1>10, <2>1, SMT
<1>11. IsFiniteSet(S) /\ e + Cardinality(S) <= b
  BY <1>0, <1>5 DEF AWSEffectsBounded
<1>12. \/ T \subseteq S /\ ~KeyDone(<<task, c>>)
       \/ \E x \in S : T \subseteq S \ {x}
       \/ \E x \in S : \E y : T \subseteq (S \ {x}) \cup {y} /\ ~KeyDone(<<task, c>>)
       \/ \E y : T \subseteq S \cup {y} /\ ~KeyDone(<<task, c>>) /\ Paid' >= Paid + 1
  BY <1>0, CandidatesStep
<1>13. IsFiniteSet(T) /\ f + Cardinality(T) <= d
  <2>1. CASE \E x \in S : T \subseteq S \ {x}
    <3>1. CASE f = e + 1
      BY <1>2, <1>6, <1>8, <1>11, <2>1, <3>1, Accounts
    <3>2. CASE f = e
      <4>1. T \subseteq S /\ f - e <= d - b
        <5>1. f - e <= d - b
          BY <1>2, <1>6, <1>8, <3>2, SMT
        <5> QED
          BY <2>1, <5>1
      <4> QED
        BY <1>2, <1>6, <1>11, <4>1, Accounts
    <3> QED
      BY <1>7, <3>1, <3>2
  <2>2. CASE T \subseteq S /\ ~KeyDone(<<task, c>>)
    <3>1. T \subseteq S /\ f - e <= d - b
      BY <1>9, <2>2
    <3> QED
      BY <1>2, <1>6, <1>11, <3>1, Accounts
  <2>3. CASE \E x \in S : \E y : T \subseteq (S \ {x}) \cup {y} /\ ~KeyDone(<<task, c>>)
    <3>1. \E x \in S : \E y : T \subseteq (S \ {x}) \cup {y} /\ f - e <= d - b
      BY <1>9, <2>3
    <3> QED
      BY <1>2, <1>6, <1>11, <3>1, Accounts
  <2>4. CASE \E y : T \subseteq S \cup {y} /\ ~KeyDone(<<task, c>>) /\ Paid' >= Paid + 1
    <3>1. \E y : T \subseteq S \cup {y} /\ f - e + 1 <= d - b
      BY <1>10, <2>4
    <3> QED
      BY <1>2, <1>6, <1>11, <3>1, Accounts
  <2> QED
    BY <1>12, <2>1, <2>2, <2>3, <2>4
<1> QED
  BY <1>0, <1>5, <1>13 DEF AWSEffectsBounded

\* The workflow is only created now.
LEMMA CreatedByRequest ==
  ASSUME AWSTypeInv, [AWSNext]_awsVars, NEW h \in Handlers, NEW task, CreateOnAWS(h, task)
  PROVE  UNCHANGED workerVars
<1>1. hpc'[h] = "create_send" /\ hpc[h] = "idle" /\ task \notin created /\ task \in created'
  BY AWSTypeParts DEF AWSTypeInv, CreateOnAWS, put_workflow, ControlTypeOK
<1>2. ~UNCHANGED handlerVars
  BY <1>1 DEF handlerVars
<1>3. ~UNCHANGED created
  BY <1>1
<1> QED
  BY <1>2, <1>3 DEF AWSNext, AWSStep, HandlerCrash, storeVars, awsVars, vars

LEMMA AWSEffectsBoundedCreated ==
  ASSUME AWSTypeInv, AWSTypeInv', AWSCheckpointInv, EffectsOnCreated, [AWSNext]_awsVars,
         NEW task \in Tasks, NEW c \in Calls, NEW h \in Handlers, CreateOnAWS(h, task)
  PROVE  AWSEffectsBounded(task, c)'
<1>1. UNCHANGED workerVars
  BY CreatedByRequest
<1>2. /\ AWSSlots(task, c)' \subseteq {<<"request", h>>}
      /\ Actors(task, c)' = {}
  BY <1>1, CreatedOnAWSSlots DEF AWSTypeInv
<1>3. task \notin created /\ effects' = effects
  BY <1>1 DEF CreateOnAWS, workerVars, runtimeVars
<1>4. effects'[<<task, c>>] = 0
  BY <1>3 DEF EffectsOnCreated
<1>5. AWSCandidates(task, c)' \subseteq {<<"request", h>>}
  BY <1>2 DEF AWSCandidates
<1>6. PICK T, n, q, t : /\ T = AWSCandidates(task, c)' /\ n = Cardinality(T)
                        /\ q = Paid' /\ t = timeouts'
  OBVIOUS
<1>7. IsFiniteSet(T) /\ n \in Nat /\ n <= 1
  BY <1>5, <1>6, OneElement
<1>8. AWSTypeOK'
  BY DEF AWSTypeInv
<1>9. EffectsTypeOK'
  BY <1>8, AWSTypeParts, PTL
<1>10. q \in Nat /\ t \in Nat
  BY <1>6, <1>9, PaidGrows DEF EffectsTypeOK
<1>11. 0 + n <= 1 + q + t
  BY <1>7, <1>10, SMT
<1> QED
  BY <1>4, <1>6, <1>7, <1>11 DEF AWSEffectsBounded

-----------------------------------------------------------------------------
(* What the workers and the requests know *)

\* A worker goes on with the message it has until it receives another.
LEMMA AWSDeliveryStays ==
  ASSUME AWSTypeInv, [AWSNext]_awsVars, NEW v \in Workers, wpc'[v] # "idle"
  PROVE  \/ wpc[v] # "idle" /\ delivery'[v] = delivery[v]
         \/ \E i \in DOMAIN queue : ReceiveMessage(v, i)
<1>1. StoreTypeOK /\ LocalTypeOK /\ HoldsRow /\ HoldsNoLetter
  BY AWSTypeParts DEF AWSTypeInv
<1>2. CASE AWSRunOnce(v)
  <2>1. CASE SharedStep(v)
    BY <1>1, <2>1, SharedType DEF LocalStepOK, NothingClaimed
  <2>2. CASE CallFails(v)
    BY <1>1, <2>2, FailLeaves DEF LocalStepOK, NothingClaimed
  <2>3. CASE Leaves(v)
    BY <1>1, <2>3, LeavesType DEF Leaves
  <2> QED
    BY <1>1, <1>2, <2>1, <2>2, <2>3, WorkerWays
<1>3. CASE SameWork(v)
  BY <1>3 DEF SameWork
<1>4. ASSUME NEW w \in Workers, AWSRunOnce(w), v # w PROVE SameWork(v)
  BY <1>1, <1>4, WorkerApprovals DEF OthersKeep, SameWork
<1>5. ASSUME NEW w \in Workers, WorkerCrash(w) PROVE SameWork(v)
  BY <1>1, <1>5 DEF WorkerCrash, Finish, Goto, LocalTypeOK, SameWork
<1>6. ASSUME UNCHANGED <<wpc, localVars>> PROVE SameWork(v)
  BY <1>6 DEF localVars, SameWork
<1>7. ASSUME NEW i \in DOMAIN queue, LeaseExpires(i) \/ Resurrect(i) PROVE SameWork(v)
  BY <1>6, <1>7 DEF LeaseExpires, Resurrect, runtimeVars
<1>8. ASSUME \/ UNCHANGED workerVars
             \/ \E h \in Handlers : HandlerCrash(h)
             \/ UNCHANGED awsVars
      PROVE  SameWork(v)
  BY <1>6, <1>8 DEF workerVars, runtimeVars, HandlerCrash, awsVars, vars
<1> QED
  BY <1>2, <1>3, <1>4, <1>5, <1>7, <1>8 DEF AWSNext, AWSStep

LEMMA AWSHeldRowTaskNext ==
  ASSUME AWSTypeInv, HeldRowTask, [AWSNext]_awsVars
  PROVE  HeldRowTask'
<1> SUFFICES ASSUME NEW v \in Workers, wpc'[v] # "idle"
             PROVE  queue'[delivery'[v].id].task_id = delivery'[v].task_id
  BY DEF HeldRowTask, Task
<1>1. StoreTypeOK /\ LocalTypeOK /\ HoldsRow
  BY AWSTypeParts DEF AWSTypeInv
<1>2. RowsKept
  BY AWSMessageStep DEF RowsKept, awsVars, vars, storeVars
<1>3. CASE wpc[v] # "idle" /\ delivery'[v] = delivery[v]
  BY <1>1, <1>2, <1>3 DEF HeldRowTask, HoldsRow, RowsKept, Task
<1>4. ASSUME NEW i \in DOMAIN queue, ReceiveMessage(v, i)
      PROVE  queue'[delivery'[v].id].task_id = delivery'[v].task_id
  <2>1. delivery'[v].id = i /\ delivery'[v].task_id = queue[i].task_id
    BY <1>1, <1>4 DEF ReceiveMessage, LocalTypeOK
  <2> QED
    BY <1>2, <2>1 DEF RowsKept
<1> QED
  BY <1>3, <1>4, AWSDeliveryStays

\* A checkpoint that process() goes on with is open, and stays so until it asks a human.
LEMMA OpenCopyNext ==
  ASSUME StoreTypeOK, LocalTypeOK, NEW w \in Workers, OpenCopy(w), OnItsOwn(w)
  PROVE  OpenCopy(w)'
<1> DEFINE StaysOpen == state'[w].status \in OpenStatus
           Out == wpc'[w] \notin RuntimePC \ {"load", "create_approval"}
<1> SUFFICES StaysOpen \/ Out
  BY DEF OpenCopy
<1>1. Task(w) \in Tasks /\ state[w] \in Checkpoint /\ workflows[Task(w)] \in Checkpoint
  BY DEF LocalTypeOK, StoreTypeOK, Delivery, Task
<1>2. CASE SameWork(w)
  BY <1>2 DEF SameWork, OpenCopy
<1>3. ASSUME NEW pc, Goto(w, pc), pc \notin RuntimePC \ {"load", "create_approval"} PROVE Out
  BY <1>3 DEF Goto, LocalTypeOK
<1>4. ASSUME NEW new, \/ Return(w, new) \/ StaleSave(w, new)
                      \/ SaveAndReturn(w, new) \/ SaveAndRaise(w, new)
      PROVE  Out
  BY <1>3, <1>4
  DEF Return, StaleSave, LeaveProcess, SaveAndReturn, SaveAndRaise, RuntimePC
<1>5. CASE \/ ModelFailsRetryably(w)
           \/ BackendFailsRetryably(w) \/ BackendTimesOut(w) \/ DecideComplete(w)
           \/ DecideFail(w) \/ PolicyDenied(w) \/ BackendFailsPermanently(w) \/ RecordResult(w)
           \/ CreateApproval(w)
  BY <1>4, <1>5
  DEF ModelFailsRetryably, BackendFailsRetryably, BackendTimesOut, DecideComplete, DecideFail,
      PolicyDenied, BackendFailsPermanently, RecordResult, Fail, FailRetryably, CreateApproval
<1>6. CASE SaveWaiting(w)
  BY <1>3, <1>4, <1>6 DEF SaveWaiting, SaveAndGoto, RuntimePC
<1>7. CASE SaveRunning(w)
  <2> DEFINE new == [state[w] EXCEPT !.status = "RUNNING"]
  <2>1. new \in Checkpoint /\ new.status = "RUNNING"
    <3>1. "RUNNING" \in WorkflowStatus
      BY DEF WorkflowStatus
    <3>2. new \in Checkpoint
      BY <1>1, <3>1, StatusType
    <3>3. new.status = "RUNNING"
      BY <1>1 DEF Checkpoint
    <3> QED
      BY <3>2, <3>3
  <2>2. SaveAndGoto(w, new, "decide")
    BY <1>7 DEF SaveRunning
  <2> HIDE DEF new
  <2>3. Saved(new).status = "RUNNING"
    BY <2>1 DEF Saved, Checkpoint
  <2>4. CASE state' = [state EXCEPT ![w] = Saved(new)]
    BY <2>3, <2>4 DEF LocalTypeOK, OpenStatus
  <2> QED
    BY <1>4, <2>2, <2>4 DEF SaveAndGoto
<1>8. ASSUME NEW c \in Calls, DecideTool(w, c) PROVE StaysOpen \/ Out
  <2> DEFINE requested == Requested(state[w], c)
  <2>1. requested \in Checkpoint /\ requested.status \in OpenStatus
    BY <1>1, <1>8, RequestedFields DEF DecideTool, OpenCopy, RuntimePC
  <2>2. Saved(requested).status \in OpenStatus
    BY <2>1 DEF Saved, Checkpoint
  <2>3. CASE state' = [state EXCEPT ![w] = Saved(requested)]
    BY <2>2, <2>3 DEF LocalTypeOK
  <2> QED
    BY <1>4, <1>8, <2>3 DEF DecideTool
<1>9. CASE Load(w)
  <2>1. CASE Return(w, workflows[Task(w)])
    BY <1>4, <2>1
  <2>2. CASE Resumable(workflows[Task(w)]) /\ state' = [state EXCEPT ![w] = workflows[Task(w)]]
    BY <1>1, <2>2
    DEF LocalTypeOK, Resumable, terminal, TerminalStatus, OpenStatus, WorkflowStatus, Checkpoint
  <2> QED
    BY <1>9, <2>1, <2>2 DEF Load
<1>10. CASE \/ ResumeApprovedAction(w) \/ SaveToolResult(w) \/ LookupResult(w)
            \/ \E r \in Results : BackendSucceeds(w, r)
  <2>1. CASE state' = state
    BY <1>10, <2>1
    DEF OpenCopy, RuntimePC, ResumeApprovedAction, SaveToolResult, LookupResult, BackendSucceeds
  <2> QED
    BY <1>4, <1>10, <2>1
    DEF ResumeApprovedAction, SaveToolResult, LookupResult, BackendSucceeds, localVars
<1>11. CASE ModelFailsPermanently(w)
  BY <1>3, <1>11 DEF ModelFailsPermanently, LeaveProcess, RuntimePC
<1>12. CASE ReportStep(w) \/ \E i \in DOMAIN queue : Claim(w, i)
  BY <1>3, <1>12
  DEF Claim, ReportStep, Acknowledge, Enqueue, RetryOrDeadLetter, DeadLoad, DeadSave,
      PermanentAcknowledge, PermanentLoad, PermanentSave, Reload, SaveFinal, Finish,
      LeaveProcess, RuntimePC
<1> QED
  BY <1>2, <1>5, <1>6, <1>7, <1>8, <1>9, <1>10, <1>11, <1>12
  DEF OnItsOwn, RunOnceStep, ProcessStep, ReportStep

\* Only a request that finds the checkpoint waiting answers it.
LEMMA AnswersWaitNext ==
  ASSUME AWSTypeInv, AWSCheckpointInv, AnswersWait, [AWSNext]_awsVars
  PROVE  AnswersWait'
<1>1. ControlTypeOK
  BY AWSTypeParts DEF AWSTypeInv
<1>2. ASSUME NEW g \in Handlers, Carries(g), hpc'[g] \in AnswerPC
      PROVE  hstate'[g].status = "WAITING_FOR_APPROVAL"
  BY <1>2 DEF Carries, AnswersWait, AnswerPC
<1>3. ASSUME NEW h \in Handlers, AWSControlStep(h) PROVE AnswersWait'
  <2>1. CASE SharedRequest(h) \/ ReplaySave(h) \/ ReplayDelete(h) \/ SendMessage(h)
    BY <1>2, <2>1, AnswerShape, ReplayCheckpoints DEF AnswersWait
  <2>2. ASSUME NEW task \in Tasks, CreateOnAWS(h, task) PROVE AnswersWait'
    <3>1. hpc'[h] = "create_send"
      BY <1>1, <2>2 DEF CreateOnAWS, ControlTypeOK
    <3>2. \A g \in Handlers \ {h} : Carries(g)
      BY <2>2, CreateCheckpoint
    <3> QED
      BY <1>2, <3>1, <3>2 DEF AnswersWait, AnswerPC
  <2>3. ASSUME NEW task \in Tasks, Approve(h, task) \/ Reject(h, task) PROVE AnswersWait'
    <3>1. hstate'[h].status = "WAITING_FOR_APPROVAL"
      BY <1>1, <2>3 DEF Approve, Reject, Open, ControlTypeOK
    <3>2. \A g \in Handlers \ {h} : Carries(g)
      BY <2>3, OpensFresh
    <3> QED
      BY <1>2, <3>1, <3>2 DEF AnswersWait
  <2>4. ASSUME NEW i \in AnyReceipt, NEW task \in Tasks, OpenReplay(h, i, task)
        PROVE  AnswersWait'
    <3>1. hpc'[h] = "replay_save"
      BY <1>1, <2>4 DEF OpenReplay, ControlTypeOK
    <3>2. \A g \in Handlers \ {h} : Carries(g)
      BY <2>4, OpensFresh
    <3> QED
      BY <1>2, <3>1, <3>2 DEF AnswersWait, AnswerPC
  <2> QED
    BY <1>3, <2>1, <2>2, <2>3, <2>4, ControlWays
<1>4. ASSUME NEW h \in Handlers, HandlerCrash(h) PROVE AnswersWait'
  BY <1>1, <1>4 DEF HandlerCrash, Respond, ControlTypeOK, AnswersWait, AnswerPC
<1>5. CASE UNCHANGED handlerVars
  BY <1>5 DEF handlerVars, AnswersWait
<1> QED
  BY <1>3, <1>4, <1>5 DEF AWSNext, AWSStep, awsVars, vars, handlerVars

\* Only a request creates a workflow.
LEMMA AWSCreates ==
  ASSUME AWSTypeInv, AWSCheckpointInv, [AWSNext]_awsVars
  PROVE  created' = created \/ \E h \in Handlers, task \in Tasks : CreateOnAWS(h, task)
<1>1. StoreTypeOK /\ LocalTypeOK /\ HoldsRow /\ HoldsNoLetter /\ LetterType
  BY AWSTypeParts DEF AWSTypeInv
<1>2. ASSUME NEW w \in Workers, AWSRunOnce(w) PROVE created' = created
  <2>1. CASE SharedStep(w)
    BY <2>1
    DEF SharedStep, ProcessStep, Load, SaveRunning, ModelFailsRetryably, ModelFailsPermanently,
        DecideComplete, DecideFail, DecideTool, PolicyDenied, SaveWaiting, CreateApproval,
        ResumeApprovedAction, LookupResult, BackendSucceeds, BackendFailsRetryably,
        BackendTimesOut, BackendFailsPermanently, SaveToolResult, RecordResult,
        Fail, FailRetryably, SaveAndGoto, SaveAndReturn, SaveAndRaise, StaleSave, save_workflow,
        create_approval, save_tool_result, storeVars,
        DeadLoad, DeadSave, PermanentLoad, PermanentSave, Reload, SaveFinal
  <2>2. ASSUME NEW i \in DOMAIN queue, ReceiveMessage(w, i) PROVE created' = created
    BY <2>2 DEF ReceiveMessage, receive_message, SetMessage, OnlyQueueChanges
  <2>3. CASE CallFails(w)
    BY <1>1, <2>3, FailLeaves
  <2>4. CASE Leaves(w)
    BY <2>4 DEF Leaves, OnlyQueueChanges
  <2> QED
    BY <1>1, <1>2, <2>1, <2>2, <2>3, <2>4, WorkerWays
<1>3. ASSUME NEW h \in Handlers, AWSControlStep(h), \A task \in Tasks : ~CreateOnAWS(h, task)
      PROVE  created' = created
  BY <1>3, ControlWays
  DEF SharedRequest, ApproveResolve, ApproveSave, RejectResolve, RejectSave, Resolve,
      resolve_approval, StaleRequest, save_workflow, ReplaySave, ReplayDelete, delete_message,
      SetMessage, SendMessage, send_message, OnlyQueueChanges, Approve, Reject, Open, OpenReplay,
      storeVars
<1>4. ASSUME \/ \E w \in Workers : WorkerCrash(w)
             \/ \E i \in DOMAIN queue : LeaseExpires(i) \/ Resurrect(i)
             \/ \E h \in Handlers : HandlerCrash(h)
             \/ UNCHANGED awsVars
      PROVE  created' = created
  BY <1>4
  DEF WorkerCrash, LeaseExpires, Resurrect, SetMessage, OnlyQueueChanges, HandlerCrash, storeVars,
      awsVars, vars
<1> QED
  BY <1>2, <1>3, <1>4 DEF AWSNext, AWSStep

LEMMA AWSCreatedGrows ==
  ASSUME AWSTypeInv, AWSCheckpointInv, [AWSNext]_awsVars
  PROVE  created \subseteq created'
BY AWSCreates DEF CreateOnAWS, put_workflow

LEMMA AWSWayNext ==
  ASSUME AWSTypeInv, AWSCheckpointInv, AWSWayInv, [AWSNext]_awsVars
  PROVE  AWSWayInv'
<1>1. /\ StoreTypeOK /\ LocalTypeOK /\ EffectsTypeOK /\ OnlyCreated
      /\ HeldRowTask /\ AskingWaits /\ AnswersWait /\ EffectsOnCreated
      /\ \A w \in Workers : OpenCopy(w)
  BY AWSTypeParts DEF AWSTypeInv, AWSCheckpointInv, AWSWayInv
<1>2. \A w \in Workers : OnItsOwn(w)
  BY AWSOwnWays
<1>3. HeldRowTask'
  BY <1>1, AWSHeldRowTaskNext
<1>4. AskingWaits'
  BY <1>1, <1>2, AskingWaitsNext
<1>5. AnswersWait'
  BY <1>1, AnswersWaitNext
<1>6. EffectsOnCreated'
  <2>1. created \subseteq created' /\ LedgerStep
    BY AWSCreatedGrows, AWSLedgerSteps
  <2> QED
    BY <1>1, <2>1, EffectsOnCreatedNext
<1>7. \A w \in Workers : OpenCopy(w)'
  BY <1>1, <1>2, OpenCopyNext
<1> QED
  BY <1>3, <1>4, <1>5, <1>6, <1>7 DEF AWSWayInv

-----------------------------------------------------------------------------
(* The theorem *)

AWSSlotInv == AWSWayInv /\ \A task \in Tasks, c \in Calls : AWSEffectsBounded(task, c)

LEMMA AWSSlotInvInit == AWSInit => AWSSlotInv
<1> SUFFICES ASSUME AWSInit PROVE AWSSlotInv
  OBVIOUS
<1>1. DOMAIN queue = {}
  BY DEF AWSInit, Init, StoreInit
<1>2. /\ \A w \in Workers : wpc[w] = "idle"
      /\ \A h \in Handlers : hpc[h] = "idle"
      /\ \A task \in Tasks : ~Waiting(task)
  BY DEF AWSInit, Init, StoreInit, WorkerInit, RuntimeInit, ControlInit, NewWorkflow, Waiting
<1>3. effects = [key \in Key |-> 0]
  BY DEF AWSInit, Init, WorkerInit, RuntimeInit
<1>4. AWSWayInv
  BY <1>2, <1>3
  DEF AWSWayInv, HeldRowTask, AskingWaits, AnswersWait, AnswerPC, EffectsOnCreated, OpenCopy,
      RuntimePC, Key
<1>5. ASSUME NEW task \in Tasks, NEW c \in Calls PROVE AWSEffectsBounded(task, c)
  <2>1. AWSSlots(task, c) = {} /\ Actors(task, c) = {}
    BY <1>1, <1>2 DEF AWSSlots, WorkerSlot, SlotPC, RuntimePC, SendSlot, SendPC, Actors
  <2>2. AWSCandidates(task, c) = {}
    BY <2>1 DEF AWSCandidates
  <2>3. IsFiniteSet({}) /\ Cardinality({}) = 0
    BY FS_EmptySet
  <2>4. effects[<<task, c>>] = 0
    BY <1>3 DEF Key
  <2>5. crashes = 0 /\ stalls = 0 /\ timeouts = 0 /\ errors = 0 /\ replays = 0
    BY DEF AWSInit, Init, WorkerInit, RuntimeInit, ControlInit
  <2>6. Paid = 0
    BY <2>5, SMT DEF Paid, Charge, Faults
  <2>7. 0 + 0 <= 1 + 0 + 0
    BY SMT
  <2> QED
    BY <2>2, <2>3, <2>4, <2>5, <2>6, <2>7 DEF AWSEffectsBounded
<1> QED
  BY <1>4, <1>5 DEF AWSSlotInv

LEMMA AWSSlotInvNext ==
  ASSUME AWSTypeInv, AWSTypeInv', AWSCheckpointInv, DeadLetterInv, FollowInv, AWSSlotInv,
         [AWSNext]_awsVars
  PROVE  AWSSlotInv'
<1>1. AWSWayInv /\ EffectsOnCreated
  BY DEF AWSSlotInv, AWSWayInv
<1>2. AWSWayInv'
  BY <1>1, AWSWayNext
<1>3. ASSUME NEW task \in Tasks, NEW c \in Calls PROVE AWSEffectsBounded(task, c)'
  <2>1. CASE \E h \in Handlers : CreateOnAWS(h, task)
    BY <1>1, <2>1, AWSEffectsBoundedCreated
  <2>2. CASE \A h \in Handlers : ~CreateOnAWS(h, task)
    <3>1. AWSEffectsBounded(task, c)
      BY DEF AWSSlotInv
    <3> QED
      BY <1>1, <2>2, <3>1, AWSEffectsBoundedStep
  <2> QED
    BY <2>1, <2>2
<1> QED
  BY <1>2, <1>3 DEF AWSSlotInv

LEMMA AWSSlotInvHolds == AWSSpec => [](AWSSlotInv /\ AWSTypeInv)
<1>1. /\ AWSTypeInv /\ AWSTypeInv' /\ AWSCheckpointInv /\ DeadLetterInv /\ FollowInv /\ AWSSlotInv
      /\ [AWSNext]_awsVars
      => AWSSlotInv'
  BY AWSSlotInvNext
<1>2. AWSTypeInv /\ AWSCheckpointInv /\ DeadLetterInv /\ [AWSNext]_awsVars => DeadLetterInv'
  BY DeadLetterNext
<1>3. AWSTypeInv /\ FollowInv /\ [AWSNext]_awsVars => FollowInv'
  BY FollowNext
<1> QED
  BY <1>1, <1>2, <1>3, AWSSlotInvInit, DeadLetterInit, FollowInit, AWSTypeInvHolds,
     AWSCopiesStayFresh, PTL DEF AWSSpec

\* Whatever SQS delivers twice and whoever fails between two calls of the store, the backend
\* carries out a call at most once, and once more for each fault, for each answer that is
\* lost, and for each replay: ToolGateway.execute asks the ledger before the backend, and
\* whoever goes on with an incident has taken the place of somebody who left it.  The first
\* replay takes the place of its letter, unless a replay has named another incident.
THEOREM AWSEffectsAccountedHolds == AWSSpec => []AWSEffectsAccounted
<1>1. AWSSlotInv /\ AWSTypeInv => AWSEffectsAccounted
  <2> SUFFICES ASSUME AWSSlotInv, AWSTypeInv, NEW key \in Key,
                      NEW free, free = (IF replays > 0 /\ astray = {} THEN 1 ELSE 0)
               PROVE  effects[key] <= 1 + Faults + timeouts + replays - free
    BY DEF AWSEffectsAccounted
  <2>1. PICK task \in Tasks, c \in Calls : key = <<task, c>>
    BY DEF Key
  <2>2. AWSEffectsBounded(task, c)
    BY DEF AWSSlotInv
  <2>3. PICK e, n, f, r, t : /\ e = effects[key] /\ n = Cardinality(AWSCandidates(task, c))
                             /\ f = Faults /\ t = timeouts /\ r = replays
    OBVIOUS
  <2>4. e \in Nat /\ t \in Nat
    BY <2>3, AWSTypeParts DEF AWSTypeInv, EffectsTypeOK
  <2>5. n \in Nat
    BY <2>2, <2>3, FS_CardinalityType DEF AWSEffectsBounded
  <2>6. crashes \in Nat /\ stalls \in Nat /\ errors \in Nat /\ r \in Nat
    BY <2>3, FaultTypes DEF AWSTypeInv
  <2>7. free \in {0, 1}
    OBVIOUS
  <2>8. f \in Nat
    BY <2>3, <2>6, SMT DEF Faults
  <2>9. e + n <= 1 + (f + (r - free)) + t
    BY <2>1, <2>2, <2>3 DEF AWSEffectsBounded, Paid, Charge
  <2>10. e <= 1 + f + t + r - free
    BY <2>4, <2>5, <2>6, <2>7, <2>8, <2>9, SMT
  <2> QED
    BY <2>3, <2>10
<1> QED
  BY <1>1, AWSSlotInvHolds, PTL

-----------------------------------------------------------------------------
(* The slots of a task are bounded *)

AWSSlotsBounded(task) ==
    IsFiniteSet(AWSSlots(task, NoCall)) /\ Cardinality(AWSSlots(task, NoCall)) <= 1 + Paid

\* Nobody records a result for no call.
LEMMA NothingRecorded ==
  ASSUME AWSTypeInv, NEW task
  PROVE  ~Recorded(task, NoCall)
<1>1. CallChosen
  BY DEF AWSTypeInv, AWSTypeOK, TypeOK
<1> QED
  BY <1>1, ModelsAssumption DEF Recorded, SaveToolResult, CallChosen, CallPC

LEMMA AWSSlotsBoundedNext ==
  ASSUME AWSTypeInv, AWSCheckpointInv, DeadLetterInv, FollowInv, AWSWayInv, [AWSNext]_awsVars,
         NEW task \in Tasks, AWSSlotsBounded(task)
  PROVE  AWSSlotsBounded(task)'
<1>1. PICK S, T, m, p, q : /\ S = AWSSlots(task, NoCall) /\ T = AWSSlots(task, NoCall)'
                           /\ m = Cardinality(S) /\ p = Paid /\ q = Paid'
  OBVIOUS
<1>2. p \in Nat /\ q \in Nat /\ p <= q
  BY <1>1, PaidGrows
<1>3. IsFiniteSet(S) /\ m \in Nat /\ m <= 1 + p
  BY <1>1, FS_CardinalityType DEF AWSSlotsBounded
<1>4. IsFiniteSet(T) /\ Cardinality(T) <= 1 + q
  <2>1. ASSUME NEW h \in Handlers, CreateOnAWS(h, task)
        PROVE  IsFiniteSet(T) /\ Cardinality(T) <= 1 + q
    <3>1. T \subseteq {<<"request", h>>}
      BY <1>1, <2>1, CreatedByRequest, CreatedOnAWSSlots DEF AWSTypeInv
    <3>2. IsFiniteSet(T) /\ Cardinality(T) \in Nat /\ Cardinality(T) <= 1
      BY <3>1, OneElement
    <3> QED
      BY <1>2, <3>2, SMT
  <2>2. CASE \A h \in Handlers : ~CreateOnAWS(h, task)
    <3>1. AWSSlotMove(task, NoCall)
      BY <2>2, NothingRecorded, AWSSlotMoves DEF AWSTypeInv
    <3>2. CASE T \subseteq S
      <4>1. IsFiniteSet(T) /\ Cardinality(T) \in Nat /\ Cardinality(T) <= m
        BY <1>1, <1>3, <3>2, Shrink
      <4> QED
        BY <1>2, <1>3, <4>1, SMT
    <3>3. ASSUME NEW x \in S, NEW y, T \subseteq (S \ {x}) \cup {y}
          PROVE  IsFiniteSet(T) /\ Cardinality(T) <= 1 + q
      <4>1. IsFiniteSet(T) /\ Cardinality(T) \in Nat /\ Cardinality(T) <= m
        BY <1>1, <1>3, <3>3, Exchange
      <4> QED
        BY <1>2, <1>3, <4>1, SMT
    <3>4. ASSUME NEW y, T \subseteq S \cup {y}, q >= p + 1
          PROVE  IsFiniteSet(T) /\ Cardinality(T) <= 1 + q
      <4>1. IsFiniteSet(T) /\ Cardinality(T) \in Nat /\ Cardinality(T) <= m + 1
        BY <1>1, <1>3, <3>4, Grow
      <4> QED
        BY <1>2, <1>3, <3>4, <4>1, SMT
    <3> QED
      BY <1>1, <3>1, <3>2, <3>3, <3>4
      DEF AWSSlotMove, AWSSlotsKept, AWSSlotPassed, AWSSlotMade
  <2> QED
    BY <2>1, <2>2
<1> QED
  BY <1>1, <1>4 DEF AWSSlotsBounded

\* As long as nothing has happened that pays for a slot, a task has one at most.
LEMMA OnlySlot ==
  ASSUME NEW task, AWSSlotsBounded(task), Faults = 0, replays = 0,
         NEW x \in AWSSlots(task, NoCall), NEW y \in AWSSlots(task, NoCall)
  PROVE  x = y
<1> SUFFICES ASSUME x # y PROVE FALSE
  OBVIOUS
<1>1. PICK S, n : S = AWSSlots(task, NoCall) /\ n = Cardinality(S)
  OBVIOUS
<1>2. Paid = 0
  BY SMT DEF Paid, Charge
<1>3. IsFiniteSet(S) /\ n <= 1 + 0
  BY <1>1, <1>2 DEF AWSSlotsBounded
<1>4. IsFiniteSet(S \ {x}) /\ Cardinality(S \ {x}) = n - 1
  BY <1>1, <1>3, FS_RemoveElement
<1>5. Cardinality(S \ {x}) \in Nat /\ n \in Nat
  BY <1>1, <1>3, <1>4, FS_CardinalityType
<1>6. Cardinality(S \ {x}) = 0
  BY <1>3, <1>4, <1>5, SMT
<1>7. S \ {x} = {}
  BY <1>4, <1>6, FS_EmptySet
<1> QED
  BY <1>1, <1>7

-----------------------------------------------------------------------------
(* Steps without a fault *)

\* What run_once does when every call of the store succeeds.
CalmRunOnce(w) ==
    \/ SharedStep(w)
    \/ \E i \in DOMAIN queue : ReceiveMessage(w, i)
    \/ DeleteThenSend(w)
    \/ RetryMessage(w)
    \/ DeadLetter(w)
    \/ wpc[w] = "perm_ack" /\ DeleteReceipt(w, "perm_load")

\* The lease of a message that nobody holds passes.
Unheld(i) == LeaseExpires(i) /\ ~Held(i)

CalmStep ==
    \/ (\E w \in Workers : CalmRunOnce(w)) /\ UNCHANGED handlerVars
    \/ (\E i \in DOMAIN queue : Unheld(i)) /\ UNCHANGED handlerVars
    \/ \E h \in Handlers : AWSControlStep(h) /\ UNCHANGED workerVars
    \/ UNCHANGED <<vars, letter>>

LEMMA CalmBefore ==
  ASSUME AWSTypeInv, [AWSNext]_awsVars, Faults' = 0
  PROVE  Faults = 0 /\ UNCHANGED <<crashes, stalls, errors>>
<1>1. PICK a, b, d, p, q, r : /\ a = crashes /\ b = stalls /\ d = errors
                              /\ p = crashes' /\ q = stalls' /\ r = errors'
  OBVIOUS
<1>2. /\ a \in Nat /\ b \in Nat /\ d \in Nat
      /\ p \in {a, a + 1} /\ q \in {b, b + 1} /\ r \in {d, d + 1}
  BY <1>1, FaultTypes, FaultsGrow DEF AWSTypeInv
<1>3. p + q + r = 0
  BY <1>1 DEF Faults
<1>4. a = 0 /\ b = 0 /\ d = 0 /\ p = 0 /\ q = 0 /\ r = 0
  BY <1>2, <1>3, SMT
<1>5. a + b + d = 0
  BY <1>4, SMT
<1> QED
  BY <1>1, <1>4, <1>5 DEF Faults

\* A number is not its successor.
LEMMA NotNext == \A n \in Nat : n # n + 1
  BY SMT

LEMMA CalmSteps ==
  ASSUME AWSTypeInv, [AWSNext]_awsVars, Faults' = 0
  PROVE  CalmStep
<1>1. UNCHANGED <<crashes, stalls, errors>> /\ crashes \in Nat /\ stalls \in Nat /\ errors \in Nat
  BY CalmBefore, FaultTypes DEF AWSTypeInv
<1>2. crashes' # crashes + 1 /\ stalls' # stalls + 1 /\ errors' # errors + 1
  BY <1>1, NotNext
<1>3. ASSUME NEW w \in Workers, AWSRunOnce(w) PROVE CalmRunOnce(w)
  BY <1>2, <1>3 DEF AWSRunOnce, StoreCallFails, CalmRunOnce, SharedStep
<1>4. ASSUME NEW i \in DOMAIN queue, LeaseExpires(i) \/ Resurrect(i) PROVE Unheld(i)
  BY <1>2, <1>4 DEF LeaseExpires, Resurrect, Unheld
<1>5. \A w \in Workers : ~WorkerCrash(w)
  BY <1>2 DEF WorkerCrash
<1>6. \A h \in Handlers : ~HandlerCrash(h)
  BY <1>2 DEF HandlerCrash
<1>7. CASE UNCHANGED awsVars
  BY <1>7 DEF awsVars, CalmStep
<1>8. CASE AWSStep
  BY <1>3, <1>4, <1>5, <1>6, <1>8 DEF AWSStep, CalmStep
<1> QED
  BY <1>7, <1>8 DEF AWSNext

-----------------------------------------------------------------------------
(* A message in flight has one holder *)

HoldsAlone(w) ==
    /\ queue[delivery[w].id].status = "PROCESSING" /\ ~queue[delivery[w].id].expired
    /\ queue[delivery[w].id].attempts = delivery[w].attempts
    /\ \A v \in Workers \ {w} : wpc[v] \in AWSKeepPC => delivery[v].id # delivery[w].id

\* Without a fault nothing is delivered while it is in flight.
HeldAlone == Faults = 0 => \A w \in Workers : wpc[w] \in AWSKeepPC => HoldsAlone(w)

\* What a step of w does to the messages: it touches no message but the one w gives up, or
\* takes one that nobody holds.
HoldStep(w) ==
    /\ \A v \in Workers \ {w} : wpc'[v] = wpc[v] /\ delivery'[v] = delivery[v]
    /\ \/ /\ wpc'[w] \in AWSKeepPC => wpc[w] \in AWSKeepPC /\ delivery'[w] = delivery[w]
          /\ \A i \in DOMAIN queue : i \in DOMAIN queue' /\ queue'[i] = queue[i]
       \/ wpc[w] \in AWSKeepPC /\ wpc'[w] \notin AWSKeepPC /\ OnlyRow(delivery[w].id)
       \/ \E i \in DOMAIN queue :
            /\ Receivable(queue[i]) /\ OnlyRow(i)
            /\ delivery'[w].id = i /\ delivery'[w].attempts = queue'[i].attempts
            /\ queue'[i].status = "PROCESSING" /\ ~queue'[i].expired
            /\ wpc'[w] = "load" /\ delivery'[w].task_id = queue[i].task_id

LEMMA HeldAloneStep ==
  ASSUME AWSTypeInv, NEW w \in Workers, HoldStep(w),
         \A v \in Workers : wpc[v] \in AWSKeepPC => HoldsAlone(v)
  PROVE  \A v \in Workers : wpc'[v] \in AWSKeepPC => HoldsAlone(v)'
<1>1. \A v \in Workers : wpc[v] \in AWSKeepPC => delivery[v].id \in DOMAIN queue
  BY AWSTypeParts DEF AWSTypeInv, HoldsRow, AWSKeepPC, KeepPC, RuntimePC
<1>2. CASE /\ wpc'[w] \in AWSKeepPC => wpc[w] \in AWSKeepPC /\ delivery'[w] = delivery[w]
           /\ \A i \in DOMAIN queue : i \in DOMAIN queue' /\ queue'[i] = queue[i]
  BY <1>1, <1>2 DEF HoldStep, HoldsAlone
<1>3. CASE wpc[w] \in AWSKeepPC /\ wpc'[w] \notin AWSKeepPC /\ OnlyRow(delivery[w].id)
  BY <1>1, <1>3 DEF HoldStep, HoldsAlone, OnlyRow, SameDomain
<1>4. ASSUME NEW i \in DOMAIN queue, Receivable(queue[i]), OnlyRow(i),
             delivery'[w].id = i, delivery'[w].attempts = queue'[i].attempts,
             queue'[i].status = "PROCESSING", ~queue'[i].expired
      PROVE  \A v \in Workers : wpc'[v] \in AWSKeepPC => HoldsAlone(v)'
  <2>1. \A v \in Workers : wpc[v] \in AWSKeepPC => delivery[v].id # i
    BY <1>4 DEF HoldsAlone, Receivable
  <2>2. ASSUME NEW v \in Workers \ {w}, wpc'[v] \in AWSKeepPC PROVE HoldsAlone(v)'
    BY <1>1, <1>4, <2>1, <2>2 DEF HoldStep, HoldsAlone, OnlyRow, SameDomain
  <2>3. HoldsAlone(w)'
    BY <1>4, <2>1 DEF HoldStep, HoldsAlone
  <2> QED
    BY <2>2, <2>3
<1> QED
  BY <1>2, <1>3, <1>4 DEF HoldStep

LEMMA DeleteHolds ==
  ASSUME NEW w \in Workers, Busy(w), HoldsRow, HoldsNoLetter,
         NEW pc \in {"enqueue", "idle", "dead", "perm_load"},
         wpc[w] \in AWSKeepPC, DeleteReceipt(w, pc)
  PROVE  HoldStep(w)
<1>0. PICK r : r = delivery[w].id
  OBVIOUS
<1>1. StoreTypeOK /\ LocalTypeOK /\ r \in DOMAIN queue /\ r \notin letters
  BY <1>0 DEF Busy, HoldsRow, HoldsNoLetter
<1>2. OthersKeep(w)
  BY <1>1, DeletedLeaves, LeavesType DEF LeavePC
<1>3. wpc'[w] \notin AWSKeepPC
  BY <1>1
  DEF DeleteReceipt, Finish, LeaveProcess, Goto, LocalTypeOK, AWSKeepPC, KeepPC, RuntimePC
<1>4. CASE delete_message(r)
  BY <1>0, <1>1, <1>2, <1>3, <1>4, DeleteType DEF HoldStep, OthersKeep
<1>5. CASE queue' = queue
  BY <1>2, <1>3, <1>5 DEF HoldStep, OthersKeep
<1> QED
  BY <1>0, <1>4, <1>5 DEF DeleteReceipt, acknowledge_receipt, storeVars

LEMMA AppendHolds ==
  ASSUME NEW w \in Workers, OthersKeep(w), StoreTypeOK, NEW row \in QueueRow,
         queue' = Append(queue, row), OnlyQueueChanges,
         wpc'[w] \in AWSKeepPC => wpc[w] \in AWSKeepPC /\ delivery'[w] = delivery[w]
  PROVE  HoldStep(w)
BY AppendMessageType DEF HoldStep, OthersKeep

LEMMA SharedHolds ==
  ASSUME StoreTypeOK, LocalTypeOK, NEW w \in Workers, SharedStep(w)
  PROVE  HoldStep(w)
<1>1. OthersKeep(w) /\ UNCHANGED queue
  BY SharedRunOnce, RunOnceOthersKeep
<1>2. CASE ProcessStep(w)
  BY <1>1, <1>2, ProcessHolds DEF HoldStep, OthersKeep, AWSKeepPC, KeepPC
<1>3. CASE DeadLoad(w) \/ DeadSave(w) \/ PermanentLoad(w) \/ PermanentSave(w)
  <2>1. wpc'[w] \in {"idle", "dead_save", "perm_save"}
    BY <1>3
    DEF DeadLoad, DeadSave, PermanentLoad, PermanentSave, Reload, SaveFinal, Finish, Goto,
        LocalTypeOK
  <2> QED
    BY <1>1, <2>1 DEF HoldStep, OthersKeep, AWSKeepPC, KeepPC, RuntimePC
<1> QED
  BY <1>2, <1>3 DEF SharedStep

LEMMA CalmHolds ==
  ASSUME AWSTypeInv, NEW w \in Workers, CalmRunOnce(w)
  PROVE  HoldStep(w)
<1>1. StoreTypeOK /\ LocalTypeOK /\ HoldsRow /\ HoldsNoLetter
  BY AWSTypeParts DEF AWSTypeInv
<1>2. wpc[w] # "idle" => Busy(w)
  BY <1>1 DEF Busy
<1>3. CASE SharedStep(w)
  BY <1>1, <1>3, SharedHolds
<1>4. ASSUME NEW i \in DOMAIN queue, ReceiveMessage(w, i) PROVE HoldStep(w)
  <2>1. /\ OthersKeep(w) /\ OnlyRow(i) /\ Receivable(queue[i]) /\ wpc'[w] = "load"
        /\ delivery'[w] = [id |-> i, task_id |-> queue[i].task_id,
                           attempts |-> queue[i].attempts + 1]
        /\ queue'[i] = [queue[i] EXCEPT !.status = "PROCESSING", !.attempts = @ + 1,
                                        !.delayed = FALSE, !.expired = FALSE]
    BY <1>1, <1>4, ReceiveStepType
  <2>2. /\ queue'[i].status = "PROCESSING" /\ ~queue'[i].expired
        /\ queue'[i].attempts = queue[i].attempts + 1
    BY <1>1, <2>1, RowType DEF QueueRow
  <2>3. /\ delivery'[w].id = i /\ delivery'[w].attempts = queue'[i].attempts
        /\ wpc'[w] = "load" /\ delivery'[w].task_id = queue[i].task_id
    BY <2>1, <2>2
  <2>4. OthersKeep(w) /\ OnlyRow(i) /\ Receivable(queue[i])
    BY <2>1
  <2>5. \A v \in Workers \ {w} : wpc'[v] = wpc[v] /\ delivery'[v] = delivery[v]
    BY <2>4 DEF OthersKeep
  <2> QED
    BY <2>2, <2>3, <2>4, <2>5 DEF HoldStep
<1>5. CASE wpc[w] = "ack" /\ DeleteReceipt(w, IF state[w].status = "QUEUED" THEN "enqueue" ELSE "idle")
  BY <1>1, <1>2, <1>5, DeleteHolds DEF AWSKeepPC, KeepPC
<1>6. CASE wpc[w] = "enqueue" /\ send_message(Task(w)) /\ Finish(w) /\ UNCHANGED Budgets
  <2>1. Busy(w) /\ Task(w) \in Tasks
    BY <1>2, <1>6, HeldTypes
  <2>2. queue' = Append(queue, NewRow(Task(w))) /\ OnlyQueueChanges /\ NewRow(Task(w)) \in QueueRow
    BY <1>1, <1>6, <2>1, SendType, NewRowType
  <2>3. OthersKeep(w) /\ wpc'[w] = "idle"
    BY <1>1, <1>6 DEF Finish, Goto, OthersKeep, LocalTypeOK
  <2> QED
    BY <1>1, <2>2, <2>3, AppendHolds DEF AWSKeepPC, KeepPC, RuntimePC
<1>7. CASE RetryMessage(w)
  <2>1. OthersKeep(w) /\ wpc'[w] = "idle" /\ wpc[w] = "retry"
    BY <1>1, <1>7 DEF RetryMessage, Finish, Goto, OthersKeep, LocalTypeOK
  <2>2. CASE change_visibility(delivery[w])
    <3>1. delivery[w].id \in DOMAIN queue
      BY <1>1, <2>1 DEF HoldsRow
    <3>2. OnlyRow(delivery[w].id)
      BY <1>1, <2>2, <3>1, VisibleType
    <3> QED
      BY <2>1, <3>2 DEF HoldStep, OthersKeep, AWSKeepPC, KeepPC, RuntimePC
  <2>3. CASE UNCHANGED storeVars
    BY <2>1, <2>3 DEF HoldStep, OthersKeep, AWSKeepPC, KeepPC, RuntimePC, storeVars
  <2> QED
    BY <1>7, <2>2, <2>3 DEF RetryMessage
<1>8. CASE DeadLetter(w)
  <2>1. CASE wpc[w] = "dead_delete" /\ DeleteReceipt(w, "dead")
    BY <1>1, <1>2, <2>1, DeleteHolds DEF AWSKeepPC
  <2>2. CASE wpc[w] = "retry" /\ send_dead_letter(delivery[w]) /\ LeaveProcess(w, "dead_delete")
    <3>1. Busy(w) /\ delivery[w] \in Delivery
      BY <1>2, <2>2, HeldTypes
    <3>2. queue' = Append(queue, Letter(delivery[w])) /\ OnlyQueueChanges
          /\ Letter(delivery[w]) \in QueueRow
      BY <1>1, <2>2, <3>1, SendLetterType, LetterIsRow
    <3>3. OthersKeep(w) /\ delivery' = delivery
      BY <1>1, <2>2 DEF LeaveProcess, Goto, OthersKeep, LocalTypeOK
    <3> QED
      BY <1>1, <2>2, <3>2, <3>3, AppendHolds DEF AWSKeepPC, KeepPC
  <2> QED
    BY <1>8, <2>1, <2>2 DEF DeadLetter
<1>9. CASE wpc[w] = "perm_ack" /\ DeleteReceipt(w, "perm_load")
  BY <1>1, <1>2, <1>9, DeleteHolds DEF AWSKeepPC, KeepPC
<1> QED
  BY <1>3, <1>4, <1>5, <1>6, <1>7, <1>8, <1>9 DEF CalmRunOnce, DeleteThenSend

\* A request sends messages and deletes letters; it touches no message of the main queue.
LEMMA RequestMessages ==
  ASSUME AWSTypeInv, NEW h \in Handlers, AWSControlStep(h)
  PROVE  \A i \in DOMAIN queue \ letters : i \in DOMAIN queue' /\ queue'[i] = queue[i]
<1>1. StoreTypeOK /\ ControlTypeOK /\ LetterType
  BY AWSTypeParts DEF AWSTypeInv
<1>2. CASE UNCHANGED queue
  BY <1>2
<1>3. CASE SendMessage(h)
  <2>1. NewRow(htask[h]) \in QueueRow
    BY <1>1, NewRowType DEF ControlTypeOK
  <2>2. queue' = Append(queue, NewRow(htask[h])) /\ OnlyQueueChanges
    BY <1>3 DEF SendMessage, send_message
  <2> QED
    BY <1>1, <2>1, <2>2, AppendMessageType
<1>4. CASE ReplayDelete(h) /\ letter[h] # NoLetter /\ delete_message(letter[h])
  <2>1. letter[h] \in letters /\ letter[h] \in DOMAIN queue
    BY <1>1, <1>4, ReplayDeleteType DEF LetterType, AnyReceipt
  <2>2. OnlyRow(letter[h])
    BY <1>1, <1>4, <2>1, DeleteType
  <2> QED
    BY <2>1, <2>2 DEF OnlyRow, SameDomain
<1>5. CASE ReplayDelete(h) /\ UNCHANGED storeVars
  BY <1>2, <1>5 DEF storeVars
<1>6. CASE SharedRequest(h)
  BY <1>2, <1>6, SharedRequestStep
<1>7. CASE ReplaySave(h)
  BY <1>2, <1>7 DEF ReplaySave, StaleRequest, save_workflow, storeVars
<1>8. ASSUME NEW task \in Tasks, CreateOnAWS(h, task) \/ Approve(h, task) \/ Reject(h, task)
      PROVE  UNCHANGED queue
  BY <1>8 DEF CreateOnAWS, put_workflow, Approve, Reject, Open, storeVars
<1>9. ASSUME NEW i \in AnyReceipt, NEW task \in Tasks, OpenReplay(h, i, task)
      PROVE  UNCHANGED queue
  BY <1>9 DEF OpenReplay, storeVars
<1> QED
  BY <1>2, <1>3, <1>4, <1>5, <1>6, <1>7, <1>8, <1>9, ControlWays DEF ReplayDelete

LEMMA HeldAloneNext ==
  ASSUME AWSTypeInv, HeldAlone, [AWSNext]_awsVars
  PROVE  HeldAlone'
<1> SUFFICES ASSUME Faults' = 0
             PROVE  \A w \in Workers : wpc'[w] \in AWSKeepPC => HoldsAlone(w)'
  BY DEF HeldAlone
<1>1. /\ StoreTypeOK /\ HoldsRow /\ HoldsNoLetter
      /\ \A w \in Workers : wpc[w] \in AWSKeepPC => HoldsAlone(w)
  BY CalmBefore, AWSTypeParts DEF HeldAlone, AWSTypeInv
<1>2. CalmStep
  BY CalmSteps
<1>3. ASSUME NEW w \in Workers, CalmRunOnce(w)
      PROVE  \A v \in Workers : wpc'[v] \in AWSKeepPC => HoldsAlone(v)'
  BY <1>1, <1>3, CalmHolds, HeldAloneStep
<1>4. ASSUME UNCHANGED <<wpc, delivery>>,
             \A w \in Workers : wpc[w] \in AWSKeepPC => queue'[delivery[w].id] = queue[delivery[w].id]
      PROVE  \A w \in Workers : wpc'[w] \in AWSKeepPC => HoldsAlone(w)'
  BY <1>1, <1>4 DEF HoldsAlone
<1>5. ASSUME NEW i \in DOMAIN queue, Unheld(i)
      PROVE  \A w \in Workers : wpc'[w] \in AWSKeepPC => HoldsAlone(w)'
  <2>1. OnlyRow(i)
    BY <1>1, <1>5, ExpiredRow DEF Unheld
  <2>2. \A w \in Workers : wpc[w] \in AWSKeepPC => delivery[w].id # i
    BY <1>5 DEF Unheld, Held, AWSKeepPC, KeepPC, RuntimePC
  <2>3. \A w \in Workers : wpc[w] \in AWSKeepPC => delivery[w].id \in DOMAIN queue
    BY <1>1 DEF HoldsRow, AWSKeepPC, KeepPC, RuntimePC
  <2>4. UNCHANGED <<wpc, delivery>>
    BY <1>5 DEF Unheld, LeaseExpires, runtimeVars, localVars
  <2> QED
    BY <1>4, <2>1, <2>2, <2>3, <2>4 DEF OnlyRow, SameDomain
<1>6. ASSUME NEW h \in Handlers, AWSControlStep(h), UNCHANGED workerVars
      PROVE  \A w \in Workers : wpc'[w] \in AWSKeepPC => HoldsAlone(w)'
  <2>1. \A w \in Workers : wpc[w] \in AWSKeepPC => delivery[w].id \in DOMAIN queue \ letters
    BY <1>1 DEF HoldsRow, HoldsNoLetter, AWSKeepPC, KeepPC, RuntimePC
  <2>2. UNCHANGED <<wpc, delivery>>
    BY <1>6 DEF workerVars, runtimeVars, localVars
  <2> QED
    BY <1>4, <1>6, <2>1, <2>2, RequestMessages
<1>7. CASE UNCHANGED vars
  BY <1>4, <1>7 DEF vars, storeVars, workerVars, runtimeVars, localVars
<1> QED
  BY <1>2, <1>3, <1>5, <1>6, <1>7 DEF CalmStep

-----------------------------------------------------------------------------
(* What a step of process() saves, and how its worker goes on *)

\* Where process() saves the copy it has.
SavePC == RuntimePC \ {"load", "approval", "create_approval"}

\* The worker goes on with its message, or has one of its own to send.
GoesOn(w) ==
    /\ delivery'[w] = delivery[w]
    /\ \/ wpc'[w] \in SavePC \cup {"retry", "perm_ack"}
       \/ wpc'[w] = "ack" /\ state'[w].status = "QUEUED"

\* A copy whose pending action is the old one, or none, or one that a human is asked for.
WritesRow(w) ==
    \E new \in Checkpoint :
        /\ wpc[w] \in SavePC
        /\ new.version = state[w].version
        /\ save_workflow(Task(w), new)
        /\ \/ new.status = "WAITING_FOR_APPROVAL"
           \/ new.pending_action \in {state[w].pending_action, NoCall}
        /\ GoesOn(w) \/ new.status \notin OpenStatus

\* What process() makes of a save of new.
SavesFor(w, new) ==
    \/ SaveAndReturn(w, new) /\ (new.status = "QUEUED" \/ new.status \notin OpenStatus)
    \/ SaveAndRaise(w, new)
    \/ StaleSave(w, new)
    \/ \E pc \in SavePC : SaveAndGoto(w, new, pc)
    \/ SaveAndGoto(w, new, "create_approval") /\ new.status \notin OpenStatus

LEMMA SaveWrites ==
  ASSUME NEW w \in Workers, Busy(w), wpc[w] \in SavePC, NEW new \in Checkpoint,
         new.version = state[w].version,
         \/ new.status = "WAITING_FOR_APPROVAL"
         \/ new.pending_action \in {state[w].pending_action, NoCall},
         SavesFor(w, new)
  PROVE  WritesRow(w) \/ (UNCHANGED workflows /\ GoesOn(w))
<1>1. Task(w) \in Tasks /\ StoreTypeOK /\ LocalTypeOK
  BY HeldTypes DEF Busy
<1>2. CASE StaleSave(w, new)
  BY <1>1, <1>2 DEF StaleSave, LeaveProcess, Goto, GoesOn, LocalTypeOK, storeVars
<1>3. ASSUME save_workflow(Task(w), new), GoesOn(w) \/ new.status \notin OpenStatus
      PROVE  WritesRow(w)
  BY <1>3 DEF WritesRow
<1>4. ASSUME NEW pc \in SavePC \cup {"retry"}, Goto(w, pc), UNCHANGED delivery
      PROVE  GoesOn(w)
  BY <1>1, <1>4 DEF Goto, GoesOn, LocalTypeOK
<1>5. CASE save_workflow(Task(w), new) /\ Return(w, new) /\ new.status = "QUEUED"
  <2>1. wpc'[w] = "ack" /\ UNCHANGED delivery
    BY <1>1, <1>5 DEF Return, Goto, LocalTypeOK
  <2>2. state'[w] = [NewWorkflow EXCEPT !.status = "QUEUED"]
    BY <1>1, <1>5 DEF Return, LocalTypeOK
  <2>3. state'[w].status = "QUEUED"
    BY <2>2 DEF NewWorkflow
  <2> QED
    BY <1>3, <1>5, <2>1, <2>3 DEF GoesOn
<1> QED
  BY <1>2, <1>3, <1>4, <1>5 DEF SavesFor, SaveAndReturn, SaveAndRaise, SaveAndGoto, LeaveProcess

\* The saves that change the status only.
LEMMA StatusWrites ==
  ASSUME NEW w \in Workers, Busy(w), wpc[w] \in SavePC,
         NEW status \in {"RUNNING", "QUEUED", "COMPLETED", "FAILED"},
         LET new == [state[w] EXCEPT !.status = status]
         IN  \/ SaveAndReturn(w, new) /\ status # "RUNNING"
             \/ SaveAndRaise(w, new)
             \/ SaveAndGoto(w, new, "decide")
  PROVE  WritesRow(w) \/ (UNCHANGED workflows /\ GoesOn(w))
<1>1. PICK new : new = [state[w] EXCEPT !.status = status]
  OBVIOUS
<1>2. state[w] \in Checkpoint /\ status \in WorkflowStatus
  BY HeldTypes DEF WorkflowStatus
<1>3. /\ new \in Checkpoint /\ new.version = state[w].version /\ new.status = status
      /\ new.pending_action = state[w].pending_action
  BY <1>1, <1>2, StatusFields
<1>4. SavesFor(w, new)
  BY <1>1, <1>3 DEF SavesFor, SavePC, RuntimePC, OpenStatus
<1> QED
  BY <1>3, <1>4, SaveWrites

LEMMA DecideWrites ==
  ASSUME NEW w \in Workers, Busy(w), NEW c \in Calls, DecideTool(w, c)
  PROVE  WritesRow(w) \/ (UNCHANGED workflows /\ GoesOn(w))
<1> DEFINE requested == Requested(state[w], c)
           stopped == [requested EXCEPT !.status = "LOOP_STOPPED"]
<1>1. state[w] \in Checkpoint /\ LocalTypeOK /\ wpc[w] \in SavePC
  BY HeldTypes DEF Busy, DecideTool, SavePC, RuntimePC
<1>2. /\ requested \in Checkpoint /\ requested.version = state[w].version
      /\ requested.pending_action = state[w].pending_action
  BY <1>1, RequestedFields
<1>3. /\ stopped \in Checkpoint /\ stopped.version = state[w].version
      /\ stopped.status = "LOOP_STOPPED"
      /\ stopped.pending_action = state[w].pending_action
  BY <1>2, StatusFields DEF WorkflowStatus
<1> HIDE DEF requested, stopped
<1>4. CASE SaveAndReturn(w, stopped)
  <2>1. SavesFor(w, stopped)
    BY <1>3, <1>4 DEF SavesFor, OpenStatus
  <2> QED
    BY <1>1, <1>3, <2>1, SaveWrites
<1>5. CASE StaleSave(w, requested)
  <2>1. SavesFor(w, requested)
    BY <1>5 DEF SavesFor
  <2> QED
    BY <1>1, <1>2, <2>1, SaveWrites
<1>6. CASE save_workflow(Task(w), requested) /\ Goto(w, AfterPolicy(c)) /\ UNCHANGED delivery
  <2>1. AfterPolicy(c) \in SavePC
    BY Zenon DEF AfterPolicy, SavePC, RuntimePC
  <2>2. GoesOn(w)
    BY <1>1, <1>6, <2>1 DEF Goto, LocalTypeOK, GoesOn
  <2> QED
    BY <1>1, <1>2, <1>6, <2>2 DEF WritesRow
<1> QED
  BY <1>4, <1>5, <1>6 DEF DecideTool, requested, stopped

LEMMA ProcessWrites ==
  ASSUME NEW w \in Workers, Busy(w), ProcessStep(w)
  PROVE  \/ WritesRow(w)
         \/ UNCHANGED workflows /\ (GoesOn(w) \/ wpc[w] \in {"load", "approval", "create_approval"})
<1>1. state[w] \in Checkpoint /\ LocalTypeOK
  BY HeldTypes DEF Busy
<1>2. CASE \/ SaveRunning(w) \/ ModelFailsRetryably(w) \/ BackendFailsRetryably(w)
           \/ BackendTimesOut(w) \/ DecideFail(w) \/ PolicyDenied(w)
           \/ BackendFailsPermanently(w) \/ DecideComplete(w)
  <2>1. wpc[w] \in SavePC
    BY <1>2
    DEF SaveRunning, ModelFailsRetryably, BackendFailsRetryably, BackendTimesOut, DecideFail,
        PolicyDenied, BackendFailsPermanently, DecideComplete, SavePC, RuntimePC
  <2> QED
    BY <1>2, <2>1, StatusWrites
    DEF SaveRunning, ModelFailsRetryably, BackendFailsRetryably, BackendTimesOut, FailRetryably,
        DecideFail, PolicyDenied, BackendFailsPermanently, Fail, DecideComplete
<1>3. ASSUME NEW c \in Calls, DecideTool(w, c)
      PROVE  WritesRow(w) \/ (UNCHANGED workflows /\ GoesOn(w))
  BY <1>3, DecideWrites
<1>4. CASE SaveWaiting(w)
  <2> DEFINE new == [state[w] EXCEPT !.status = "WAITING_FOR_APPROVAL", !.pending_action = call[w]]
  <2>1. new \in Checkpoint
    BY <1>1, HeldTypes, PendingType DEF WorkflowStatus
  <2>2. new.status = "WAITING_FOR_APPROVAL" /\ new.version = state[w].version
    BY <1>1 DEF Checkpoint
  <2>3. SaveAndGoto(w, new, "create_approval") /\ wpc[w] \in SavePC
    BY <1>4 DEF SaveWaiting, SavePC, RuntimePC
  <2> HIDE DEF new
  <2>4. SavesFor(w, new)
    BY <2>2, <2>3 DEF SavesFor, OpenStatus
  <2> QED
    BY <2>1, <2>2, <2>3, <2>4, SaveWrites
<1>5. CASE RecordResult(w)
  <2> DEFINE new == Completed(state[w], call[w].tool, result[w])
  <2>1. new \in Checkpoint /\ new.version = state[w].version
    BY <1>1, HeldTypes, CompletedType
  <2>2. new.status = "QUEUED" /\ new.pending_action = NoCall
    BY <1>1, <2>1 DEF Completed, Checkpoint
  <2>3. SaveAndReturn(w, new) /\ wpc[w] \in SavePC
    BY <1>5 DEF RecordResult, SavePC, RuntimePC
  <2> HIDE DEF new
  <2>4. SavesFor(w, new)
    BY <2>2, <2>3 DEF SavesFor
  <2> QED
    BY <2>1, <2>2, <2>3, <2>4, SaveWrites
<1>6. CASE Load(w) \/ CreateApproval(w) \/ ResumeApprovedAction(w)
  BY <1>6 DEF Load, CreateApproval, create_approval, ResumeApprovedAction, storeVars
<1>7. CASE \/ ModelFailsPermanently(w) \/ LookupResult(w) \/ SaveToolResult(w)
           \/ \E r \in Results : BackendSucceeds(w, r)
  <2>1. UNCHANGED workflows /\ delivery' = delivery
    BY <1>7
    DEF ModelFailsPermanently, LeaveProcess, LookupResult, SaveToolResult, save_tool_result,
        BackendSucceeds, storeVars, localVars
  <2>2. wpc'[w] \in SavePC \cup {"perm_ack"}
    BY <1>1, <1>7
    DEF ModelFailsPermanently, LeaveProcess, LookupResult, AfterLookup, SaveToolResult,
        BackendSucceeds, Goto, LocalTypeOK, SavePC, RuntimePC
  <2> QED
    BY <2>1, <2>2 DEF GoesOn
<1> QED
  BY <1>2, <1>3, <1>4, <1>5, <1>6, <1>7 DEF ProcessStep

-----------------------------------------------------------------------------
(* Who drives a task *)

\* The pending action of a checkpoint may be carried out.
Granted(task, copy) ==
    copy.pending_action = NoCall \/ IsApproved(action_id(task, copy.pending_action))

\* The worker is going to put a message of its task in the queue, or to end its workflow.
Driving(w) ==
    /\ wpc[w] \notin {"idle", "create_approval"}
    /\ wpc[w] = "ack" => state[w].status = "QUEUED"
    /\ wpc[w] = "approval" => Granted(Task(w), state[w])
    /\ wpc[w] \in {"dead_save", "perm_save"} => VersionMatches(Task(w), state[w])

\* A message of the task that anybody may receive.
Offered(task) == \E i \in DOMAIN queue : queue[i].task_id = task /\ queue[i].status = "PENDING"

Stopped(task) == workflows[task].status \notin OpenStatus

\* Where a step of w leaves the task that w drives.
Drives(w) ==
    \/ delivery'[w] = delivery[w] /\ Driving(w)'
    \/ \E i \in DOMAIN queue' : queue'[i].task_id = Task(w) /\ queue'[i].status = "PENDING"
    \/ workflows'[Task(w)].status \notin OpenStatus

LEMMA GoesOnDrives ==
  ASSUME NEW w, GoesOn(w)
  PROVE  Drives(w)
BY DEF GoesOn, Drives, Driving, SavePC, RuntimePC

LEMMA ProcessDrives ==
  ASSUME NEW w \in Workers, Busy(w), Driving(w), ProcessStep(w),
         Stopped(Task(w)) \/ Granted(Task(w), workflows[Task(w)])
  PROVE  Drives(w)
<1>1. /\ LocalTypeOK /\ StoreTypeOK /\ Task(w) \in Tasks
      /\ workflows[Task(w)] \in Checkpoint /\ state[w] \in Checkpoint
  BY HeldTypes DEF Busy
<1>2. CASE GoesOn(w)
  BY <1>2, GoesOnDrives
<1>3. CASE WritesRow(w) /\ ~GoesOn(w)
  <2>1. PICK new \in Checkpoint : save_workflow(Task(w), new) /\ new.status \notin OpenStatus
    BY <1>3 DEF WritesRow
  <2>2. workflows'[Task(w)] = Saved(new)
    BY <1>1, <2>1 DEF save_workflow, StoreTypeOK
  <2>3. Saved(new).status = new.status
    BY DEF Saved, Checkpoint
  <2> QED
    BY <2>1, <2>2, <2>3 DEF Drives
<1>4. CASE wpc[w] = "load"
  <2>1. Load(w)
    BY <1>4
    DEF ProcessStep, SaveRunning, ModelFailsRetryably, ModelFailsPermanently, DecideComplete,
        DecideFail, DecideTool, PolicyDenied, SaveWaiting, CreateApproval, ResumeApprovedAction,
        LookupResult, BackendSucceeds, BackendFailsRetryably, BackendTimesOut,
        BackendFailsPermanently, SaveToolResult, RecordResult
  <2>2. UNCHANGED <<workflows, approvals, delivery>>
    BY <2>1 DEF Load, Return, storeVars
  <2>3. CASE Stopped(Task(w))
    BY <2>2, <2>3 DEF Drives, Stopped, Task
  <2>4. CASE ~Stopped(Task(w))
    <3>1. Resumable(workflows[Task(w)])
      BY <2>4 DEF Stopped, OpenStatus, Resumable, terminal, TerminalStatus
    <3>2. /\ Goto(w, AfterLoad(workflows[Task(w)]))
          /\ state' = [state EXCEPT ![w] = workflows[Task(w)]]
      BY <2>1, <3>1 DEF Load
    <3>3. wpc'[w] \in {"approval", "running"} /\ state'[w] = workflows[Task(w)]
      BY <1>1, <3>2 DEF Goto, AfterLoad, LocalTypeOK
    <3>4. Granted(Task(w), state[w])'
      BY <2>2, <2>4, <3>3 DEF Granted, IsApproved, Task
    <3> QED
      BY <2>2, <3>3, <3>4 DEF Drives, Driving
  <2> QED
    BY <2>3, <2>4
<1>5. CASE wpc[w] = "approval"
  <2>1. ResumeApprovedAction(w)
    BY <1>5
    DEF ProcessStep, Load, SaveRunning, ModelFailsRetryably, ModelFailsPermanently,
        DecideComplete, DecideFail, DecideTool, PolicyDenied, SaveWaiting, CreateApproval,
        LookupResult, BackendSucceeds, BackendFailsRetryably, BackendTimesOut,
        BackendFailsPermanently, SaveToolResult, RecordResult
  <2>2. state[w].pending_action # NoCall
    BY <1>1, <1>5, ModelsAssumption DEF LocalTypeOK, CallChosen
  <2>3. IsApproved(action_id(Task(w), state[w].pending_action))
    BY <1>5, <2>2 DEF Driving, Granted
  <2>4. Goto(w, "execute") /\ delivery' = delivery
    BY <2>1, <2>3 DEF ResumeApprovedAction
  <2>5. GoesOn(w)
    BY <1>1, <2>4 DEF Goto, GoesOn, LocalTypeOK, SavePC, RuntimePC
  <2> QED
    BY <2>5, GoesOnDrives
<1> QED
  BY <1>2, <1>3, <1>4, <1>5, ProcessWrites DEF Driving

\* A message that is deleted: the worker goes on at pc.
LEMMA DeleteDrives ==
  ASSUME NEW w \in Workers, LocalTypeOK, NEW pc \in {"enqueue", "dead", "perm_load"},
         DeleteReceipt(w, pc)
  PROVE  Drives(w)
BY DEF DeleteReceipt, LeaveProcess, Goto, LocalTypeOK, Drives, Driving

\* The error paths: a live workflow is loaded as it is, and ended if nobody saved it since.
LEMMA ReloadDrives ==
  ASSUME NEW w \in Workers, Busy(w), NEW pc \in {"dead_save", "perm_save"}, Reload(w, pc)
  PROVE  Drives(w)
<1>1. LocalTypeOK /\ UNCHANGED workflows
  BY DEF Busy, Reload, storeVars
<1>2. CASE terminal(workflows[Task(w)])
  <2>1. Stopped(Task(w))
    BY <1>2 DEF terminal, TerminalStatus, Stopped, OpenStatus
  <2>2. workflows'[Task(w)].status \notin OpenStatus
    BY <1>1, <2>1 DEF Stopped
  <2> QED
    BY <2>2 DEF Drives
<1>3. CASE /\ state' = [state EXCEPT ![w] = workflows[Task(w)]]
           /\ Goto(w, pc) /\ UNCHANGED delivery
  BY <1>1, <1>3 DEF Goto, LocalTypeOK, Drives, Driving, VersionMatches, Task
<1> QED
  BY <1>2, <1>3 DEF Reload

LEMMA FinalDrives ==
  ASSUME NEW w \in Workers, Busy(w), Driving(w), wpc[w] \in {"dead_save", "perm_save"},
         NEW status \in {"DEAD_LETTERED", "FAILED"}, SaveFinal(w, status)
  PROVE  workflows'[Task(w)].status = status
<1>1. PICK new : new = [state[w] EXCEPT !.status = status]
  OBVIOUS
<1>2. state[w] \in Checkpoint /\ status \in WorkflowStatus /\ Task(w) \in Tasks /\ StoreTypeOK
  BY HeldTypes DEF WorkflowStatus, Busy
<1>3. new \in Checkpoint /\ new.status = status /\ new.version = state[w].version
  BY <1>1, <1>2, StatusFields
<1>4. save_workflow(Task(w), new)
  BY <1>1, <1>3 DEF SaveFinal, Driving, VersionMatches
<1>5. workflows'[Task(w)] = Saved(new)
  BY <1>2, <1>4 DEF save_workflow, StoreTypeOK
<1> QED
  BY <1>3, <1>5 DEF Saved, Checkpoint

\* Steps of a calm run_once that save nothing.
LEMMA ReportsOnly ==
  ASSUME StoreTypeOK, NEW w \in Workers, CalmRunOnce(w), ~SharedStep(w)
  PROVE  UNCHANGED workflows
BY DEF CalmRunOnce, ReceiveMessage, receive_message, SetMessage, OnlyQueueChanges,
       DeleteThenSend, DeleteReceipt, acknowledge_receipt, delete_message, send_message,
       RetryMessage, change_visibility, DeadLetter, send_dead_letter, storeVars

\* A worker that saves drives the task it saves.
LEMMA SaverDrives ==
  ASSUME AWSTypeInv, NEW w \in Workers, CalmRunOnce(w), NEW t \in Tasks,
         workflows'[t] # workflows[t]
  PROVE  t = Task(w) /\ Driving(w)
<1>1. StoreTypeOK /\ LocalTypeOK /\ HoldsRow
  BY AWSTypeParts DEF AWSTypeInv
<1>2. SharedStep(w)
  BY <1>1, ReportsOnly
<1>3. Busy(w)
  BY <1>1, <1>2, SharedType
<1>4. ASSUME NEW new, save_workflow(Task(w), new) PROVE t = Task(w)
  BY <1>1, <1>4 DEF save_workflow, StoreTypeOK
<1>5. CASE ProcessStep(w)
  <2>1. PICK new : save_workflow(Task(w), new) /\ wpc[w] \in SavePC
    BY <1>3, <1>5, ProcessWrites DEF WritesRow
  <2> QED
    BY <1>4, <2>1 DEF Driving, SavePC, RuntimePC
<1>6. CASE DeadSave(w) \/ PermanentSave(w)
  <2>1. PICK status : SaveFinal(w, status) /\ wpc[w] \in {"dead_save", "perm_save"}
    BY <1>6 DEF DeadSave, PermanentSave
  <2>2. PICK new : save_workflow(Task(w), new) /\ new = [state[w] EXCEPT !.status = status]
    BY <2>1 DEF SaveFinal, storeVars
  <2>3. state[w] \in Checkpoint
    BY <1>3, HeldTypes
  <2>4. new.version = state[w].version
    BY <2>2, <2>3 DEF Checkpoint
  <2>5. VersionMatches(Task(w), state[w])
    BY <2>2, <2>4 DEF save_workflow, VersionMatches
  <2> QED
    BY <1>4, <2>1, <2>2, <2>5 DEF Driving
<1>7. CASE DeadLoad(w) \/ PermanentLoad(w)
  BY <1>7 DEF DeadLoad, PermanentLoad, Reload, storeVars
<1> QED
  BY <1>2, <1>5, <1>6, <1>7 DEF SharedStep

\* Who drives a task goes on to do so until its message is sent or its workflow has ended.
LEMMA CalmDrives ==
  ASSUME AWSTypeInv, HeldRowTask, NEW w \in Workers, CalmRunOnce(w), Driving(w),
         wpc[w] \in AWSKeepPC => HoldsAlone(w),
         Stopped(Task(w)) \/ Granted(Task(w), workflows[Task(w)])
  PROVE  Drives(w)
<1>1. StoreTypeOK /\ LocalTypeOK /\ HoldsRow /\ wpc[w] # "idle"
  BY AWSTypeParts DEF AWSTypeInv, Driving
<1>2. Busy(w) /\ Task(w) \in Tasks
  BY <1>1, HeldTypes DEF Busy
<1>3. CASE ProcessStep(w)
  BY <1>2, <1>3, ProcessDrives
<1>4. CASE DeadLoad(w) \/ PermanentLoad(w)
  BY <1>2, <1>4, ReloadDrives DEF DeadLoad, PermanentLoad
<1>5. CASE DeadSave(w) \/ PermanentSave(w)
  <2>1. PICK status \in {"DEAD_LETTERED", "FAILED"} : workflows'[Task(w)].status = status
    BY <1>2, <1>5, FinalDrives DEF DeadSave, PermanentSave
  <2> QED
    BY <2>1 DEF Drives, OpenStatus
<1>6. CASE DeleteThenSend(w)
  <2>1. CASE wpc[w] = "ack" /\ DeleteReceipt(w, IF state[w].status = "QUEUED" THEN "enqueue" ELSE "idle")
    <3>1. DeleteReceipt(w, "enqueue")
      BY <2>1 DEF Driving
    <3> QED
      BY <1>1, <3>1, DeleteDrives
  <2>2. CASE send_message(Task(w))
    <3>1. /\ queue' = Append(queue, NewRow(Task(w))) /\ OnlyQueueChanges
          /\ NewRow(Task(w)) \in QueueRow
      BY <1>1, <1>2, <2>2, SendType, NewRowType
    <3>2. Len(queue) + 1 \in DOMAIN queue' /\ queue'[Len(queue) + 1] = NewRow(Task(w))
      BY <1>1, <3>1, AppendMessageType
    <3>3. NewRow(Task(w)).task_id = Task(w) /\ NewRow(Task(w)).status = "PENDING"
      BY DEF NewRow
    <3> QED
      BY <3>2, <3>3 DEF Drives
  <2> QED
    BY <1>6, <2>1, <2>2 DEF DeleteThenSend
<1>7. CASE RetryMessage(w)
  <2>1. HoldsAlone(w) /\ delivery[w].id \in DOMAIN queue
    BY <1>1, <1>7 DEF RetryMessage, AWSKeepPC, KeepPC, HoldsRow
  <2>2. change_visibility(delivery[w])
    BY <1>7, <2>1 DEF RetryMessage, VisibilityRefused, Stale, HoldsAlone
  <2>3. /\ delivery[w].id \in DOMAIN queue'
        /\ queue'[delivery[w].id] = [queue[delivery[w].id] EXCEPT !.status = "PENDING", !.delayed = TRUE]
    BY <1>1, <2>1, <2>2, VisibleType DEF OnlyRow, SameDomain
  <2>4. queue[delivery[w].id] \in QueueRow /\ queue[delivery[w].id].task_id = Task(w)
    BY <1>1, <2>1, RowType DEF HeldRowTask
  <2>5. queue'[delivery[w].id].status = "PENDING" /\ queue'[delivery[w].id].task_id = Task(w)
    BY <2>3, <2>4 DEF QueueRow
  <2> QED
    BY <2>3, <2>5 DEF Drives
<1>8. CASE DeadLetter(w)
  <2>1. CASE LeaveProcess(w, "dead_delete")
    BY <1>1, <2>1 DEF LeaveProcess, Goto, LocalTypeOK, Drives, Driving
  <2> QED
    BY <1>1, <1>8, <2>1, DeleteDrives DEF DeadLetter
<1>9. CASE DeleteReceipt(w, "perm_load")
  BY <1>1, <1>9, DeleteDrives
<1>10. CASE \E i \in DOMAIN queue : ReceiveMessage(w, i)
  BY <1>1, <1>10 DEF ReceiveMessage
<1> QED
  BY <1>3, <1>4, <1>5, <1>6, <1>7, <1>8, <1>9, <1>10 DEF CalmRunOnce, SharedStep

-----------------------------------------------------------------------------
(* What may be carried out *)

LEMMA AWSApprovalsForward ==
  ASSUME AWSTypeInv, [AWSNext]_awsVars
  PROVE  ApprovalsForward
<1>1. StoreTypeOK
  BY AWSTypeParts DEF AWSTypeInv
<1>2. CASE UNCHANGED approvals
  BY <1>2 DEF ApprovalsForward
<1>3. ASSUME \/ \E w \in Workers : WorkerCrash(w)
             \/ \E i \in DOMAIN queue : LeaseExpires(i) \/ Resurrect(i)
             \/ \E h \in Handlers : HandlerCrash(h)
             \/ UNCHANGED awsVars
      PROVE  UNCHANGED approvals
  BY <1>3
  DEF WorkerCrash, LeaseExpires, Resurrect, SetMessage, OnlyQueueChanges, HandlerCrash, awsVars,
      vars, storeVars
<1> QED
  BY <1>1, <1>2, <1>3, WorkerApprovals, ControlApprovals DEF AWSNext, AWSStep

LEMMA GrantStays ==
  ASSUME ApprovalsForward, NEW task \in Tasks, NEW old \in Checkpoint, Granted(task, old),
         NEW new, new.pending_action \in {old.pending_action, NoCall}
  PROVE  Granted(task, new)'
<1>1. CASE new.pending_action = NoCall
  BY <1>1 DEF Granted
<1>2. CASE new.pending_action # NoCall
  <2>1. /\ new.pending_action = old.pending_action /\ old.pending_action \in Calls
        /\ IsApproved(action_id(task, old.pending_action))
    BY <1>2 DEF Granted, Checkpoint
  <2>2. action_id(task, old.pending_action) \in Key
    BY <2>1 DEF action_id, Key
  <2>3. approvals'[action_id(task, old.pending_action)] = "APPROVED"
    BY <2>1, <2>2 DEF ApprovalsForward, IsApproved
  <2> QED
    BY <2>1, <2>3 DEF Granted, IsApproved
<1> QED
  BY <1>1, <1>2

\* A request releases what has been approved.
AnswerGranted == \A h \in Handlers : hpc[h] = "approve_save" => Granted(htask[h], hstate[h])

\* How a request comes to release a workflow.
LEMMA ReleaseWays ==
  ASSUME AWSTypeInv, [AWSNext]_awsVars, NEW g \in Handlers, hpc'[g] = "approve_save"
  PROVE  /\ htask'[g] = htask[g] /\ hstate'[g] = hstate[g]
         /\ hpc[g] = "approve_save" \/ resolve_approval(PendingKey(g), "APPROVED")
<1>1. ControlTypeOK
  BY AWSTypeParts DEF AWSTypeInv
<1> DEFINE Way == /\ htask'[g] = htask[g] /\ hstate'[g] = hstate[g]
                  /\ hpc[g] = "approve_save" \/ resolve_approval(PendingKey(g), "APPROVED")
<1>2. CASE UNCHANGED handlerVars
  BY <1>2 DEF handlerVars
<1>3. ASSUME NEW h \in Handlers, AWSControlStep(h) PROVE Way
  <2>1. CASE SharedRequest(h)
    BY <1>1, <2>1
    DEF SharedRequest, ApproveResolve, ApproveSave, RejectResolve, RejectSave, Resolve,
        StaleRequest, HGoto, Respond, ControlTypeOK
  <2>2. CASE ReplaySave(h) \/ ReplayDelete(h) \/ SendMessage(h)
    BY <1>1, <2>2
    DEF ReplaySave, ReplayDelete, SendMessage, StaleRequest, HGoto, Respond, ControlTypeOK
  <2>3. ASSUME NEW task \in Tasks, CreateOnAWS(h, task) \/ Approve(h, task) \/ Reject(h, task)
        PROVE  Way
    BY <1>1, <2>3 DEF CreateOnAWS, Approve, Reject, Open, ControlTypeOK
  <2>4. ASSUME NEW i \in AnyReceipt, NEW task \in Tasks, OpenReplay(h, i, task)
        PROVE  Way
    BY <1>1, <2>4 DEF OpenReplay, ControlTypeOK
  <2> QED
    BY <1>3, <2>1, <2>2, <2>3, <2>4, ControlWays
<1>4. ASSUME NEW h \in Handlers, HandlerCrash(h) PROVE Way
  BY <1>1, <1>4 DEF HandlerCrash, Respond, ControlTypeOK
<1> QED
  BY <1>2, <1>3, <1>4 DEF AWSNext, AWSStep, awsVars, vars, handlerVars

LEMMA AnswerGrantedNext ==
  ASSUME AWSTypeInv, AnswerGranted, [AWSNext]_awsVars
  PROVE  AnswerGranted'
<1> SUFFICES ASSUME NEW h \in Handlers, hpc'[h] = "approve_save"
             PROVE  Granted(htask[h], hstate[h])'
  BY DEF AnswerGranted
<1>1. PICK task, copy : task = htask[h] /\ copy = hstate[h]
  OBVIOUS
<1>2. /\ StoreTypeOK /\ task \in Tasks /\ copy \in Checkpoint
      /\ htask'[h] = task /\ hstate'[h] = copy
  BY <1>1, ReleaseWays, AWSTypeParts, HandlerTypes DEF AWSTypeInv
<1>3. Granted(task, copy)'
  <2>1. CASE hpc[h] = "approve_save"
    <3>1. Granted(task, copy)
      BY <1>1, <2>1 DEF AnswerGranted
    <3> QED
      BY <1>2, <3>1, AWSApprovalsForward, GrantStays
  <2>2. CASE resolve_approval(PendingKey(h), "APPROVED") /\ copy.pending_action # NoCall
    <3>1. PendingKey(h) = action_id(task, copy.pending_action) /\ copy.pending_action \in Calls
      BY <1>1, <1>2, <2>2 DEF PendingKey, Checkpoint
    <3>2. action_id(task, copy.pending_action) \in Key
      BY <1>2, <3>1 DEF action_id, Key
    <3>3. approvals'[action_id(task, copy.pending_action)] = "APPROVED"
      BY <1>2, <2>2, <3>1, <3>2 DEF resolve_approval, StoreTypeOK
    <3> QED
      BY <3>3 DEF Granted, IsApproved
  <2>3. CASE copy.pending_action = NoCall
    BY <2>3 DEF Granted
  <2> QED
    BY <2>1, <2>2, <2>3, ReleaseWays
<1> QED
  BY <1>2, <1>3 DEF Granted, IsApproved

-----------------------------------------------------------------------------
(* A workflow that is ended with its message *)

LEMMA ReplaysGrow ==
  ASSUME AWSTypeInv, AWSCheckpointInv, [AWSNext]_awsVars
  PROVE  replays \in Nat /\ replays' \in {replays, replays + 1}
<1>1. replays \in Nat
  BY FaultTypes DEF AWSTypeInv
<1>2. CASE UNCHANGED awsVars
  BY <1>1, <1>2 DEF awsVars, vars, handlerVars
<1>3. CASE AWSNext
  BY <1>1, <1>3, EndingNext DEF EndingStep
<1> QED
  BY <1>2, <1>3

PermPC == {"perm_load", "perm_save"}

\* Without a fault the message a workflow is ended with was its only one.
EndedApart ==
    Faults = 0 /\ replays = 0 =>
        \A w \in Workers : wpc[w] \in PermPC => AWSSlots(Task(w), NoCall) = {}

LEMMA EndedOwnWay ==
  ASSUME LocalTypeOK, NEW w \in Workers, CalmRunOnce(w), wpc'[w] \in PermPC
  PROVE  /\ delivery'[w] = delivery[w]
         /\ wpc[w] \in PermPC \/ (wpc[w] = "perm_ack" /\ DeleteReceipt(w, "perm_load"))
<1>1. CASE ProcessStep(w)
  BY <1>1, ProcessHolds DEF PermPC, KeepPC, RuntimePC
<1>2. CASE DeadLoad(w) \/ DeadSave(w) \/ PermanentSave(w)
  BY <1>2 DEF DeadLoad, DeadSave, PermanentSave, Reload, SaveFinal, Finish, Goto, LocalTypeOK, PermPC
<1>3. CASE PermanentLoad(w)
  BY <1>3 DEF PermanentLoad, Reload, Finish, Goto, LocalTypeOK, PermPC
<1>4. CASE \E i \in DOMAIN queue : ReceiveMessage(w, i)
  BY <1>4 DEF ReceiveMessage, Goto, LocalTypeOK, PermPC
<1>5. CASE DeleteThenSend(w) \/ RetryMessage(w) \/ DeadLetter(w)
  BY <1>5
  DEF DeleteThenSend, RetryMessage, DeadLetter, DeleteReceipt, Finish, LeaveProcess, Goto,
      LocalTypeOK, PermPC
<1>6. CASE wpc[w] = "perm_ack" /\ DeleteReceipt(w, "perm_load")
  BY <1>6 DEF DeleteReceipt, LeaveProcess
<1> QED
  BY <1>1, <1>2, <1>3, <1>4, <1>5, <1>6 DEF CalmRunOnce, SharedStep

LEMMA EndedWays ==
  ASSUME AWSTypeInv, [AWSNext]_awsVars, Faults' = 0, NEW w \in Workers, wpc'[w] \in PermPC
  PROVE  /\ delivery'[w] = delivery[w]
         /\ wpc[w] \in PermPC \/ (wpc[w] = "perm_ack" /\ DeleteReceipt(w, "perm_load"))
<1>1. LocalTypeOK
  BY AWSTypeParts DEF AWSTypeInv
<1>2. ASSUME NEW v \in Workers, CalmRunOnce(v), v # w
      PROVE  delivery'[w] = delivery[w] /\ wpc'[w] = wpc[w]
  BY <1>2, CalmHolds DEF HoldStep
<1>3. CASE UNCHANGED <<wpc, delivery>>
  BY <1>3
<1>4. CASE \E i \in DOMAIN queue : Unheld(i)
  BY <1>3, <1>4 DEF Unheld, LeaseExpires, runtimeVars, localVars
<1>5. CASE UNCHANGED workerVars
  BY <1>3, <1>5 DEF workerVars, runtimeVars, localVars
<1>6. CASE UNCHANGED vars
  BY <1>3, <1>6 DEF vars, workerVars, runtimeVars, localVars
<1> QED
  BY <1>1, <1>2, <1>4, <1>5, <1>6, CalmSteps, EndedOwnWay DEF CalmStep

\* A worker that deletes its message has no slot any more, and makes none.
LEMMA DeleteEnds ==
  ASSUME NEW w \in Workers, Busy(w), HoldsRow, HoldsNoLetter, wpc[w] = "perm_ack",
         DeleteReceipt(w, "perm_load"), UNCHANGED handlerVars, NEW task, task = Task(w),
         AWSSlotsBounded(task), Faults = 0, replays = 0
  PROVE  AWSSlots(task, NoCall)' = {}
<1>0. PICK r, x : r = delivery[w].id /\ x = <<"worker", w>>
  OBVIOUS
<1>1. StoreTypeOK /\ LocalTypeOK /\ r \in DOMAIN queue /\ r \notin letters
  BY <1>0 DEF Busy, HoldsRow, HoldsNoLetter
<1>2. OthersKeep(w) /\ OnlyQueueChanges
  BY <1>1, DeletedLeaves, LeavesType DEF Leaves, LeavePC
<1>3. WorkerSlot(task, NoCall, w) /\ ~WorkerSlot(task, NoCall, w)'
  BY <1>1 DEF WorkerSlot, SlotPC, RuntimePC, DeleteReceipt, LeaveProcess, Goto, LocalTypeOK
<1>4. x \in AWSSlots(task, NoCall)
  BY <1>0, <1>3, AWSSlotsMember
<1>5. AWSSlots(task, NoCall) \subseteq {x}
  BY <1>4, OnlySlot
<1>6. \A i \in DOMAIN queue' : MessageSlot(task, i)' => i \in DOMAIN queue /\ MessageSlot(task, i)
  <2>1. CASE delete_message(r)
    <3>1. /\ OnlyRow(r)
          /\ queue'[r] = [queue[r] EXCEPT !.status = "COMPLETED", !.expired = FALSE]
      BY <1>1, <2>1, DeleteType
    <3>2. queue'[r].status = "COMPLETED"
      BY <1>1, <3>1, RowType DEF QueueRow
    <3>3. ~MessageSlot(task, r)'
      BY <3>2 DEF MessageSlot, ShowsAgain, Receivable
    <3>4. MessagesStand(r)
      BY <1>0, <1>2, <3>1, StandsButOwn DEF OnlyRow, SameDomain, Receipt
    <3>5. replays' = replays
      BY DEF handlerVars
    <3> QED
      BY <3>3, <3>4, <3>5, StandingSlots
  <2>2. CASE Stale(delivery[w]) /\ UNCHANGED storeVars
    <3>1. queue' = queue /\ replays' = replays
      BY <2>2 DEF storeVars, handlerVars
    <3>2. \A i : ~Receipt(w, i)
      BY <2>2 DEF Stale, Receipt
    <3>3. \A v \in Workers, i \in DOMAIN queue : Receipt(v, i) => Receipt(v, i)'
      BY <1>2, <3>1, <3>2 DEF OthersKeep, Receipt
    <3> QED
      BY <3>1, <3>3, MessagesKept
  <2> QED
    BY <1>0, <2>1, <2>2 DEF DeleteReceipt, acknowledge_receipt
<1>7. \A v \in Workers : WorkerSlot(task, NoCall, v)' => WorkerSlot(task, NoCall, v) /\ <<"worker", v>> # x
  <2>1. ASSUME NEW v \in Workers \ {w}, WorkerSlot(task, NoCall, v)'
        PROVE  WorkerSlot(task, NoCall, v)
    BY <1>2, <2>1, OtherWorkersSlot
  <2> QED
    BY <1>0, <1>3, <2>1
<1>8. Waiting(task)' => Waiting(task)
  BY <1>2 DEF OnlyQueueChanges, Waiting
<1>9. PICK X, Y : X = {x} /\ Y = {}
  OBVIOUS
<1>10. /\ \A i : <<"row", i>> \notin X
       /\ \A h : <<"request", h>> \notin X
       /\ <<"waiting", task>> \notin X
       /\ \A v : <<"worker", v>> \in X <=> <<"worker", v>> = x
  BY <1>0, <1>9
<1>11. \A h \in Handlers : SendSlot(task, h)' => SendSlot(task, h)
  BY SameRequests
<1>12. AWSSlots(task, NoCall)' \subseteq (AWSSlots(task, NoCall) \ X) \cup Y
  BY <1>6, <1>7, <1>8, <1>10, <1>11, AWSSlotsStep
<1> QED
  BY <1>5, <1>9, <1>12

LEMMA EndedApartNext ==
  ASSUME AWSTypeInv, AWSCheckpointInv, DeadLetterInv, FollowInv, AWSWayInv, [AWSNext]_awsVars,
         \A task \in Tasks : AWSSlotsBounded(task), EndedApart
  PROVE  EndedApart'
<1> SUFFICES ASSUME Faults' = 0, replays' = 0, NEW w \in Workers, wpc'[w] \in PermPC
             PROVE  AWSSlots(Task(w), NoCall)' = {}
  BY DEF EndedApart
<1>1. /\ StoreTypeOK /\ LocalTypeOK /\ HoldsRow /\ HoldsNoLetter /\ OnlyCreated
  BY AWSTypeParts DEF AWSTypeInv, AWSCheckpointInv
<1>2. Faults = 0 /\ replays = 0
  <2>1. PICK m, n : m = replays /\ n = replays'
    OBVIOUS
  <2>2. m \in Nat /\ n \in {m, m + 1} /\ n = 0
    BY <2>1, ReplaysGrow
  <2>3. m = 0
    BY <2>2, SMT
  <2> QED
    BY <2>1, <2>3, CalmBefore
<1>3. delivery'[w] = delivery[w] /\ wpc[w] # "idle"
  BY EndedWays DEF PermPC
<1>4. PICK task : task = Task(w)
  OBVIOUS
<1>5. Busy(w) /\ task \in Tasks /\ task \in created
  BY <1>1, <1>3, <1>4, HeldTypes DEF Busy, OnlyCreated
<1>6. AWSSlots(task, NoCall)' = {}
  <2>1. CASE wpc[w] \in PermPC
    <3>1. AWSSlots(task, NoCall) = {}
      BY <1>2, <1>4, <2>1 DEF EndedApart
    <3>2. \A h \in Handlers : ~CreateOnAWS(h, task)
      BY <1>5 DEF CreateOnAWS
    <3>3. AWSSlotMove(task, NoCall)
      BY <1>5, <3>2, NothingRecorded, AWSSlotMoves DEF AWSTypeInv
    <3>4. Paid = 0 /\ Paid' = 0
      BY <1>2, SMT DEF Paid, Charge
    <3>5. ~AWSSlotMade(task, NoCall)
      BY <3>4, NotNext DEF AWSSlotMade
    <3> QED
      BY <3>1, <3>3, <3>5 DEF AWSSlotMove, AWSSlotsKept, AWSSlotPassed
  <2>2. CASE wpc[w] = "perm_ack" /\ DeleteReceipt(w, "perm_load")
    <3>1. \A h \in Handlers : ~(AWSControlStep(h) /\ UNCHANGED workerVars)
      <4>1. wpc'[w] # wpc[w]
        BY <1>1, <2>2 DEF DeleteReceipt, LeaveProcess, Goto, LocalTypeOK
      <4> QED
        BY <4>1 DEF workerVars, runtimeVars
    <3>2. UNCHANGED handlerVars
      BY <3>1, CalmSteps DEF CalmStep, vars
    <3> QED
      BY <1>1, <1>2, <1>4, <1>5, <2>2, <3>2, DeleteEnds
  <2> QED
    BY <2>1, <2>2, EndedWays
<1>7. Task(w)' = task
  BY <1>3, <1>4 DEF Task
<1> QED
  BY <1>6, <1>7

-----------------------------------------------------------------------------
(* Who saves on whose behalf *)

RowGranted(task) ==
    ~Stopped(task) \/ (replays = 0 /\ ~Waiting(task)) => Granted(task, workflows[task])

\* Without a fault nothing is taken up whose pending action was not approved.
GrantedRows ==
    Faults = 0 /\ replays <= 1 /\ astray = {} => \A task \in Tasks : RowGranted(task)

\* What has a letter, or ends with its message, waits for nobody.
LEMMA LetterNotWaiting ==
  ASSUME NEW task, AWSSlotsBounded(task), Faults = 0, replays = 0, HasLetter(task)
  PROVE  ~Waiting(task)
<1> SUFFICES ASSUME Waiting(task) PROVE FALSE
  OBVIOUS
<1>1. PICK i \in DOMAIN queue : queue[i].task_id = task /\ queue[i].status = "DEAD"
  BY DEF HasLetter, DeadMessages
<1>2. MessageSlot(task, i)
  BY <1>1 DEF MessageSlot
<1>3. PICK x, y : x = <<"row", i>> /\ y = <<"waiting", task>>
  OBVIOUS
<1>4. x \in AWSSlots(task, NoCall) /\ y \in AWSSlots(task, NoCall) /\ x # y
  BY <1>2, <1>3, AWSSlotsMember
<1> QED
  BY <1>4, OnlySlot

LEMMA FinalNotWaiting ==
  ASSUME DeadLetterInv, EndedApart, Faults = 0, replays = 0, NEW w \in Workers,
         NEW task, task = Task(w), AWSSlotsBounded(task), wpc[w] \in {"dead_save", "perm_save"}
  PROVE  ~Waiting(task)
<1>1. CASE wpc[w] = "dead_save"
  BY <1>1, LetterNotWaiting DEF DeadLetterInv, DeadPC
<1>2. CASE wpc[w] = "perm_save"
  BY <1>2, AWSSlotsMember DEF EndedApart, PermPC
<1> QED
  BY <1>1, <1>2

\* A worker saves what it knows of the row.
LEMMA WorkerRows ==
  ASSUME AWSTypeInv, AWSCheckpointInv, NEW w \in Workers, OpenCopy(w), CalmRunOnce(w),
         NEW task, task = Task(w), workflows'[task] # workflows[task]
  PROVE  \/ Waiting(task)'
         \/ /\ ~Stopped(task)
            /\ workflows'[task].pending_action \in {workflows[task].pending_action, NoCall}
         \/ /\ wpc[w] \in {"dead_save", "perm_save"}
            /\ workflows'[task].pending_action = workflows[task].pending_action
            /\ Stopped(task)'
<1>1. StoreTypeOK /\ LocalTypeOK /\ HoldsRow
  BY AWSTypeParts DEF AWSTypeInv
<1>2. SharedStep(w)
  BY <1>1, ReportsOnly
<1>3. Busy(w) /\ task \in Tasks /\ state[w] \in Checkpoint
  BY <1>1, <1>2, SharedType, HeldTypes
<1>4. ASSUME NEW new \in Checkpoint, save_workflow(task, new), new.version = state[w].version,
             wpc[w] \in CopyPC
      PROVE  /\ workflows[task] = state[w]
             /\ workflows'[task].status = new.status
             /\ workflows'[task].pending_action = new.pending_action
  <2>1. FreshCopy(state[w], task)
    BY <1>3, <1>4 DEF AWSCheckpointInv, AWSCopiesFresh
  <2>2. workflows[task] = state[w] /\ workflows'[task] = Saved(new)
    BY <1>1, <1>3, <1>4, <2>1 DEF save_workflow, VersionMatches, FreshCopy, StoreTypeOK
  <2> QED
    BY <2>2 DEF Saved, Checkpoint
<1>5. CASE ProcessStep(w)
  <2>1. PICK new \in Checkpoint :
            /\ wpc[w] \in SavePC
            /\ new.version = state[w].version
            /\ save_workflow(task, new)
            /\ \/ new.status = "WAITING_FOR_APPROVAL"
               \/ new.pending_action \in {state[w].pending_action, NoCall}
    BY <1>3, <1>5, ProcessWrites DEF WritesRow
  <2>2. wpc[w] \in CopyPC /\ state[w].status \in OpenStatus
    BY <2>1 DEF SavePC, CopyPC, OpenCopy, RuntimePC
  <2>3. /\ workflows[task] = state[w]
        /\ workflows'[task].status = new.status
        /\ workflows'[task].pending_action = new.pending_action
    BY <1>4, <2>1, <2>2
  <2> QED
    BY <2>1, <2>2, <2>3 DEF Waiting, Stopped
<1>6. CASE DeadSave(w) \/ PermanentSave(w)
  <2>1. PICK status \in {"DEAD_LETTERED", "FAILED"} :
            SaveFinal(w, status) /\ wpc[w] \in {"dead_save", "perm_save"}
    BY <1>6 DEF DeadSave, PermanentSave
  <2>2. PICK new : save_workflow(task, new) /\ new = [state[w] EXCEPT !.status = status]
    BY <2>1 DEF SaveFinal, storeVars
  <2>3. status \in WorkflowStatus
    BY DEF WorkflowStatus
  <2>4. /\ new \in Checkpoint /\ new.version = state[w].version /\ new.status = status
        /\ new.pending_action = state[w].pending_action
    BY <1>3, <2>2, <2>3, StatusFields
  <2>5. wpc[w] \in CopyPC
    BY <2>1 DEF CopyPC
  <2>6. /\ workflows[task] = state[w]
        /\ workflows'[task].status = status
        /\ workflows'[task].pending_action = state[w].pending_action
    BY <1>4, <2>2, <2>4, <2>5
  <2> QED
    BY <2>1, <2>6 DEF Stopped, OpenStatus
<1>7. CASE DeadLoad(w) \/ PermanentLoad(w)
  BY <1>7 DEF DeadLoad, PermanentLoad, Reload, storeVars
<1> QED
  BY <1>2, <1>5, <1>6, <1>7 DEF SharedStep

\* A request that saves releases its task and is going to send its message, or refuses it.
Released(h, task) ==
    /\ workflows'[task].pending_action = workflows[task].pending_action
    /\ hpc'[h] \in SendPC /\ htask'[h] = task
    /\ \/ Granted(task, workflows[task])
       \/ ReplaySave(h) /\ hpc'[h] = "replay_send" /\ replays' = replays + 1

LEMMA RequestRows ==
  ASSUME AWSTypeInv, AWSCheckpointInv, AnswerGranted, NEW h \in Handlers, AWSControlStep(h),
         NEW task \in Tasks, workflows'[task] # workflows[task]
  PROVE  /\ task = htask[h]
         /\ \/ Released(h, task)
            \/ Stopped(task)' /\ workflows'[task].pending_action = NoCall
<1>1. StoreTypeOK /\ ControlTypeOK
  BY AWSTypeParts DEF AWSTypeInv
<1>2. hstate[h] \in Checkpoint /\ htask[h] \in Tasks
  BY <1>1, HandlerTypes
<1>3. ASSUME NEW new \in Checkpoint, save_workflow(htask[h], new), new.version = hstate[h].version,
             hpc[h] \in AnswerPC \cup {"replay_save"}
      PROVE  /\ task = htask[h]
             /\ workflows[task] = hstate[h]
             /\ workflows'[task].status = new.status
             /\ workflows'[task].pending_action = new.pending_action
  <2>1. Matches(hstate[h], htask[h])
    BY <1>3 DEF AWSCheckpointInv, AWSCopiesFresh, FreshCopy, Matches
  <2>2. task = htask[h] /\ workflows[task] = hstate[h] /\ workflows'[task] = Saved(new)
    BY <1>1, <1>2, <1>3, <2>1 DEF save_workflow, VersionMatches, Matches, StoreTypeOK
  <2> QED
    BY <2>2 DEF Saved, Checkpoint
<1>4. CASE ApproveSave(h) \/ ReplaySave(h)
  <2>1. PICK new : new = [hstate[h] EXCEPT !.status = "QUEUED"]
    OBVIOUS
  <2>2. /\ new \in Checkpoint /\ new.version = hstate[h].version
        /\ new.pending_action = hstate[h].pending_action
    BY <1>2, <2>1, StatusFields DEF WorkflowStatus
  <2>3. /\ save_workflow(htask[h], new)
        /\ \/ hpc[h] = "approve_save" /\ HGoto(h, "approve_enqueue")
           \/ /\ ReplaySave(h) /\ hpc[h] = "replay_save" /\ replays' = replays + 1
              /\ hpc' = [hpc EXCEPT ![h] = "replay_send"] /\ UNCHANGED htask
    BY <1>4, <2>1 DEF ApproveSave, ReplaySave, StaleRequest, storeVars
  <2>4. /\ task = htask[h] /\ workflows[task] = hstate[h]
        /\ workflows'[task].pending_action = new.pending_action
    BY <1>3, <2>2, <2>3 DEF AnswerPC
  <2>5. hpc'[h] \in SendPC /\ htask'[h] = task
    BY <1>1, <2>3, <2>4 DEF HGoto, ControlTypeOK, SendPC
  <2>6. hpc[h] = "approve_save" => Granted(task, workflows[task])
    BY <2>4 DEF AnswerGranted
  <2>7. hpc' = [hpc EXCEPT ![h] = "replay_send"] => hpc'[h] = "replay_send"
    BY <1>1 DEF ControlTypeOK
  <2> QED
    BY <2>2, <2>3, <2>4, <2>5, <2>6, <2>7 DEF Released
<1>5. CASE RejectSave(h)
  <2> DEFINE new == [hstate[h] EXCEPT !.status = "HUMAN_REJECTED", !.pending_action = NoCall]
  <2>1. new \in Checkpoint
    BY <1>2, PendingType DEF WorkflowStatus
  <2>2. /\ new.status = "HUMAN_REJECTED" /\ new.pending_action = NoCall
        /\ new.version = hstate[h].version
    BY <1>2 DEF Checkpoint
  <2>3. save_workflow(htask[h], new) /\ hpc[h] = "reject_save"
    BY <1>5 DEF RejectSave, StaleRequest, storeVars
  <2> HIDE DEF new
  <2>4. /\ task = htask[h] /\ workflows'[task].status = "HUMAN_REJECTED"
        /\ workflows'[task].pending_action = NoCall
    BY <1>3, <2>1, <2>2, <2>3 DEF AnswerPC
  <2>5. workflows'[task].status \notin OpenStatus
    BY <2>4 DEF OpenStatus
  <2> QED
    BY <2>4, <2>5 DEF Stopped
<1>6. CASE ApproveResolve(h) \/ RejectResolve(h) \/ ReplayDelete(h) \/ SendMessage(h)
  BY <1>6
  DEF ApproveResolve, RejectResolve, Resolve, resolve_approval, ReplayDelete, delete_message,
      SetMessage, OnlyQueueChanges, SendMessage, send_message, storeVars
<1>7. ASSUME NEW t \in Tasks, CreateOnAWS(h, t) PROVE UNCHANGED workflows
  BY <1>7, CreateCheckpoint
<1>8. ASSUME NEW t \in Tasks, Approve(h, t) \/ Reject(h, t) PROVE UNCHANGED workflows
  BY <1>8 DEF Approve, Reject, Open, storeVars
<1>9. ASSUME NEW i \in AnyReceipt, NEW t \in Tasks, OpenReplay(h, i, t)
      PROVE  UNCHANGED workflows
  BY <1>9 DEF OpenReplay, storeVars
<1> QED
  BY <1>4, <1>5, <1>6, <1>7, <1>8, <1>9, ControlWays DEF SharedRequest

\* Who saves in a step without a fault.
LEMMA CalmSavers ==
  ASSUME AWSTypeInv, [AWSNext]_awsVars, Faults' = 0, NEW task, workflows'[task] # workflows[task]
  PROVE  \/ \E w \in Workers : CalmRunOnce(w) /\ UNCHANGED handlerVars
         \/ \E h \in Handlers : AWSControlStep(h) /\ UNCHANGED workerVars
BY CalmSteps DEF CalmStep, Unheld, LeaseExpires, vars, storeVars

\* What was known before a step that is followed by one replay at most.
LEMMA FewReplays ==
  ASSUME AWSTypeInv, AWSCheckpointInv, [AWSNext]_awsVars, replays' <= 1
  PROVE  /\ replays <= 1
         /\ replays' = 0 => replays = 0
         /\ replays' = replays + 1 => replays = 0 /\ replays' # 0
<1>1. PICK m, n : m = replays /\ n = replays'
  OBVIOUS
<1>2. m \in Nat /\ n \in {m, m + 1} /\ n <= 1
  BY <1>1, ReplaysGrow
<1>3. m <= 1 /\ (n = 0 => m = 0) /\ (n = m + 1 => m = 0 /\ n # 0)
  BY <1>2, SMT
<1> QED
  BY <1>1, <1>3

LEMMA StraysGrow ==
  ASSUME [AWSNext]_awsVars
  PROVE  astray' = {} => astray = {}
  BY DEF AWSNext, awsVars

\* A replay that is saved and has not gone astray names a letter of its task.
LEMMA SavedMatches ==
  ASSUME AWSTypeInv, [AWSNext]_awsVars, NEW h \in Handlers, ReplaySave(h),
         hpc'[h] = "replay_send", astray' = {}
  PROVE  ~Misaddressed(h)
<1>1. hpc[h] = "replay_save" /\ letter' = letter /\ queue' = queue /\ htask' = htask
  BY AWSTypeParts
  DEF AWSTypeInv, ReplaySave, StaleRequest, Respond, save_workflow, storeVars, ControlTypeOK
<1>2. AWSNext
  BY <1>1 DEF awsVars, vars, handlerVars
<1>3. Misaddressed(h) => Misaddressed(h)'
  BY <1>1 DEF Misaddressed
<1>4. Misaddressed(h)' => letter'[h] \in astray'
  BY <1>2 DEF AWSNext, JustAstray
<1> QED
  BY <1>3, <1>4

LEMMA GrantedRowsNext ==
  ASSUME AWSTypeInv, AWSCheckpointInv, DeadLetterInv, FollowInv, AWSWayInv, [AWSNext]_awsVars,
         \A task \in Tasks : AWSSlotsBounded(task), EndedApart, AnswerGranted, GrantedRows
  PROVE  GrantedRows'
<1> SUFFICES ASSUME Faults' = 0, replays' <= 1, astray' = {}, NEW task \in Tasks,
                    ~Stopped(task)' \/ (replays' = 0 /\ ~Waiting(task)')
             PROVE  Granted(task, workflows[task])'
  BY DEF GrantedRows, RowGranted
<1>1. StoreTypeOK
  BY AWSTypeParts DEF AWSTypeInv
<1>2. /\ Faults = 0 /\ replays <= 1 /\ astray = {}
      /\ replays' = 0 => replays = 0
      /\ replays' = replays + 1 => replays = 0 /\ replays' # 0
  BY CalmBefore, FewReplays, StraysGrow
<1>3. RowGranted(task)
  BY <1>2 DEF GrantedRows
<1>4. PICK old, new : old = workflows[task] /\ new = workflows'[task]
  OBVIOUS
<1>5. old \in Checkpoint
  BY <1>1, <1>4 DEF StoreTypeOK
<1>6. ASSUME Granted(task, old), new.pending_action \in {old.pending_action, NoCall}
      PROVE  Granted(task, new)'
  BY <1>5, <1>6, AWSApprovalsForward, GrantStays
<1>7. Granted(task, new)'
  <2>1. CASE new = old
    <3>1. (Stopped(task)' <=> Stopped(task)) /\ (Waiting(task)' <=> Waiting(task))
      BY <1>4, <2>1 DEF Stopped, Waiting
    <3>2. Granted(task, old)
      BY <1>2, <1>3, <1>4, <3>1 DEF RowGranted
    <3> QED
      BY <1>6, <2>1, <3>2
  <2>2. ASSUME new # old, NEW w \in Workers, CalmRunOnce(w)
        PROVE  Granted(task, new)'
    <3>1. task = Task(w)
      BY <1>4, <2>2, SaverDrives
    <3>2. \/ Waiting(task)'
          \/ ~Stopped(task) /\ new.pending_action \in {old.pending_action, NoCall}
          \/ /\ wpc[w] \in {"dead_save", "perm_save"}
             /\ new.pending_action = old.pending_action /\ Stopped(task)'
      BY <1>4, <2>2, <3>1, WorkerRows DEF AWSWayInv
    <3>3. ~Waiting(task)'
      BY DEF Stopped, Waiting, OpenStatus
    <3>4. CASE ~Stopped(task) /\ new.pending_action \in {old.pending_action, NoCall}
      BY <1>3, <1>4, <1>6, <3>4 DEF RowGranted
    <3>5. CASE /\ wpc[w] \in {"dead_save", "perm_save"}
               /\ new.pending_action = old.pending_action /\ Stopped(task)'
      <4>1. replays = 0
        BY <1>2, <3>5
      <4>2. ~Waiting(task)
        BY <1>2, <3>1, <3>5, <4>1, FinalNotWaiting
      <4> QED
        BY <1>3, <1>4, <1>6, <3>5, <4>1, <4>2 DEF RowGranted
    <3> QED
      BY <3>2, <3>3, <3>4, <3>5
  <2>3. ASSUME new # old, NEW h \in Handlers, AWSControlStep(h)
        PROVE  Granted(task, new)'
    <3>1. task = htask[h] /\ (Released(h, task) \/ new.pending_action = NoCall)
      BY <1>4, <2>3, RequestRows
    <3>2. CASE new.pending_action = NoCall
      BY <3>2 DEF Granted
    <3>3. CASE Released(h, task) /\ Granted(task, old)
      BY <1>4, <1>6, <3>3 DEF Released
    <3>4. CASE /\ Released(h, task) /\ ReplaySave(h) /\ hpc'[h] = "replay_send"
               /\ replays' = replays + 1
      <4>1. replays = 0
        BY <1>2, <3>4
      <4>2. letter[h] \in DeadMessages /\ queue[letter[h]].task_id = task
        <5>1. ~Misaddressed(h)
          BY <3>4, SavedMatches
        <5>2. hpc[h] \in ReplayPC
          BY <3>4 DEF ReplaySave, ReplayPC
        <5>3. letter[h] \in letters
          BY <5>1, <5>2, AWSTypeParts
          DEF AWSTypeInv, LetterType, LetterInHand, AnyReceipt, Misaddressed
        <5> QED
          BY <3>1, <4>1, <5>1, <5>3 DEF DeadLetterInv, Misaddressed
      <4>3. ~Waiting(task)
        BY <1>2, <4>1, <4>2, LetterNotWaiting DEF HasLetter
      <4> QED
        BY <1>3, <1>4, <1>6, <3>4, <4>1, <4>3 DEF RowGranted, Released
    <3> QED
      BY <1>4, <3>1, <3>2, <3>3, <3>4 DEF Released
  <2> QED
    BY <1>4, <2>1, <2>2, <2>3, CalmSavers
<1> QED
  BY <1>4, <1>7 DEF Granted, IsApproved

-----------------------------------------------------------------------------
(* Nobody's work is lost *)

\* Somebody goes on with the task: whoever receives its message, or whoever sends one.
Driven(task) ==
    \/ Offered(task)
    \/ \E w \in Workers : Task(w) = task /\ Driving(w)
    \/ \E h \in Handlers : SendSlot(task, h)

AWSDriven ==
    Faults = 0 /\ replays <= 1 /\ astray = {} =>
        \A task \in created : ~Stopped(task) => Driven(task)

LEMMA DrivingStays ==
  ASSUME AWSTypeInv, ApprovalsForward, NEW v \in Workers, Driving(v),
         wpc'[v] = wpc[v], delivery'[v] = delivery[v], state'[v] = state[v],
         workflows'[Task(v)] = workflows[Task(v)]
  PROVE  Task(v)' = Task(v) /\ Driving(v)'
<1>1. StoreTypeOK /\ LocalTypeOK /\ wpc[v] # "idle"
  BY AWSTypeParts DEF AWSTypeInv, Driving
<1>2. PICK task, copy : task = Task(v) /\ copy = state[v]
  OBVIOUS
<1>3. task \in Tasks /\ copy \in Checkpoint
  BY <1>1, <1>2, HeldTypes DEF Busy
<1>4. Task(v)' = task /\ state'[v] = copy
  BY <1>2 DEF Task
<1>5. Granted(task, copy) => Granted(task, copy)'
  BY <1>3, GrantStays
<1>6. wpc[v] = "approval" => Granted(Task(v), state[v])'
  <2>1. wpc[v] = "approval" => Granted(task, copy)'
    BY <1>2, <1>5 DEF Driving
  <2> QED
    BY <1>4, <2>1 DEF Granted, IsApproved
<1>7. wpc[v] \in {"dead_save", "perm_save"} => VersionMatches(Task(v), state[v])'
  BY <1>2, <1>4 DEF Driving, VersionMatches
<1>8. /\ wpc'[v] \notin {"idle", "create_approval"}
      /\ wpc'[v] = "ack" => state'[v].status = "QUEUED"
  BY DEF Driving
<1> QED
  BY <1>2, <1>4, <1>6, <1>7, <1>8 DEF Driving

LEMMA CalmOthersKeep ==
  ASSUME AWSTypeInv, NEW w \in Workers, CalmRunOnce(w)
  PROVE  OthersKeep(w)
<1>1. StoreTypeOK /\ LocalTypeOK
  BY AWSTypeParts DEF AWSTypeInv
<1>2. CASE SharedStep(w)
  BY <1>1, <1>2, SharedRunOnce, RunOnceOthersKeep
<1>3. ASSUME NEW i \in DOMAIN queue, ReceiveMessage(w, i) PROVE OthersKeep(w)
  BY <1>1, <1>3, ReceiveStepType
<1>4. ASSUME NEW pc, DeleteReceipt(w, pc) PROVE OthersKeep(w)
  BY <1>1, <1>4 DEF DeleteReceipt, Finish, LeaveProcess, Goto, OthersKeep, LocalTypeOK
<1>5. CASE DeleteThenSend(w)
  BY <1>1, <1>4, <1>5 DEF DeleteThenSend, Finish, Goto, OthersKeep, LocalTypeOK
<1>6. CASE RetryMessage(w)
  BY <1>1, <1>6 DEF RetryMessage, Finish, Goto, OthersKeep, LocalTypeOK
<1>7. CASE DeadLetter(w)
  BY <1>1, <1>4, <1>7 DEF DeadLetter, LeaveProcess, Goto, OthersKeep, LocalTypeOK
<1> QED
  BY <1>2, <1>3, <1>4, <1>5, <1>6, <1>7 DEF CalmRunOnce

\* A message stays on offer, or the worker has it.
LEMMA OfferTaken ==
  ASSUME NEW w \in Workers, HoldStep(w), wpc[w] \in AWSKeepPC => HoldsAlone(w),
         NEW task, Offered(task)
  PROVE  Offered(task)' \/ (Task(w)' = task /\ Driving(w)')
<1>1. PICK i \in DOMAIN queue : queue[i].task_id = task /\ queue[i].status = "PENDING"
  BY DEF Offered
<1>2. CASE i \in DOMAIN queue' /\ queue'[i] = queue[i]
  BY <1>1, <1>2 DEF Offered
<1>3. CASE wpc[w] \in AWSKeepPC /\ OnlyRow(delivery[w].id)
  <2>1. i # delivery[w].id
    BY <1>1, <1>3 DEF HoldsAlone
  <2> QED
    BY <1>2, <1>3, <2>1 DEF OnlyRow, SameDomain
<1>4. ASSUME NEW j \in DOMAIN queue, OnlyRow(j),
             wpc'[w] = "load", delivery'[w].task_id = queue[j].task_id
      PROVE  Offered(task)' \/ (Task(w)' = task /\ Driving(w)')
  <2>1. CASE i = j
    BY <1>1, <1>4, <2>1 DEF Task, Driving
  <2>2. CASE i # j
    BY <1>2, <1>4, <2>2 DEF OnlyRow, SameDomain
  <2> QED
    BY <2>1, <2>2
<1> QED
  BY <1>2, <1>3, <1>4 DEF HoldStep

LEMMA WorkerDriven ==
  ASSUME AWSTypeInv, HeldRowTask, ApprovalsForward, NEW w \in Workers, CalmRunOnce(w),
         UNCHANGED handlerVars, wpc[w] \in AWSKeepPC => HoldsAlone(w),
         NEW task \in Tasks, RowGranted(task), ~Stopped(task) => Driven(task), ~Stopped(task)'
  PROVE  Driven(task)'
<1>1. CASE task = Task(w) /\ Driving(w)
  <2>1. Stopped(Task(w)) \/ Granted(Task(w), workflows[Task(w)])
    BY <1>1 DEF RowGranted
  <2>2. Drives(w)
    BY <1>1, <2>1, CalmDrives
  <2>3. CASE delivery'[w] = delivery[w] /\ Driving(w)'
    BY <1>1, <2>3 DEF Task, Driven
  <2>4. CASE \E i \in DOMAIN queue' : queue'[i].task_id = Task(w) /\ queue'[i].status = "PENDING"
    BY <1>1, <2>4 DEF Offered, Driven
  <2>5. CASE workflows'[Task(w)].status \notin OpenStatus
    BY <1>1, <2>5 DEF Stopped
  <2> QED
    BY <2>2, <2>3, <2>4, <2>5 DEF Drives
<1>2. CASE ~(task = Task(w) /\ Driving(w))
  <2>1. workflows'[task] = workflows[task]
    BY <1>2, SaverDrives
  <2>2. Driven(task)
    BY <2>1 DEF Stopped
  <2>3. CASE Offered(task)
    BY <2>3, CalmHolds, OfferTaken DEF Driven
  <2>4. ASSUME NEW v \in Workers, Task(v) = task, Driving(v) PROVE Driven(task)'
    <3>1. v # w
      BY <1>2, <2>4
    <3>2. wpc'[v] = wpc[v] /\ delivery'[v] = delivery[v] /\ state'[v] = state[v]
      BY <3>1, CalmOthersKeep DEF OthersKeep
    <3>3. Task(v)' = task /\ Driving(v)'
      BY <2>1, <2>4, <3>2, DrivingStays
    <3> QED
      BY <3>3 DEF Driven
  <2>5. ASSUME NEW h \in Handlers, SendSlot(task, h) PROVE Driven(task)'
    BY <2>5 DEF SendSlot, handlerVars, Driven
  <2> QED
    BY <2>2, <2>3, <2>4, <2>5 DEF Driven
<1> QED
  BY <1>1, <1>2

\* Where a request stands that it is not the turn of, or that has yet to send its message.
LEMMA SenderStays ==
  ASSUME AWSTypeInv, NEW h \in Handlers, AWSControlStep(h), NEW g \in Handlers, NEW task \in Tasks,
         SendSlot(task, g)
  PROVE  SendSlot(task, g)' \/ Offered(task)'
<1>1. StoreTypeOK /\ ControlTypeOK
  BY AWSTypeParts DEF AWSTypeInv
<1>2. CASE SendMessage(h) /\ g = h
  <2>1. queue' = Append(queue, NewRow(task)) /\ OnlyQueueChanges
    BY <1>2 DEF SendMessage, send_message, SendSlot
  <2>2. NewRow(task) \in QueueRow /\ NewRow(task).task_id = task /\ NewRow(task).status = "PENDING"
    BY NewRowType DEF NewRow
  <2>3. Len(queue) + 1 \in DOMAIN queue' /\ queue'[Len(queue) + 1] = NewRow(task)
    BY <1>1, <2>1, <2>2, AppendMessageType
  <2> QED
    BY <2>2, <2>3 DEF Offered
<1>3. CASE SharedRequest(h) \/ ReplaySave(h) \/ ReplayDelete(h)
  BY <1>1, <1>3
  DEF SharedRequest, ApproveResolve, ApproveSave, RejectResolve, RejectSave, Resolve,
      ReplaySave, ReplayDelete, StaleRequest, HGoto, Respond, ControlTypeOK, SendSlot, SendPC
<1>4. CASE SendMessage(h) /\ g # h
  BY <1>1, <1>4 DEF SendMessage, HGoto, Respond, ControlTypeOK, SendSlot
<1>5. ASSUME NEW t \in Tasks, CreateOnAWS(h, t) \/ Approve(h, t) \/ Reject(h, t)
      PROVE  SendSlot(task, g)'
  BY <1>1, <1>5 DEF CreateOnAWS, Approve, Reject, Open, ControlTypeOK, SendSlot, SendPC
<1>6. ASSUME NEW i \in AnyReceipt, NEW t \in Tasks, OpenReplay(h, i, t)
      PROVE  SendSlot(task, g)'
  BY <1>1, <1>6 DEF OpenReplay, ControlTypeOK, SendSlot, SendPC
<1> QED
  BY <1>2, <1>3, <1>4, <1>5, <1>6, ControlWays

LEMMA RequestDriven ==
  ASSUME AWSTypeInv, AWSCheckpointInv, AnswerGranted, ApprovalsForward, NEW h \in Handlers,
         AWSControlStep(h), UNCHANGED workerVars,
         NEW task \in Tasks, ~Stopped(task) => Driven(task), ~Stopped(task)'
  PROVE  Driven(task)'
<1>1. CASE workflows'[task] # workflows[task]
  BY <1>1, RequestRows DEF Released, SendSlot, Driven
<1>2. CASE workflows'[task] = workflows[task]
  <2>1. Driven(task)
    BY <1>2 DEF Stopped
  <2>2. CASE Offered(task)
    <3>1. PICK i \in DOMAIN queue : queue[i].task_id = task /\ queue[i].status = "PENDING"
      BY <2>2 DEF Offered
    <3>2. i \notin letters
      BY <3>1 DEF AWSTypeInv, LettersApart
    <3>3. i \in DOMAIN queue' /\ queue'[i] = queue[i]
      BY <3>1, <3>2, RequestMessages
    <3> QED
      BY <3>1, <3>3 DEF Offered, Driven
  <2>3. ASSUME NEW v \in Workers, Task(v) = task, Driving(v) PROVE Driven(task)'
    <3>1. wpc'[v] = wpc[v] /\ delivery'[v] = delivery[v] /\ state'[v] = state[v]
      BY DEF workerVars, runtimeVars, localVars
    <3>2. Task(v)' = task /\ Driving(v)'
      BY <1>2, <2>3, <3>1, DrivingStays
    <3> QED
      BY <3>2 DEF Driven
  <2>4. ASSUME NEW g \in Handlers, SendSlot(task, g) PROVE Driven(task)'
    BY <2>4, SenderStays DEF Driven
  <2> QED
    BY <2>1, <2>2, <2>3, <2>4 DEF Driven
<1> QED
  BY <1>1, <1>2

\* The passing of a lease that nobody holds, and a step of nobody.
LEMMA QuietDriven ==
  ASSUME AWSTypeInv, UNCHANGED <<workflows, approvals, workerVars, handlerVars>>,
         \A i \in DOMAIN queue : queue[i].status = "PENDING" =>
            i \in DOMAIN queue' /\ queue'[i] = queue[i],
         NEW task, ~Stopped(task) => Driven(task), ~Stopped(task)'
  PROVE  Driven(task)'
<1>1. Driven(task)
  BY DEF Stopped
<1>2. CASE Offered(task)
  BY <1>2 DEF Offered, Driven
<1>3. ASSUME NEW v \in Workers, Task(v) = task, Driving(v) PROVE Driven(task)'
  <2>1. ApprovalsForward
    BY DEF ApprovalsForward
  <2>2. wpc'[v] = wpc[v] /\ delivery'[v] = delivery[v] /\ state'[v] = state[v]
    BY DEF workerVars, runtimeVars, localVars
  <2>3. Task(v)' = task /\ Driving(v)'
    BY <1>3, <2>1, <2>2, DrivingStays
  <2> QED
    BY <2>3 DEF Driven
<1>4. ASSUME NEW g \in Handlers, SendSlot(task, g) PROVE Driven(task)'
  BY <1>4 DEF SendSlot, handlerVars, Driven
<1> QED
  BY <1>1, <1>2, <1>3, <1>4 DEF Driven

\* A workflow that is new is created by a request, which is about to send its message.
LEMMA NewlyDriven ==
  ASSUME AWSTypeInv, AWSCheckpointInv, [AWSNext]_awsVars, NEW task \in created', task \notin created
  PROVE  Driven(task)'
<1>1. StoreTypeOK /\ ControlTypeOK
  BY AWSTypeParts DEF AWSTypeInv
<1>2. PICK h \in Handlers : CreateOnAWS(h, task)
  BY AWSCreates DEF CreateOnAWS, put_workflow
<1> QED
  BY <1>1, <1>2 DEF CreateOnAWS, ControlTypeOK, SendSlot, SendPC, Driven

LEMMA AWSDrivenNext ==
  ASSUME AWSTypeInv, AWSCheckpointInv, AWSWayInv, [AWSNext]_awsVars, HeldAlone, AnswerGranted,
         GrantedRows, AWSDriven
  PROVE  AWSDriven'
<1> SUFFICES ASSUME Faults' = 0, replays' <= 1, astray' = {},
                    NEW task \in created', ~Stopped(task)'
             PROVE  Driven(task)'
  BY DEF AWSDriven
<1>1. /\ Faults = 0 /\ replays <= 1 /\ astray = {} /\ StoreTypeOK /\ ApprovalsForward /\ HeldRowTask
      /\ \A w \in Workers : wpc[w] \in AWSKeepPC => HoldsAlone(w)
  BY CalmBefore, FewReplays, StraysGrow, AWSTypeParts, AWSApprovalsForward
  DEF AWSTypeInv, AWSWayInv, HeldAlone
<1>2. CASE task \in created
  <2>1. /\ task \in Tasks /\ RowGranted(task)
        /\ ~Stopped(task) => Driven(task)
    BY <1>1, <1>2 DEF StoreTypeOK, GrantedRows, AWSDriven
  <2>2. ASSUME NEW w \in Workers, CalmRunOnce(w), UNCHANGED handlerVars PROVE Driven(task)'
    BY <1>1, <2>1, <2>2, WorkerDriven
  <2>3. ASSUME NEW i \in DOMAIN queue, Unheld(i), UNCHANGED handlerVars PROVE Driven(task)'
    <3>1. \A j \in DOMAIN queue : queue[j].status = "PENDING" =>
             j \in DOMAIN queue' /\ queue'[j] = queue[j]
      BY <1>1, <2>3, ExpiredRow DEF Unheld, OnlyRow, SameDomain
    <3>2. UNCHANGED <<workflows, approvals, workerVars, handlerVars>>
      BY <2>3 DEF Unheld, LeaseExpires, workerVars
    <3> QED
      BY <2>1, <3>1, <3>2, QuietDriven
  <2>4. ASSUME NEW h \in Handlers, AWSControlStep(h), UNCHANGED workerVars PROVE Driven(task)'
    BY <1>1, <2>1, <2>4, RequestDriven
  <2>5. CASE UNCHANGED vars
    BY <2>1, <2>5, QuietDriven DEF vars, storeVars
  <2> QED
    BY <2>2, <2>3, <2>4, <2>5, CalmSteps DEF CalmStep
<1>3. CASE task \notin created
  BY <1>3, NewlyDriven
<1> QED
  BY <1>2, <1>3

\* What is driven is carried.
LEMMA DrivenCarried ==
  ASSUME NEW task, Driven(task)
  PROVE  CarriedOnAWS(task)
<1>1. CASE Offered(task)
  BY <1>1 DEF Offered, CarriedOnAWS, Carried, ActiveRows, Active
<1>2. ASSUME NEW w \in Workers, Task(w) = task, Driving(w) PROVE CarriedOnAWS(task)
  BY <1>2 DEF Driving, CarriedOnAWS, Carried
<1>3. ASSUME NEW h \in Handlers, SendSlot(task, h) PROVE CarriedOnAWS(task)
  BY <1>3 DEF SendSlot, SendPC, CarriedOnAWS
<1> QED
  BY <1>1, <1>2, <1>3 DEF Driven

-----------------------------------------------------------------------------
(* The theorem about work *)

AWSWorkInv ==
    /\ \A task \in Tasks : AWSSlotsBounded(task)
    /\ HeldAlone
    /\ AnswerGranted
    /\ EndedApart
    /\ GrantedRows
    /\ AWSDriven

LEMMA AWSWorkInvInit == AWSInit => AWSWorkInv
<1> SUFFICES ASSUME AWSInit PROVE AWSWorkInv
  OBVIOUS
<1>1. DOMAIN queue = {} /\ created = {}
  BY DEF AWSInit, Init, StoreInit
<1>2. /\ \A w \in Workers : wpc[w] = "idle"
      /\ \A h \in Handlers : hpc[h] = "idle"
      /\ \A task \in Tasks : workflows[task].pending_action = NoCall /\ ~Waiting(task)
  BY DEF AWSInit, Init, StoreInit, WorkerInit, RuntimeInit, ControlInit, NewWorkflow, Waiting
<1>3. ASSUME NEW task \in Tasks PROVE AWSSlotsBounded(task)
  <2>1. AWSSlots(task, NoCall) = {}
    BY <1>1, <1>2 DEF AWSSlots, WorkerSlot, SlotPC, RuntimePC, SendSlot, SendPC
  <2>2. IsFiniteSet({}) /\ Cardinality({}) = 0
    BY FS_EmptySet
  <2>3. crashes = 0 /\ stalls = 0 /\ errors = 0 /\ replays = 0
    BY DEF AWSInit, Init, WorkerInit, RuntimeInit, ControlInit
  <2>4. Paid = 0
    BY <2>3, SMT DEF Paid, Charge, Faults
  <2>5. 0 <= 1 + 0
    BY SMT
  <2> QED
    BY <2>1, <2>2, <2>4, <2>5 DEF AWSSlotsBounded
<1>4. HeldAlone /\ AnswerGranted /\ EndedApart /\ GrantedRows /\ AWSDriven
  BY <1>1, <1>2
  DEF HeldAlone, AWSKeepPC, KeepPC, RuntimePC, AnswerGranted, EndedApart, PermPC, GrantedRows,
      RowGranted, Granted, AWSDriven
<1> QED
  BY <1>3, <1>4 DEF AWSWorkInv

LEMMA AWSWorkInvNext ==
  ASSUME AWSTypeInv, AWSCheckpointInv, DeadLetterInv, FollowInv, AWSWayInv, AWSWorkInv,
         [AWSNext]_awsVars
  PROVE  AWSWorkInv'
<1>1. /\ \A task \in Tasks : AWSSlotsBounded(task)
      /\ HeldAlone /\ AnswerGranted /\ EndedApart /\ GrantedRows /\ AWSDriven
  BY DEF AWSWorkInv
<1>2. \A task \in Tasks : AWSSlotsBounded(task)'
  BY <1>1, AWSSlotsBoundedNext
<1>3. HeldAlone' /\ AnswerGranted' /\ EndedApart' /\ GrantedRows' /\ AWSDriven'
  BY <1>1, HeldAloneNext, AnswerGrantedNext, EndedApartNext, GrantedRowsNext, AWSDrivenNext
<1> QED
  BY <1>2, <1>3 DEF AWSWorkInv

\* As long as no call of the store fails and nothing crashes or is delivered twice, and with
\* one replay at most, of a letter of the incident it names, no unfinished incident is ever
\* without somebody who goes on with it: run_once deletes a message after process() has
\* saved, approve() and the replay save before they send, and each way out of run_once
\* sends a message, shows one again or ends the incident.
THEOREM AWSNoWorkLost == AWSSpec => []AWSWorkNotLost
<1>1. /\ AWSTypeInv /\ AWSCheckpointInv /\ DeadLetterInv /\ FollowInv /\ AWSWayInv /\ AWSWorkInv
      /\ [AWSNext]_awsVars
      => AWSWorkInv'
  BY AWSWorkInvNext
<1>2. AWSTypeInv /\ AWSCheckpointInv /\ DeadLetterInv /\ [AWSNext]_awsVars => DeadLetterInv'
  BY DeadLetterNext
<1>3. AWSTypeInv /\ FollowInv /\ [AWSNext]_awsVars => FollowInv'
  BY FollowNext
<1>4. AWSSlotInv => AWSWayInv
  BY DEF AWSSlotInv
<1>5. AWSWorkInv => AWSWorkNotLost
  <2> SUFFICES ASSUME AWSDriven, Faults = 0, replays <= 1, astray = {}, NEW task \in created,
                      workflows[task].status \in {"QUEUED", "RUNNING"}
               PROVE  CarriedOnAWS(task)
    BY DEF AWSWorkInv, AWSWorkNotLost
  <2>1. ~Stopped(task)
    BY DEF Stopped, OpenStatus
  <2>2. Driven(task)
    BY <2>1 DEF AWSDriven
  <2> QED
    BY <2>2, DrivenCarried
<1> QED
  BY <1>1, <1>2, <1>3, <1>4, <1>5, AWSWorkInvInit, DeadLetterInit, FollowInit, AWSTypeInvHolds,
     AWSCopiesStayFresh, AWSSlotInvHolds, PTL DEF AWSSpec
=============================================================================
