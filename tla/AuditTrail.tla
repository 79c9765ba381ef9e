------------------------------ MODULE AuditTrail ------------------------------
(***************************************************************************)
(* The append-only events table beside the runtime, and the stream of an   *)
(* incident the API serves from it.  A process saves a checkpoint in one   *)
(* transaction and records what it did in a second one, so between the two *)
(* it owes an event and does nothing else; if it dies the event is lost.   *)
(* Only create_workflow and replay_dead_letter write both at once.         *)
(*                                                                         *)
(* The events kept are those that follow a change of a workflow; the ones  *)
(* that announce or explain a step (AGENT_DECISION_STARTED,                *)
(* AGENT_DECISION, POLICY_DENIED, APPROVED_ACTION_RESUMED,                 *)
(* CHAOS_PAUSE_STARTED, QUEUE_LEASE_EXTENDED) are left out.  An event that *)
(* does not end the workflow keeps the call it is about: the rows of       *)
(* TOOL_COMPLETED and TOOL_RETRYABLE_FAILURE name its tool, that of        *)
(* APPROVAL_REQUIRED is the action; the row of APPROVAL_GRANTED names the  *)
(* actor only, so there the model knows more than a reader of the table.   *)
(***************************************************************************)
EXTENDS Implementation

VARIABLES
    events,         \* the events of each task, in the order of their ids
    owed,           \* the event each process still has to record, <<task, event>>
    stream          \* one subscriber to the stream of an incident

auditVars == <<vars, events, owed, stream>>

Processes == Workers \cup Handlers

NoEvent == <<>>

EventType == {"WORKFLOW_CREATED", "MODEL_RETRYABLE_FAILURE", "TOOL_RETRYABLE_FAILURE",
              "TOOL_COMPLETED", "LOOP_DETECTED", "WORKFLOW_COMPLETED", "WORKFLOW_FAILED",
              "DEAD_LETTERED", "APPROVAL_REQUIRED", "APPROVAL_GRANTED",
              "APPROVAL_REJECTED", "DLQ_REPLAYED"}

Event == [type : EventType, call : Calls \cup {NoCall}]

About(type, c) == [type |-> type, call |-> c]

CreatedEvent == About("WORKFLOW_CREATED", NoCall)
ReplayedEvent == About("DLQ_REPLAYED", NoCall)

\* The type of the event of each outcome.
Outcome == [COMPLETED |-> "WORKFLOW_COMPLETED", FAILED |-> "WORKFLOW_FAILED",
            LOOP_STOPPED |-> "LOOP_DETECTED", DEAD_LETTERED |-> "DEAD_LETTERED",
            HUMAN_REJECTED |-> "APPROVAL_REJECTED"]

\* Definitions named Mutant... are not the code: each is a bug the definition after
\* it could have.
\* The error paths of run_once record nothing.
MutantSilent(w) ==
    \/ wpc[w] \in {"dead_save", "perm_save", "pend"}
    \/ wpc[w] # "create_approval" /\ workflows'[Task(w)] = workflows[Task(w)]
    \/ workflows'[Task(w)].status = "RUNNING"

\* Worker w changes nothing, or something no event follows.
Silent(w) ==
    \/ wpc[w] = "pend"
    \/ wpc[w] # "create_approval" /\ workflows'[Task(w)] = workflows[Task(w)]
    \/ workflows'[Task(w)].status = "RUNNING"

\* Its type when the step does not end the workflow, by where the worker stands.
PlaceEvent == [create_approval |-> "APPROVAL_REQUIRED", record |-> "TOOL_COMPLETED",
               decide |-> "MODEL_RETRYABLE_FAILURE", backend |-> "TOOL_RETRYABLE_FAILURE"]

\* The event of the step worker w takes: by the outcome it saves, or where it stands.
WorkerEvent(w) ==
    LET status == workflows'[Task(w)].status
        event == IF wpc[w] # "create_approval" /\ status \in TerminalStatus
                 THEN About(Outcome[status], NoCall) ELSE About(PlaceEvent[wpc[w]], call[w])
    IN  IF Silent(w) THEN NoEvent ELSE <<Task(w), event>>

\* The answer of a human to the request h serves.
GrantedEvent(h) == <<htask[h], About("APPROVAL_GRANTED", hstate[h].pending_action)>>
RejectedEvent(h) == <<htask[h], About("APPROVAL_REJECTED", NoCall)>>

\* The approval is recorded after the workflow is in the queue again.
MutantHandlerEventLate(h) ==
    CASE hpc[h] = "approve_enqueue" -> GrantedEvent(h)
      [] hpc[h] = "reject_save" /\ workflows' # workflows -> RejectedEvent(h)
      [] OTHER -> NoEvent

\* The status of the approval is taken for its event.
MutantHandlerEventStatus(h) ==
    IF workflows' = workflows THEN NoEvent
    ELSE <<htask[h], About(approvals[PendingKey(h)], NoCall)>>

HandlerEvent(h) ==
    CASE hpc[h] = "approve_save" /\ workflows' # workflows -> GrantedEvent(h)
      [] hpc[h] = "reject_save" /\ workflows' # workflows -> RejectedEvent(h)
      [] OTHER -> NoEvent

Free(p) == owed[p] = NoEvent
Owe(p, event) == owed' = [owed EXCEPT ![p] = event]
Record(task, event) == events' = [events EXCEPT ![task] = Append(@, event)]

AuditTypeOK ==
    /\ TypeOK
    /\ events \in [Tasks -> Seq(Event)]
    /\ owed \in [Processes -> {NoEvent} \cup Tasks \X Event]
    /\ stream.pc \in {"closed", "state", "events", "ended"}
    /\ {stream.read, stream.sent} \subseteq [version : Nat, status : WorkflowStatus, events : Nat]

-----------------------------------------------------------------------------
(* The processes *)

\* A process takes a step of its own only when it owes nothing.
WorkerStep(w) ==
    /\ Free(w)
    /\ RunOnceStep(w)
    /\ Owe(w, WorkerEvent(w))
    /\ UNCHANGED <<handlerVars, events, stream>>

RequestStep(h) ==
    /\ Free(h)
    /\ \/ HandlerStep(h)
       \/ \E task \in Tasks : Approve(h, task) \/ Reject(h, task)
    /\ Owe(h, HandlerEvent(h))
    /\ UNCHANGED <<workerVars, events, stream>>

\* record_event: one INSERT.
RecordEvent(p) ==
    /\ ~Free(p)
    /\ Record(owed[p][1], owed[p][2])
    /\ Owe(p, NoEvent)
    /\ UNCHANGED <<vars, stream>>

\* Whoever dies between its save and its event leaves no event.
Dies(p) ==
    /\ \/ p \in Workers /\ WorkerCrash(p) /\ UNCHANGED handlerVars
       \/ p \in Handlers /\ HandlerCrash(p)
       \/ /\ ~Free(p) /\ crashes < MaxCrashes
          /\ IF p \in Workers THEN wpc[p] = "idle" ELSE hpc[p] = "idle"
          /\ crashes' = crashes + 1
          /\ UNCHANGED <<storeVars, runtimeVars, stalls, handlerVars>>
    /\ Owe(p, NoEvent)
    /\ UNCHANGED <<events, stream>>

\* Opening an incident and replaying a dead letter write their event in the transaction.
OperatorStep ==
    /\ \/ \E task \in Tasks : CreateIncident(task) /\ Record(task, CreatedEvent)
       \/ \E id \in DOMAIN queue :
            ReplayDeadLetter(id) /\ Record(queue[id].task_id, ReplayedEvent)
    /\ UNCHANGED <<workerVars, owed, stream>>

LeaseStep ==
    /\ \/ \E w \in Workers : Free(w) /\ Heartbeat(w)
       \/ \E i \in DOMAIN queue : LeaseExpires(i)
    /\ UNCHANGED <<handlerVars, events, owed, stream>>

-----------------------------------------------------------------------------
(* The stream of one incident: stream_incident reads the state, then the events *)

Nothing == [version |-> 0, status |-> "QUEUED", events |-> 0]

Subscribe ==
    /\ stream.pc = "closed"
    /\ SomeTask \in created
    /\ stream' = [stream EXCEPT !.pc = "state"]
    /\ UNCHANGED <<vars, events, owed>>

ReadState ==
    /\ stream.pc = "state"
    /\ stream' = [stream EXCEPT !.pc = "events",
                    !.read = [@ EXCEPT !.version = workflows[SomeTask].version,
                                       !.status = workflows[SomeTask].status]]
    /\ UNCHANGED <<vars, events, owed>>

\* Only new events make a new snapshot.
MutantFingerprint(snapshot) == snapshot.events

Fingerprint(snapshot) == <<snapshot.version, snapshot.events>>

\* A snapshot that differs from the last one is sent; a terminal one ends the stream.
ReadEvents ==
    LET snapshot == [stream.read EXCEPT !.events = Len(events[SomeTask])]
    IN  /\ stream.pc = "events"
        /\ stream' = [pc |-> IF snapshot.status \in TerminalStatus THEN "ended" ELSE "state",
                      read |-> Nothing,
                      sent |-> IF Fingerprint(snapshot) # Fingerprint(stream.sent)
                               THEN snapshot ELSE stream.sent]
        /\ UNCHANGED <<vars, events, owed>>

-----------------------------------------------------------------------------

AuditInit ==
    /\ Init
    /\ events = [task \in Tasks |-> <<>>]
    /\ owed = [p \in Processes |-> NoEvent]
    /\ stream = [pc |-> "closed", read |-> Nothing, sent |-> Nothing]

AuditNext ==
    \/ \E w \in Workers : WorkerStep(w)
    \/ \E h \in Handlers : RequestStep(h)
    \/ \E p \in Processes : RecordEvent(p) \/ Dies(p)
    \/ OperatorStep
    \/ LeaseStep
    \/ Subscribe \/ ReadState \/ ReadEvents

AuditSpec == AuditInit /\ [][AuditNext]_auditVars

-----------------------------------------------------------------------------
(* What the audit trail and the stream promise *)

\* The events since the incident was last (re)opened.
Current(trail) ==
    LET opened == {i \in DOMAIN trail : trail[i] \in {CreatedEvent, ReplayedEvent}}
    IN  {trail[i] : i \in {j \in DOMAIN trail : \A o \in opened : o <= j}}

\* Every outcome is audited: as long as no process dies, an incident that is over has
\* the event of its outcome since it was last opened, or the process that ended it is
\* about to record it (save_workflow and record_event in process, run_once, reject).
OutcomesAudited ==
    crashes = 0 =>
        \A task \in Tasks :
            terminal(workflows[task]) =>
                LET outcome == About(Outcome[workflows[task].status], NoCall)
                IN  \/ outcome \in Current(events[task])
                    \/ \E p \in Processes : owed[p] = <<task, outcome>>

\* The trail never shows a guarded action done before somebody approved that action:
\* approve() records the approval before it lets a worker have the incident, whatever
\* else the agent asked for in between.
ApprovalPrecedesAction ==
    crashes + stalls = 0 =>
        \A task \in Tasks : \A i \in DOMAIN events[task] :
            LET done == events[task][i]
            IN  done.type = "TOOL_COMPLETED" /\ ApprovalRequired(done.call) =>
                    \E j \in 1 .. i - 1 :
                        events[task][j] = About("APPROVAL_GRANTED", done.call)

\* A stream that ends has sent the state it ends for, although it compares versions and
\* numbers of events of two reads (stream_incident).
StreamEndsWithOutcome ==
    stream.pc = "ended" => stream.sent.status \in TerminalStatus
=============================================================================
