--------------------------- MODULE AgentResilience ---------------------------
(***************************************************************************)
(* The runtime as it is deployed on one SQLite store: any number of        *)
(* DurableWorker processes and API handlers, an agent that may decide      *)
(* anything, tools that may fail in any way, humans who may approve or     *)
(* reject at any time, operators who replay dead letters, processes that   *)
(* die and leases that pass.                                               *)
(***************************************************************************)
EXTENDS DurableWorker, ControlPlane, SequencesExt

vars == <<storeVars, workerVars, handlerVars>>

\* A handler dies in the middle of a request.
HandlerCrash(h) ==
    /\ hpc[h] # "idle"
    /\ crashes < MaxCrashes
    /\ crashes' = crashes + 1
    /\ Respond(h)
    /\ UNCHANGED <<storeVars, runtimeVars, stalls>>

Init == StoreInit /\ WorkerInit /\ ControlInit

WorkerNext ==
    \/ \E w \in Workers : RunOnceStep(w) \/ Heartbeat(w) \/ WorkerCrash(w)
    \/ \E i \in DOMAIN queue : LeaseExpires(i)

Next ==
    \/ WorkerNext /\ UNCHANGED handlerVars
    \/ ControlStep /\ UNCHANGED workerVars
    \/ \E h \in Handlers : HandlerCrash(h)

Spec == Init /\ [][Next]_vars

AbandonedLeasePasses ==
    /\ \E i \in DOMAIN queue : ~Held(i) /\ LeaseExpires(i)
    /\ UNCHANGED handlerVars

(***************************************************************************)
(* serve() polls for ever, so a worker that can take a step takes one; a   *)
(* request that is being served is served to the end; the clock passes     *)
(* every lease nobody renews.  Nothing forces a crash, a stall, a          *)
(* heartbeat, a human or an operator to act, and nothing forces the agent  *)
(* or a tool to succeed.                                                   *)
(***************************************************************************)
FairSpec ==
    /\ Spec
    /\ \A w \in Workers : WF_vars(RunOnceStep(w) /\ UNCHANGED handlerVars)
    /\ \A h \in Handlers : WF_vars(HandlerStep(h) /\ UNCHANGED workerVars)
    /\ WF_vars(AbandonedLeasePasses)

-----------------------------------------------------------------------------
(* Types *)

\* Where process() has a call in hand.
CallPC == {"denied", "pend", "create_approval", "execute", "backend", "save_result", "record"}

CallChosen ==
    \A w \in Workers :
        /\ wpc[w] = "approval" => state[w].pending_action \in Calls
        /\ wpc[w] \in CallPC => call[w] \in Calls

\* Every variable has its type, every delivery held names a row of the queue, and a
\* worker that asks for an approval or executes has a call to do it for.
TypeOK ==
    /\ StoreTypeOK /\ WorkerTypeOK /\ ControlTypeOK
    /\ \A w \in Workers : wpc[w] # "idle" => delivery[w].id \in DOMAIN queue
    /\ CallChosen

-----------------------------------------------------------------------------
(* Safety *)

\* No call reaches the infrastructure against the policy: a blocked call never
\* runs, and one that needs a human runs only when its own approval row says
\* APPROVED, so never after a rejection, whoever resumes it and however often
\* (validate_and_decide, _resume_approved_action, resolve_approval).
PolicyGate ==
    \A task \in Tasks, c \in Calls :
        effects[action_id(task, c)] > 0 =>
            /\ Allowed(c)
            /\ ApprovalRequired(c) => approvals[action_id(task, c)] = "APPROVED"

\* No update is lost: whatever a stale worker or handler writes, a checkpoint never
\* loses a decision, a piece of evidence or a completed step (save_workflow).
CheckpointMonotone ==
    [][\A task \in Tasks :
        LET old == workflows[task]
            new == workflows'[task]
        IN  /\ IsPrefix(old.tool_history, new.tool_history)
            /\ IsPrefix(old.progress_history, new.progress_history)
            /\ completed_steps(old) \subseteq completed_steps(new)]_vars

\* A workflow that is over stays as it is until an operator replays one of its dead
\* letters: nobody who loaded it before it ended can write it any more.
TerminalIsFinal ==
    [][\A task \in Tasks :
        terminal(workflows[task]) /\ workflows'[task] # workflows[task] =>
            replays' > replays]_vars

Processing(w) == wpc[w] \in RuntimePC

\* No lease passed under a live worker, and no replay followed a crash: a crash can
\* leave a dead row beside the row approve() puts in for the same task, and replaying
\* the dead one then makes two active rows.
Undisturbed == stalls = 0 /\ (crashes = 0 \/ replays = 0)

\* One worker at a time is inside process() for a task: claim, enqueue's check for an
\* active row and the order of acknowledge and enqueue keep its deliveries apart.
SingleProcessor ==
    Undisturbed =>
        \A v, w \in Workers :
            Processing(v) /\ Processing(w) /\ Task(v) = Task(w) => v = w

\* A call whose result is in the ledger is not carried out again ("completed tools
\* are not run again") by a worker that lost nothing.
NoEffectAfterResult ==
    [][\A key \in Key :
        effects'[key] # effects[key] /\ Undisturbed => tool_results[key] = NoResult]_vars

\* Repeated side effects have one of three causes: a process that died between the
\* effect and its ledger row, a live worker that lost its lease, an answer that was lost.
EffectsAccounted ==
    \A key \in Key : effects[key] <= 1 + crashes + stalls + timeouts

\* Evidence in a checkpoint is what the ledger answers for some call of that tool.
EvidenceFromLedger ==
    Undisturbed =>
        \A task \in Tasks :
            \A tool \in completed_steps(workflows[task]) :
                \E c \in Calls :
                    /\ c.tool = tool
                    /\ tool_results[action_id(task, c)] = workflows[task].evidence[tool]

\* Somebody will go on with the task: a row that will be claimed, or a worker that
\* is still going to put one there or to end the workflow.
Carried(task) ==
    \/ ActiveRows(task) # {}
    \/ \E w \in Workers :
        /\ wpc[w] # "idle"
        /\ Task(w) = task
        /\ wpc[w] = "ack" => state[w].status = "QUEUED"

\* As long as no process dies, an unfinished workflow with no action pending is never
\* without somebody who will go on with it, even if a worker loses its lease; with
\* approvals the same holds as long as none does.
WorkNotLost ==
    /\ crashes = 0
    /\ replays = 0
    /\ stalls = 0 \/ \A key \in Key : approvals[key] = "NONE"
    =>
        \A task \in created :
            /\ workflows[task].status \in {"QUEUED", "RUNNING"}
            /\ workflows[task].pending_action = NoCall
            => Carried(task)

\* A queued checkpoint with a pending action has been approved: only approve() takes
\* a workflow out of WAITING_FOR_APPROVAL with its action still pending.
QueuedPendingIsApproved ==
    replays = 0 =>
        \A task \in Tasks :
            LET checkpoint == workflows[task]
            IN  checkpoint.status = "QUEUED" /\ checkpoint.pending_action # NoCall =>
                    approvals[action_id(task, checkpoint.pending_action)] = "APPROVED"

\* The dead-letter queue and the workflows agree.  When nothing crashed or stalled, a
\* dead row belongs to a workflow that is over or that a worker is about to end; and
\* a dead-lettered workflow has a dead row that an operator can replay.
DeadLettersAgree ==
    /\ crashes + stalls = 0 =>
        \A i \in DOMAIN queue :
            queue[i].status = "DEAD" =>
                \/ terminal(workflows[queue[i].task_id])
                \/ \E w \in Workers :
                        wpc[w] \in {"dead", "dead_save"} /\ delivery[w].id = i
    /\ stalls + replays = 0 =>
        \A task \in Tasks :
            workflows[task].status = "DEAD_LETTERED" =>
                \E i \in DOMAIN queue : queue[i].task_id = task /\ queue[i].status = "DEAD"

\* A row is delivered no more than max_attempts times, plus once for every crash or
\* stall: retry_or_dead_letter is the only place where attempts are counted out.
AttemptsBounded ==
    \A i \in DOMAIN queue :
        queue[i].attempts <= MaxQueueAttempts + crashes + stalls

\* An approval is asked for before the workflow can be seen waiting for long: a
\* waiting checkpoint has its approval row, or a worker is about to create it.
WaitingHasApproval ==
    crashes = 0 =>
        \A task \in Tasks :
            LET checkpoint == workflows[task]
            IN  checkpoint.status = "WAITING_FOR_APPROVAL" =>
                    \/ approvals[action_id(task, checkpoint.pending_action)] # "NONE"
                    \/ \E w \in Workers : wpc[w] = "create_approval" /\ Task(w) = task
-----------------------------------------------------------------------------
(* Liveness *)

Settled(task) ==
    terminal(workflows[task]) \/ workflows[task].status = "WAITING_FOR_APPROVAL"

\* Every incident settles, whatever the agent decides and however the tools fail:
\* retries are counted out, loops are stopped, and a leased row is taken over.
EventuallySettles ==
    \A task \in Tasks : task \in created ~> Settled(task)

=============================================================================
