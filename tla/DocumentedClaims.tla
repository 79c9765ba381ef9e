-------------------------- MODULE DocumentedClaims --------------------------
(***************************************************************************)
(* What the repository's documentation says of the runtime, where the code *)
(* does something else.  Each is checked alone and TLC answers with the    *)
(* behaviour of the code that contradicts it.                              *)
(***************************************************************************)
EXTENDS Implementation

\* README: "Process crash | Queue lease expires; another worker reloads the checkpoint",
\* and a worker stopped "after any TOOL_COMPLETED event" is "recovered" (run_once acknowledges one
\* delivery before it puts the next one in the queue).
CrashedWorkIsTakenOver ==
    \A task \in created :
        /\ workflows[task].status = "QUEUED"
        /\ workflows[task].pending_action = NoCall
        /\ \A i \in DOMAIN queue : queue[i].status # "DEAD"
        => Carried(task)

\* README: an incident "pauses before the high-risk production restart; then executes
\* and verifies recovery after approval" (enqueue takes the row the worker is about to
\* acknowledge for the delivery of the approved action).
ApprovedIsExecuted ==
    \A task \in Tasks, c \in Calls :
        approvals[action_id(task, c)] = "APPROVED" ~>
            effects[action_id(task, c)] > 0 \/ terminal(workflows[task])

\* README: "production restart requests pause durably and continue only after an
\* authorized approval": every waiting workflow can be approved or rejected
\* (create_approval ignores an action that was resolved before).
WaitingIsAnswerable ==
    \A task \in Tasks :
        LET checkpoint == workflows[task]
        IN  checkpoint.status = "WAITING_FOR_APPROVAL" =>
                \/ approvals[action_id(task, checkpoint.pending_action)] = "PENDING"
                \/ \E w \in Workers : wpc[w] = "create_approval" /\ Task(w) = task
                \/ \E h \in Handlers : hpc[h] # "idle" /\ htask[h] = task

\* README: "Rejection is a terminal, audited outcome" (replay_dead_letter looks at the
\* row of the queue, not at the status of the workflow).
RejectionIsFinal ==
    [][\A task \in Tasks :
        workflows[task].status = "HUMAN_REJECTED" =>
            workflows'[task].status = "HUMAN_REJECTED"]_vars
=============================================================================
