----------------------------- MODULE SQLiteStore -----------------------------
(***************************************************************************)
(* The durable store (store.py): four tables in one SQLite database.  Each *)
(* operator below is one call, which commits before it returns, so it is   *)
(* one atomic step however many processes share the file.  The events      *)
(* table is append-only and never read back by a decision of the runtime;  *)
(* it is left out here.                                                    *)
(***************************************************************************)
EXTENDS Models

CONSTANT MaxQueueAttempts       \* max_attempts of every row (config.max_queue_attempts)

ASSUME SQLiteStoreAssumption == MaxQueueAttempts \in Nat \ {0}

VARIABLES
    created,        \* the task_ids with a row in workflows
    workflows,      \* their checkpoints (NewWorkflow where there is no row yet)
    queue,          \* the rows of queue; the row's id is its index
    tool_results,   \* the idempotency ledger
    approvals       \* the approvals table, "NONE" where there is no row

storeVars == <<created, workflows, queue, tool_results, approvals>>

QueueStatus == {"PENDING", "PROCESSING", "COMPLETED", "DEAD"}

\* delayed: available_at may still lie ahead (a retry's backoff).
\* expired: lease_until has passed.
QueueRow == [task_id : Tasks, status : QueueStatus, attempts : Nat,
             delayed : BOOLEAN, expired : BOOLEAN]

ApprovalStatus == {"NONE", "PENDING", "APPROVED", "REJECTED"}

StoreTypeOK ==
    /\ created \subseteq Tasks
    /\ workflows \in [Tasks -> Checkpoint]
    /\ queue \in Seq(QueueRow)
    /\ tool_results \in [Key -> Results \cup {NoResult}]
    /\ approvals \in [Key -> ApprovalStatus]

StoreInit ==
    /\ created = {}
    /\ workflows = [task \in Tasks |-> NewWorkflow]
    /\ queue = <<>>
    /\ tool_results = [key \in Key |-> NoResult]
    /\ approvals = [key \in Key |-> "NONE"]

NewRow(task) == [task_id |-> task, status |-> "PENDING", attempts |-> 0,
                 delayed |-> FALSE, expired |-> FALSE]

Active(row) == row.status \in {"PENDING", "PROCESSING"}

(***************************************************************************)
(* Definitions named Mutant... are not the code: each is a bug the         *)
(* definition after it could have, and a run shows that a property         *)
(* catches it.                                                             *)
(***************************************************************************)

-----------------------------------------------------------------------------
(* Workflows *)

\* The workflow row and its first delivery are inserted in one transaction.
create_workflow(task) ==
    /\ created' = created \cup {task}
    /\ workflows' = [workflows EXCEPT ![task] = NewWorkflow]
    /\ queue' = Append(queue, NewRow(task))
    /\ UNCHANGED <<tool_results, approvals>>

\* UPDATE ... WHERE task_id = ? only.
MutantAnyVersion(task, state) == TRUE

\* The optimistic check: UPDATE ... WHERE version = expected_version.
VersionMatches(task, state) == workflows[task].version = state.version

Saved(state) == [state EXCEPT !.version = @ + 1]

\* save_workflow when the version matches; a caller whose version is stale gets
\* ConcurrentUpdateError instead and writes nothing.
save_workflow(task, state) ==
    /\ VersionMatches(task, state)
    /\ workflows' = [workflows EXCEPT ![task] = Saved(state)]
    /\ UNCHANGED <<created, queue, tool_results, approvals>>

-----------------------------------------------------------------------------
(* The queue *)

\* Acknowledged rows still count as active.
MutantUndeadRows(task) == {i \in DOMAIN queue : queue[i].task_id = task /\ queue[i].status # "DEAD"}

ActiveRows(task) == {i \in DOMAIN queue : queue[i].task_id = task /\ Active(queue[i])}

\* No check for an active row.
MutantEnqueueAlways(task) ==
    /\ queue' = Append(queue, NewRow(task))
    /\ UNCHANGED <<created, workflows, tool_results, approvals>>

\* A task with an active delivery gets no second one.
enqueue(task) ==
    /\ queue' = IF ActiveRows(task) = {} THEN Append(queue, NewRow(task)) ELSE queue
    /\ UNCHANGED <<created, workflows, tool_results, approvals>>

\* Rows whose lease has run out go back to PENDING before a row is chosen.
Reclaimed(row) ==
    IF row.status = "PROCESSING" /\ row.expired
    THEN [row EXCEPT !.status = "PENDING", !.expired = FALSE]
    ELSE row

\* Row i is claimed: the pending, available row with the least id.  A delayed row
\* may or may not have become available.
claim(i) ==
    LET rows == [j \in DOMAIN queue |-> Reclaimed(queue[j])]
    IN  /\ i \in DOMAIN queue
        /\ rows[i].status = "PENDING"
        /\ \A j \in 1 .. i - 1 : rows[j].status = "PENDING" => rows[j].delayed
        /\ queue' = [rows EXCEPT ![i] = [rows[i] EXCEPT !.status = "PROCESSING",
                                                        !.attempts = @ + 1,
                                                        !.delayed = FALSE,
                                                        !.expired = FALSE]]
        /\ UNCHANGED <<created, workflows, tool_results, approvals>>

\* acknowledge names the row only: neither its status nor its holder is checked.
acknowledge(id) ==
    /\ queue' = [queue EXCEPT ![id] = [@ EXCEPT !.status = "COMPLETED", !.expired = FALSE]]
    /\ UNCHANGED <<created, workflows, tool_results, approvals>>

\* extend_lease checks that the row is PROCESSING, not who holds it.
extend_lease(id) ==
    /\ queue' = [queue EXCEPT ![id] =
                    [queue[id] EXCEPT !.expired = @ /\ queue[id].status # "PROCESSING"]]
    /\ UNCHANGED <<created, workflows, tool_results, approvals>>

\* One attempt too many.
MutantIsDeadLate(delivery) == delivery.attempts > MaxQueueAttempts

\* Decided from the attempts the caller was delivered, not from the row.
IsDead(delivery) == delivery.attempts >= MaxQueueAttempts

retry_or_dead_letter(delivery) ==
    /\ queue' = [queue EXCEPT ![delivery.id] =
                    [@ EXCEPT !.status = IF IsDead(delivery) THEN "DEAD" ELSE "PENDING",
                              !.delayed = ~IsDead(delivery),
                              !.expired = FALSE]]
    /\ UNCHANGED <<created, workflows, tool_results, approvals>>

\* One transaction: the row must be DEAD; the status of the workflow is not looked at.
replay_dead_letter(id) ==
    LET task == queue[id].task_id
    IN  /\ queue[id].status = "DEAD"
        /\ workflows' = [workflows EXCEPT ![task] = Saved([@ EXCEPT !.status = "QUEUED"])]
        /\ queue' = [queue EXCEPT ![id] = NewRow(task)]
        /\ UNCHANGED <<created, tool_results, approvals>>

-----------------------------------------------------------------------------
(* The ledger and the approvals *)

\* INSERT OR IGNORE: the first result stays.
save_tool_result(key, result) ==
    /\ tool_results' = [tool_results EXCEPT ![key] = IF @ = NoResult THEN result ELSE @]
    /\ UNCHANGED <<created, workflows, queue, approvals>>

\* Anything but a rejection passes for an approval.
MutantNotRejected(key) == approvals[key] # "REJECTED"

\* approval_status(...) == "APPROVED"
IsApproved(key) == approvals[key] = "APPROVED"

\* INSERT OR IGNORE: an approval that was resolved before is not asked again.
create_approval(key) ==
    /\ approvals' = [approvals EXCEPT ![key] = IF @ = "NONE" THEN "PENDING" ELSE @]
    /\ UNCHANGED <<created, workflows, queue, tool_results>>

\* UPDATE ... WHERE status = 'PENDING'; otherwise the caller gets ValueError.
resolve_approval(key, resolution) ==
    /\ approvals[key] = "PENDING"
    /\ approvals' = [approvals EXCEPT ![key] = resolution]
    /\ UNCHANGED <<created, workflows, queue, tool_results>>
=============================================================================
