--------------------------- MODULE AWSDurableStore ---------------------------
(***************************************************************************)
(* The durable store on AWS (aws_store.py).  Its conditional writes in     *)
(* DynamoDB do what the transactions of SQLiteStore on workflows,          *)
(* tool_results and approvals do, and are used from there.  The queue is   *)
(* SQS: every row is a message, PENDING when it can be received,           *)
(* PROCESSING while it is in flight, COMPLETED once it is deleted, and     *)
(* DEAD when it stands in the dead-letter queue, where it is a message of  *)
(* its own.  attempts is the receive count, expired says that the          *)
(* visibility timeout has passed.                                          *)
(*                                                                         *)
(* A receipt handle is the pair of a message and the count it was received *)
(* with.                                                                   *)
(***************************************************************************)
EXTENDS SQLiteStore

OnlyQueueChanges == UNCHANGED <<created, workflows, tool_results, approvals>>

SetMessage(i, message) == queue' = [queue EXCEPT ![i] = message] /\ OnlyQueueChanges

\* put_item of the STATE item only; the first delivery is sent by a later call.
put_workflow(task) ==
    /\ created' = created \cup {task}
    /\ workflows' = [workflows EXCEPT ![task] = NewWorkflow]
    /\ UNCHANGED <<queue, tool_results, approvals>>

\* SQS has no uniqueness constraint: an active message of the task does not matter.
send_message(task) == queue' = Append(queue, NewRow(task)) /\ OnlyQueueChanges

\* Any message that is not in flight, in any order.
Receivable(message) ==
    message.status = "PENDING" \/ (message.status = "PROCESSING" /\ message.expired)

receive_message(i) ==
    /\ Receivable(queue[i])
    /\ SetMessage(i, [queue[i] EXCEPT !.status = "PROCESSING", !.attempts = @ + 1,
                                      !.delayed = FALSE, !.expired = FALSE])

\* The message has been received again since.
Stale(delivery) == queue[delivery.id].attempts # delivery.attempts

delete_message(i) == SetMessage(i, [queue[i] EXCEPT !.status = "COMPLETED", !.expired = FALSE])

\* Deleting with an old receipt succeeds, and the message may stay.
acknowledge_receipt(delivery) ==
    \/ delete_message(delivery.id)
    \/ Stale(delivery) /\ UNCHANGED storeVars

\* An error: the message is no longer in flight, or not for this receipt.
VisibilityRefused(delivery) ==
    Stale(delivery) \/ queue[delivery.id].status # "PROCESSING" \/ queue[delivery.id].expired

\* The message comes back after the backoff.
change_visibility(delivery) ==
    /\ queue[delivery.id].status = "PROCESSING" /\ ~queue[delivery.id].expired
    /\ SetMessage(delivery.id, [queue[delivery.id] EXCEPT !.status = "PENDING", !.delayed = TRUE])

\* A copy in the dead-letter queue, before the message itself is deleted.
send_dead_letter(delivery) ==
    /\ queue' = Append(queue, [NewRow(delivery.task_id) EXCEPT !.status = "DEAD",
                                                               !.attempts = delivery.attempts])
    /\ OnlyQueueChanges
=============================================================================
