-------------------------- MODULE AWSAgentResilience --------------------------
(***************************************************************************)
(* The runtime as it is deployed on AWS: the same workers and handlers     *)
(* over DynamoDB and SQS.  Every call of the store may fail with an error  *)
(* that run_once catches; an error nobody catches, and a call whose answer *)
(* is lost, end the process and are a crash here.                          *)
(*                                                                         *)
(* A message that SQS delivers twice is a lease that passes under a live   *)
(* worker, or a deleted message that comes back; both count as stalls.     *)
(* Heartbeats only keep a message in flight that is in flight.             *)
(***************************************************************************)
EXTENDS AgentResilience, AWSDurableStore

CONSTANTS
    MaxFaults,          \* bound on crashes, stalls, failed store calls and stray replays together
    MaxLateStalls       \* bound on stalls once a replay has been asked for

ASSUME AWSAssumption == {MaxFaults, MaxLateStalls} \subseteq Nat

VARIABLES
    errors,         \* store calls that failed with a ClientError
    letters,        \* the messages of queue that were sent to the dead-letter queue
    letter,         \* the dead letter whose receipt each replay request names
    astray          \* receipts named by replays of an incident they do not belong to

awsVars == <<vars, errors, letters, letter, astray>>

Faults == crashes + stalls + errors

ReplayPC == {"replay_save", "replay_send", "replay_delete"}

NoLetter == 0

\* The receipt is not one of a letter of the incident that is replayed.
Misaddressed(h) == letter[h] = NoLetter \/ queue[letter[h]].task_id # htask[h]

Replaying(h) == hpc[h] \in ReplayPC

\* What MaxFaults bounds: a stray replay counts as one fault.
Spent ==
    Faults + IF astray # {} \/ \E h \in Handlers : Replaying(h) /\ Misaddressed(h) THEN 1 ELSE 0

\* A worker reports on a message of the main queue, a replay names a dead letter or none.
AWSTypeOK ==
    /\ TypeOK
    /\ errors \in Nat
    /\ letters \subseteq DOMAIN queue
    /\ letter \in [Handlers -> Nat]
    /\ \A w \in Workers : wpc[w] # "idle" => delivery[w].id \notin letters
    /\ \A h \in Handlers : hpc[h] \in ReplayPC => letter[h] \in letters \cup {NoLetter}
    /\ astray \subseteq letters \cup {NoLetter}

-----------------------------------------------------------------------------
(* run_once *)

ReceiveMessage(w, i) ==
    /\ wpc[w] = "idle"
    /\ receive_message(i)
    /\ delivery' = [delivery EXCEPT ![w] = [id |-> i, task_id |-> queue[i].task_id,
                                            attempts |-> queue[i].attempts + 1]]
    /\ Goto(w, "load")
    /\ UNCHANGED <<state, call, result, Budgets>>

\* A call of the store fails, or the record_event that follows the last one.  run_once
\* catches the error.  The gateway's own calls are caught in _execute_tool, which saves;
\* a save that fails after a call of the gateway has failed counts as one error with it.
\* An error of the record_event after the save of a retryable failure takes its place, so
\* a permanent one leads from "retry" to "perm_ack".  An error raised while run_once
\* handles another one ends the process.
StoreCallFails(w) ==
    /\ Spent < MaxFaults
    /\ errors' = errors + 1
    /\ \/ /\ wpc[w] \in RuntimePC \cup {"ack", "enqueue", "retry"}
          /\ LeaveProcess(w, "retry") \/ LeaveProcess(w, "perm_ack")
          /\ UNCHANGED storeVars
       \/ wpc[w] \in {"execute", "save_result"} /\ (FailRetryably(w) \/ Fail(w))
    /\ UNCHANGED Budgets

DeleteReceipt(w, pc) ==
    /\ acknowledge_receipt(delivery[w])
    /\ IF pc = "idle" THEN Finish(w) ELSE LeaveProcess(w, pc)
    /\ UNCHANGED Budgets

\* Not the code, as every Mutant... definition: a bug a run must catch.
\* The next message is never sent.
MutantDeleteOnly(w) == wpc[w] = "ack" /\ DeleteReceipt(w, "idle")

\* The next message of an unfinished workflow is sent once its last one is deleted.
DeleteThenSend(w) ==
    \/ wpc[w] = "ack" /\ DeleteReceipt(w, IF state[w].status = "QUEUED" THEN "enqueue" ELSE "idle")
    \/ wpc[w] = "enqueue" /\ send_message(Task(w)) /\ Finish(w) /\ UNCHANGED Budgets

\* An error of change_message_visibility leaves run_once.
RetryMessage(w) ==
    /\ wpc[w] = "retry"
    /\ ~IsDead(delivery[w])
    /\ \/ change_visibility(delivery[w])
       \/ VisibilityRefused(delivery[w]) /\ UNCHANGED storeVars
    /\ Finish(w)
    /\ UNCHANGED Budgets

\* No dead-letter queue is configured, and nobody notices.
MutantDropLetter(w) == wpc[w] = "retry" /\ IsDead(delivery[w]) /\ DeleteReceipt(w, "dead")

DeadLetter(w) ==
    \/ /\ wpc[w] = "retry"
       /\ IsDead(delivery[w])
       /\ send_dead_letter(delivery[w])
       /\ LeaveProcess(w, "dead_delete")
       /\ UNCHANGED Budgets
    \/ wpc[w] = "dead_delete" /\ DeleteReceipt(w, "dead")

AWSRunOnce(w) ==
    \/ StoreCallFails(w)
    \/ /\ \/ \E i \in DOMAIN queue : ReceiveMessage(w, i)
          \/ ProcessStep(w) /\ UNCHANGED <<crashes, stalls>>
          \/ DeleteThenSend(w)
          \/ RetryMessage(w)
          \/ DeadLetter(w)
          \/ DeadLoad(w)
          \/ DeadSave(w)
          \/ wpc[w] = "perm_ack" /\ DeleteReceipt(w, "perm_load")
          \/ PermanentLoad(w)
          \/ PermanentSave(w)
       /\ UNCHANGED errors

-----------------------------------------------------------------------------
(* The routes *)

\* create_workflow: the STATE item, the event, then the message.
CreateOnAWS(h, task) ==
    /\ hpc[h] = "idle"
    /\ task \notin created
    /\ put_workflow(task)
    /\ hpc' = [hpc EXCEPT ![h] = "create_send"]
    /\ htask' = [htask EXCEPT ![h] = task]
    /\ UNCHANGED <<hstate, replays, letter>>

\* A request names a receipt and an incident, and neither is checked against the other.
\* The receipt is used last: it may be of another incident's letter, of one that has been
\* replayed or deleted since it was listed, or of none.
\* The replay is asked for before the last fault, which may strike it half-way.
OpenReplay(h, i, task) ==
    /\ hpc[h] = "idle"
    /\ replays < MaxReplays /\ Spent < MaxFaults
    /\ task \in created
    /\ i \in letters \cup {NoLetter}
    /\ hpc' = [hpc EXCEPT ![h] = "replay_save"]
    /\ htask' = [htask EXCEPT ![h] = task]
    /\ hstate' = [hstate EXCEPT ![h] = workflows[task]]
    /\ letter' = [letter EXCEPT ![h] = i]
    /\ UNCHANGED <<storeVars, replays>>

\* The letter is taken out of its queue before the new message is sent.
MutantReplaySave(h) ==
    /\ hpc[h] = "replay_save"
    /\ VersionMatches(htask[h], hstate[h])
    /\ workflows' = [workflows EXCEPT ![htask[h]] = Saved([hstate[h] EXCEPT !.status = "QUEUED"])]
    /\ queue' = [i \in DOMAIN queue |->
                    IF i = letter[h] THEN [queue[i] EXCEPT !.status = "COMPLETED"] ELSE queue[i]]
    /\ hpc' = [hpc EXCEPT ![h] = "replay_send"]
    /\ replays' = replays + 1
    /\ UNCHANGED <<created, tool_results, approvals, htask, hstate, letter>>

ReplaySave(h) ==
    /\ hpc[h] = "replay_save"
    /\ \/ /\ save_workflow(htask[h], [hstate[h] EXCEPT !.status = "QUEUED"])
          /\ hpc' = [hpc EXCEPT ![h] = "replay_send"]
          /\ replays' = replays + 1
          /\ UNCHANGED <<htask, hstate>>
       \/ StaleRequest(h)
    /\ UNCHANGED letter

\* An unknown receipt is an error; an old one, as listing the letters again makes it, is
\* none, and the letter may stay.
ReplayDelete(h) ==
    /\ hpc[h] = "replay_delete"
    /\ (letter[h] # NoLetter /\ delete_message(letter[h])) \/ UNCHANGED storeVars
    /\ Respond(h)
    /\ UNCHANGED letter

SendMessage(h) ==
    /\ hpc[h] \in {"create_send", "approve_enqueue", "replay_send"}
    /\ send_message(htask[h])
    /\ IF hpc[h] = "replay_send" THEN HGoto(h, "replay_delete") ELSE Respond(h)
    /\ UNCHANGED letter

AWSHandlerStep(h) ==
    \/ ReplaySave(h)
    \/ ReplayDelete(h)
    \/ SendMessage(h)
    \/ /\ ApproveResolve(h) \/ ApproveSave(h) \/ RejectResolve(h) \/ RejectSave(h)
       /\ UNCHANGED letter

AWSControlStep(h) ==
    \/ AWSHandlerStep(h)
    \/ \E task \in Tasks : CreateOnAWS(h, task)
    \/ \E task \in Tasks : (Approve(h, task) \/ Reject(h, task)) /\ UNCHANGED letter
    \/ \E i \in letters \cup {NoLetter}, task \in Tasks : OpenReplay(h, i, task)

MayStall == replays > 0 \/ (\E h \in Handlers : Replaying(h)) => stalls < MaxLateStalls

\* SQS shows a message again that was deleted, in the queue it was deleted from.
Resurrect(i) ==
    /\ queue[i].status = "COMPLETED"
    /\ stalls < MaxStalls /\ (i \in letters \/ MayStall)
    /\ stalls' = stalls + 1
    /\ SetMessage(i, [queue[i] EXCEPT !.status = IF i \in letters THEN "DEAD" ELSE "PENDING"])
    /\ UNCHANGED <<runtimeVars, crashes>>

-----------------------------------------------------------------------------

AWSInit ==
    /\ Init
    /\ errors = 0
    /\ letters = {}
    /\ letter = [h \in Handlers |-> NoLetter]
    /\ astray = {}

AWSStep ==
    \/ /\ \E w \in Workers : AWSRunOnce(w)
       /\ UNCHANGED <<handlerVars, letter>>
    \/ /\ \/ \E w \in Workers : WorkerCrash(w)
          \/ \E i \in DOMAIN queue : LeaseExpires(i) /\ (stalls' > stalls => MayStall)
          \/ \E i \in DOMAIN queue : Resurrect(i)
       /\ UNCHANGED <<handlerVars, errors, letter>>
       /\ Faults' > Faults => Spent < MaxFaults
    \/ \E h \in Handlers : AWSControlStep(h) /\ UNCHANGED <<workerVars, errors>>
    \/ \E h \in Handlers : HandlerCrash(h) /\ Spent < MaxFaults /\ UNCHANGED <<errors, letter>>

DeadMessages == {i \in DOMAIN queue : queue[i].status = "DEAD"}

\* The receipts of the replays that have just been saved for another incident.
JustAstray == {letter[h] : h \in {r \in Handlers : hpc[r] = "replay_send" /\ Misaddressed(r)}}

\* What is sent as a dead letter stays one.
AWSNext ==
    /\ AWSStep
    /\ letters' = letters \cup DeadMessages'
    /\ astray' = astray \cup JustAstray'

AWSSpec == AWSInit /\ [][AWSNext]_awsVars

-----------------------------------------------------------------------------
(* What holds on AWS *)

\* Without deduplication a delivery may exist twice, and two workers may carry out the
\* same call before either has a ledger row.  Each extra time has a fault or a replay; the
\* first replay costs nothing as long as every replay names a letter of its incident.
AWSEffectsAccounted ==
    LET free == IF replays > 0 /\ astray = {} THEN 1 ELSE 0
    IN  \A key \in Key : effects[key] <= 1 + Faults + timeouts + replays - free

\* Somebody will go on with the task, or is about to send its message.
CarriedOnAWS(task) ==
    \/ Carried(task)
    \/ \E h \in Handlers : htask[h] = task /\ hpc[h] # "idle"

\* Without a fault no unfinished incident is ever without a message: an approval that
\* comes before the worker has deleted its message sends one of its own.  Two replays may
\* overlap, and dead-letter what waits for a human; one that names no letter of its
\* incident may requeue what waits for a human.
AWSWorkNotLost ==
    Faults = 0 /\ replays <= 1 /\ astray = {} =>
        \A task \in created :
            workflows[task].status \in {"QUEUED", "RUNNING"} => CarriedOnAWS(task)

HasLetter(task) == \E i \in DeadMessages : queue[i].task_id = task

\* Whatever fails, a dead-lettered incident has a letter an operator can replay: the
\* letter is sent before the message is deleted, and that before the workflow is ended.
DeadLetterKept ==
    replays = 0 =>
        \A task \in Tasks : workflows[task].status = "DEAD_LETTERED" => HasLetter(task)

\* Whatever fails and however often it is replayed, a dead letter leaves its queue only
\* after a later message of its incident has been sent, unless a replay of another
\* incident named it: the receipt is not checked (replay_dead_letter).
LetterFollowed ==
    \A i \in letters \ (DeadMessages \cup astray) :
        \E j \in DOMAIN queue \ letters : j > i /\ queue[j].task_id = queue[i].task_id

\* With one fault, the first replay, if it names a letter of its incident and dies half-way,
\* can be asked for again, or its message is in the queue or with a worker: the letter
\* leaves the dead-letter queue after that.  A worker whose message was delivered twice
\* may dead-letter what waits for a human, and the replay of that is deleted without a
\* save; so a pending action has been approved.
ReplaySurvives ==
    [][\A h \in Handlers, task \in Tasks :
        /\ hpc[h] \in ReplayPC /\ hpc'[h] = "idle"
        /\ htask[h] = task /\ ~Misaddressed(h)
        /\ Faults' <= 1
        /\ replays' <= IF hpc[h] = "replay_save" THEN 0 ELSE 1
        /\ hstate[h].pending_action # NoCall => IsApproved(PendingKey(h))
        =>  \/ HasLetter(task)' \/ Carried(task)'
            \/ workflows'[task].version > hstate[h].version + 1]_awsVars
=============================================================================
