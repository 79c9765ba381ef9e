---------------------------- MODULE ControlPlane ----------------------------
(***************************************************************************)
(* The state-changing routes of the API (api.py): create an incident,      *)
(* approve or reject its pending action, replay a dead letter.  Several    *)
(* API processes may serve requests at once, so the store calls of one     *)
(* handler interleave with everything else.                                *)
(***************************************************************************)
EXTENDS SQLiteStore

CONSTANTS
    Handlers,       \* requests that can be in flight
    MaxReplays      \* bound on the replays an operator asks for

ASSUME ControlPlaneAssumption == MaxReplays \in Nat

VARIABLES
    hpc,            \* where each request stands
    htask,          \* the incident it is about
    hstate,         \* its copy of the checkpoint
    replays

handlerVars == <<hpc, htask, hstate, replays>>

\* Creation and replay are one transaction on SQLite and several calls on AWS.
HandlerPC == {"idle", "approve_resolve", "approve_save", "approve_enqueue",
              "reject_resolve", "reject_save",
              "create_send", "replay_save", "replay_send", "replay_delete"}

ControlTypeOK ==
    /\ hpc \in [Handlers -> HandlerPC]
    /\ htask \in [Handlers -> Tasks]
    /\ hstate \in [Handlers -> Checkpoint]
    /\ replays \in Nat

ControlInit ==
    /\ hpc = [h \in Handlers |-> "idle"]
    /\ htask = [h \in Handlers |-> SomeTask]
    /\ hstate = [h \in Handlers |-> NewWorkflow]
    /\ replays = 0

HGoto(h, pc) == hpc' = [hpc EXCEPT ![h] = pc] /\ UNCHANGED <<htask, hstate, replays>>

\* The response is sent, or an error ends the request.
Respond(h) ==
    /\ hpc' = [hpc EXCEPT ![h] = "idle"]
    /\ htask' = [htask EXCEPT ![h] = SomeTask]
    /\ hstate' = [hstate EXCEPT ![h] = NewWorkflow]
    /\ UNCHANGED replays

PendingKey(h) == action_id(htask[h], hstate[h].pending_action)

-----------------------------------------------------------------------------
\* A fresh task_id every time.
CreateIncident(task) ==
    /\ task \notin created
    /\ create_workflow(task)
    /\ UNCHANGED handlerVars

\* approve and reject load the workflow and answer 409 unless it waits.
Open(h, task, pc) ==
    /\ hpc[h] = "idle"
    /\ task \in created
    /\ workflows[task].status = "WAITING_FOR_APPROVAL"
    /\ workflows[task].pending_action # NoCall
    /\ hpc' = [hpc EXCEPT ![h] = pc]
    /\ htask' = [htask EXCEPT ![h] = task]
    /\ hstate' = [hstate EXCEPT ![h] = workflows[task]]
    /\ UNCHANGED <<storeVars, replays>>

\* Not the code, as every Mutant... definition: a bug a run must catch.
\* The workflow is released without a record of the approval.
MutantApproveUnresolved(h, task) == Open(h, task, "approve_save")

Approve(h, task) == Open(h, task, "approve_resolve")

Reject(h, task) == Open(h, task, "reject_resolve")

\* resolve_approval raises ValueError when the approval is not PENDING.
Resolve(h, resolution, pc) ==
    \/ resolve_approval(PendingKey(h), resolution) /\ HGoto(h, pc)
    \/ approvals[PendingKey(h)] # "PENDING" /\ UNCHANGED storeVars /\ Respond(h)

ApproveResolve(h) == hpc[h] = "approve_resolve" /\ Resolve(h, "APPROVED", "approve_save")

RejectResolve(h) == hpc[h] = "reject_resolve" /\ Resolve(h, "REJECTED", "reject_save")

StaleRequest(h) ==
    /\ ~VersionMatches(htask[h], hstate[h])
    /\ UNCHANGED storeVars
    /\ Respond(h)

ApproveSave(h) ==
    /\ hpc[h] = "approve_save"
    /\ \/ /\ save_workflow(htask[h], [hstate[h] EXCEPT !.status = "QUEUED"])
          /\ HGoto(h, "approve_enqueue")
       \/ StaleRequest(h)

ApproveEnqueue(h) ==
    /\ hpc[h] = "approve_enqueue"
    /\ enqueue(htask[h])
    /\ Respond(h)

RejectSave(h) ==
    /\ hpc[h] = "reject_save"
    /\ \/ /\ save_workflow(htask[h], [hstate[h] EXCEPT !.status = "HUMAN_REJECTED",
                                                       !.pending_action = NoCall])
          /\ Respond(h)
       \/ StaleRequest(h)

ReplayDeadLetter(id) ==
    /\ replays < MaxReplays
    /\ replay_dead_letter(id)
    /\ replays' = replays + 1
    /\ UNCHANGED <<hpc, htask, hstate>>

HandlerStep(h) ==
    \/ ApproveResolve(h)
    \/ ApproveSave(h)
    \/ ApproveEnqueue(h)
    \/ RejectResolve(h)
    \/ RejectSave(h)

ControlStep ==
    \/ \E task \in Tasks : CreateIncident(task)
    \/ \E h \in Handlers, task \in Tasks : Approve(h, task) \/ Reject(h, task)
    \/ \E h \in Handlers : HandlerStep(h)
    \/ \E id \in DOMAIN queue : ReplayDeadLetter(id)
=============================================================================
