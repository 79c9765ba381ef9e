-------------------------- MODULE IncidentLifecycle --------------------------
(***************************************************************************)
(* What the runtime promises of one incident, without queue, versions,     *)
(* workers or handlers: it is open until it is over, a guarded action is   *)
(* asked for, answered by a human and performed in that order, and only an *)
(* operator's replay reopens what was settled.                             *)
(***************************************************************************)
EXTENDS PermissionPolicy

VARIABLES
    phase,          \* of each task
    pending,        \* the guarded action it asked for, until that is settled
    verdict,        \* what humans said of each action
    performed,      \* the actions the infrastructure has carried out
    reopened        \* how often operators replayed a delivery

lifecycleVars == <<phase, pending, verdict, performed, reopened>>

Phase == {"NONE", "OPEN", "WAITING", "CLOSED", "REJECTED"}

LifecycleInit ==
    /\ phase = [task \in Tasks |-> "NONE"]
    /\ pending = [task \in Tasks |-> NoCall]
    /\ verdict = [key \in Key |-> "NONE"]
    /\ performed = {}
    /\ reopened = 0

Enter(task, new) == phase' = [phase EXCEPT ![task] = new]

Submit(task) ==
    /\ phase[task] = "NONE"
    /\ Enter(task, "OPEN")
    /\ UNCHANGED <<pending, verdict, performed, reopened>>

\* One guarded action at a time.
Ask(task, call) ==
    /\ phase[task] = "OPEN"
    /\ pending[task] = NoCall
    /\ Allowed(call) /\ ApprovalRequired(call)
    /\ Enter(task, "WAITING")
    /\ pending' = [pending EXCEPT ![task] = call]
    /\ UNCHANGED <<verdict, performed, reopened>>

\* The question reaches the humans; it is asked once and answered once.
Present(key) ==
    /\ verdict[key] = "NONE"
    /\ pending[key[1]] = key[2]
    /\ verdict' = [verdict EXCEPT ![key] = "PENDING"]
    /\ UNCHANGED <<phase, pending, performed, reopened>>

Answer(key, answer) ==
    /\ verdict[key] = "PENDING"
    /\ verdict' = [verdict EXCEPT ![key] = answer]
    /\ UNCHANGED <<phase, pending, performed, reopened>>

Release(task) ==
    /\ phase[task] = "WAITING"
    /\ verdict[action_id(task, pending[task])] = "APPROVED"
    /\ Enter(task, "OPEN")
    /\ UNCHANGED <<pending, verdict, performed, reopened>>

Refuse(task) ==
    /\ phase[task] = "WAITING"
    /\ verdict[action_id(task, pending[task])] = "REJECTED"
    /\ Enter(task, "REJECTED")
    /\ pending' = [pending EXCEPT ![task] = NoCall]
    /\ UNCHANGED <<verdict, performed, reopened>>

\* In whatever phase the task is by now: who asked may have been overtaken.
Perform(key) ==
    /\ phase[key[1]] # "NONE"
    /\ Allowed(key[2])
    /\ ApprovalRequired(key[2]) => verdict[key] = "APPROVED"
    /\ performed' = performed \cup {key}
    /\ UNCHANGED <<phase, pending, verdict, reopened>>

\* The pending action is settled once it has been performed.
Conclude(task) ==
    /\ phase[task] = "OPEN"
    /\ action_id(task, pending[task]) \in performed
    /\ pending' = [pending EXCEPT ![task] = NoCall]
    /\ UNCHANGED <<phase, verdict, performed, reopened>>

Close(task) ==
    /\ phase[task] \in {"OPEN", "WAITING"}
    /\ Enter(task, "CLOSED")
    /\ UNCHANGED <<pending, verdict, performed, reopened>>

Reopen(task) ==
    /\ phase[task] # "NONE"
    /\ Enter(task, "OPEN")
    /\ reopened' = reopened + 1
    /\ UNCHANGED <<pending, verdict, performed>>

LifecycleNext ==
    \/ \E task \in Tasks :
        \/ Submit(task) \/ Release(task) \/ Refuse(task)
        \/ Conclude(task) \/ Close(task) \/ Reopen(task)
        \/ \E call \in Calls : Ask(task, call)
    \/ \E key \in Key :
        \/ Present(key) \/ Perform(key)
        \/ \E answer \in {"APPROVED", "REJECTED"} : Answer(key, answer)

LifecycleSpec == LifecycleInit /\ [][LifecycleNext]_lifecycleVars
=============================================================================
