---------------------------- MODULE Implementation ----------------------------
(***************************************************************************)
(* The deployed runtime implements the lifecycle of an incident: queue     *)
(* rows, leases, versions, copies of checkpoints and half-done requests    *)
(* are invisible in it.                                                    *)
(***************************************************************************)
EXTENDS AgentResilience

\* QUEUED and RUNNING are one phase, and so are the ways to end without a refusal.
PhaseOf(status) ==
    CASE status \in {"QUEUED", "RUNNING"} -> "OPEN"
      [] status = "WAITING_FOR_APPROVAL" -> "WAITING"
      [] status = "HUMAN_REJECTED" -> "REJECTED"
      [] OTHER -> "CLOSED"

phase == [task \in Tasks |->
            IF task \in created THEN PhaseOf(workflows[task].status) ELSE "NONE"]

pending == [task \in Tasks |-> workflows[task].pending_action]

performed == {key \in Key : effects[key] > 0}

Lifecycle == INSTANCE IncidentLifecycle WITH verdict <- approvals, reopened <- replays

\* Every step of every process is a step of the lifecycle or invisible in it, so an
\* incident waits, is answered, acts, ends and is reopened in no other order
\* (process, approve, reject and replay_dead_letter together).
ImplementsLifecycle == Lifecycle!LifecycleSpec
=============================================================================
