-------------------------- MODULE PermissionPolicy --------------------------
(***************************************************************************)
(* The policy boundary (policy.py): what a tool call may do, decided from  *)
(* the call alone and never from what the model says about it.             *)
(***************************************************************************)
EXTENDS Models

evaluate(call) ==
    CASE call.tool = "delete_database" ->
            [risk |-> "BLOCKED", allowed |-> FALSE, approval_required |-> FALSE]
      [] call.tool = "restart_service" /\ call.environment = "production" ->
            [risk |-> "HIGH", allowed |-> TRUE, approval_required |-> TRUE]
      [] call.tool = "restart_service" /\ call.environment # "production" ->
            [risk |-> "MEDIUM", allowed |-> TRUE, approval_required |-> FALSE]
      [] OTHER ->
            [risk |-> "LOW", allowed |-> TRUE, approval_required |-> FALSE]

Allowed(call) == evaluate(call).allowed

ApprovalRequired(call) == evaluate(call).approval_required
=============================================================================
