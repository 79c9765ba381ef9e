------------------------------- MODULE Models -------------------------------
(***************************************************************************)
(* The data the runtime moves around (models.py): the workflow checkpoint, *)
(* its status, and the tool calls an agent may ask for.                    *)
(*                                                                         *)
(* A checkpoint keeps the fields that some branch of the program reads.    *)
(* Texts (goal, diagnosis, remediation, rationale, last_error,             *)
(* final_answer), the display field current_step, timestamps and the       *)
(* telemetry counters (retries, model_calls, tokens, tool_calls) are       *)
(* written but never tested by the runtime and are left out.               *)
(* completed_steps is the set of tools with evidence: _execute_tool is the *)
(* only writer of both and always writes both.                             *)
(***************************************************************************)
EXTENDS Naturals, Sequences

CONSTANTS
    Tasks,      \* workflow identifiers (task_id)
    Calls,      \* the validated tool calls the agent may request
    Results,    \* the structured results a tool backend may return
    NoCall,     \* "no pending action" and "no call chosen"
    NoResult    \* "no evidence for this tool" and "no row in tool_results"

ToolName == {"read_alert", "inspect_metrics", "query_logs", "dependency_health",
             "restart_service", "delete_database", "verify_recovery"}

Environment == {"production", "staging", "test"}

\* Arguments other than the environment only have to tell two calls apart:
\* target stands for the service and dependency names.
Call == [tool : ToolName, environment : Environment, target : STRING]

ASSUME ModelsAssumption ==
    /\ Tasks # {}
    /\ Calls \subseteq Call
    /\ NoCall \notin Calls
    /\ NoResult \notin Results

\* Some task, where a variable needs a value that does not matter.
SomeTask == CHOOSE task \in Tasks : TRUE

Tools == {c.tool : c \in Calls}

WorkflowStatus == {"QUEUED", "RUNNING", "WAITING_FOR_APPROVAL", "COMPLETED", "FAILED",
                   "DEAD_LETTERED", "LOOP_STOPPED", "HUMAN_REJECTED"}

TerminalStatus == {"COMPLETED", "FAILED", "DEAD_LETTERED", "LOOP_STOPPED", "HUMAN_REJECTED"}

Evidence == [Tools -> Results \cup {NoResult}]

Checkpoint == [status : WorkflowStatus,
               version : Nat,
               evidence : Evidence,
               tool_history : Seq(Tools),
               progress_history : Seq(Evidence),
               pending_action : Calls \cup {NoCall}]

NewWorkflow == [status |-> "QUEUED",
                version |-> 0,
                evidence |-> [tool \in Tools |-> NoResult],
                tool_history |-> <<>>,
                progress_history |-> <<>>,
                pending_action |-> NoCall]

terminal(state) == state.status \in TerminalStatus

completed_steps(state) == {tool \in Tools : state.evidence[tool] # NoResult}

\* The idempotency key of a call: action_id hashes the task, the tool and the arguments.
Key == Tasks \X Calls

action_id(task, call) == <<task, call>>
=============================================================================
