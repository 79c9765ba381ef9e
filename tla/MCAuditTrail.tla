---------------------------- MODULE MCAuditTrail ----------------------------
(* A small instance of AuditTrail for TLC. *)
EXTENDS AuditTrail, MCCalls

\* The same restart of another service: a second action with an approval of its own.
RestartOther == [Restart EXCEPT !.target = "other"]

\* One call that runs at once and two that need a human each.
AuditedCalls == {Inspect, Restart, RestartOther}

\* Nothing depends on the subscriber, who multiplies the states: the incident is
\* followed to the end of every undisturbed history, and after a crash or a replay
\* for as long as the agent has decided only once or not at all.
StreamBound ==
    \/ stream.pc = "closed"
    \/ crashes + replays = 0
    \/ crashes + replays + Len(workflows[SomeTask].tool_history) <= 2
=============================================================================
