------------------------------ MODULE LoopGuard ------------------------------
(***************************************************************************)
(* The loop detector as process() drives it, for one workflow: it is asked *)
(* once per decision, after the request and the fingerprint of the         *)
(* evidence were appended, while every answer of a tool appends a          *)
(* fingerprint without asking.  The agent may request anything; a tool may *)
(* fail, or answer with old or new evidence.                               *)
(***************************************************************************)
EXTENDS LoopDetector

CONSTANTS
    AgentTools,         \* tools the agent may request
    Fingerprints        \* values the fingerprint of the evidence may take

ASSUME LoopGuardAssumption == Fingerprints # {} /\ AgentTools # {}

VARIABLES
    tools,          \* tool_history
    progress,       \* progress_history
    fingerprint,    \* of the evidence now
    answered,       \* the last request got an answer, or none was made yet
    stopped         \* LOOP_STOPPED

vars == <<tools, progress, fingerprint, answered, stopped>>

Init ==
    /\ tools = <<>>
    /\ progress = <<>>
    /\ fingerprint \in Fingerprints
    /\ answered = FALSE
    /\ stopped = FALSE

\* A decision: append, then ask the detector.  A request whose tool failed is
\* followed by the next decision, with nothing appended in between.
Request(tool) ==
    /\ ~stopped
    /\ tools' = Append(tools, tool)
    /\ progress' = Append(progress, fingerprint)
    /\ stopped' = LoopReason(tools', progress')
    /\ answered' = FALSE
    /\ UNCHANGED fingerprint

\* The tool's result becomes evidence.
Answer(evidence) ==
    /\ ~stopped /\ ~answered /\ tools # <<>>
    /\ fingerprint' = evidence
    /\ progress' = Append(progress, evidence)
    /\ answered' = TRUE
    /\ UNCHANGED <<tools, stopped>>

Next ==
    \/ \E tool \in AgentTools : Request(tool)
    \/ \E evidence \in Fingerprints : Answer(evidence)

Spec == Init /\ [][Next]_vars

-----------------------------------------------------------------------------
\* values[from .. to] has period p.
Periodic(values, from, to, p) == \A i \in from .. to - p : values[i] = values[i + p]

\* Somewhere between from and to, a pattern of p values comes RepeatThreshold times.
Cycles(values, from, to) ==
    \E p \in 1 .. to - from + 1 : \E start \in from .. to :
        /\ start + p * RepeatThreshold - 1 <= to
        /\ Periodic(values, start, start + p * RepeatThreshold - 1, p)

CyclesNow(values) ==
    \E p \in 1 .. Len(values) :
        /\ p * RepeatThreshold <= Len(values)
        /\ Periodic(values, Len(values) - p * RepeatThreshold + 1, Len(values), p)

\* _repeated_suffix finds exactly the histories that end in a pattern repeated
\* RepeatThreshold times, for patterns of every length.
DetectsCycles == RepeatedSuffix(tools) <=> CyclesNow(tools)

\* Looking at the suffix is enough: a workflow that goes on has no cycle anywhere in
\* its history.
NoCycleSurvives == ~stopped => ~Cycles(tools, 1, Len(tools))

\* Asking only at decisions is enough: although answers append fingerprints too, a
\* workflow that has just passed a decision has nowhere in its history made
\* RepeatThreshold observations in a row without a change of the evidence.
NoStuckRunSurvives ==
    ~stopped /\ ~answered =>
        \A start \in 1 .. Len(progress) - RepeatThreshold + 1 :
            \E i \in start + 1 .. start + RepeatThreshold - 1 : progress[i] # progress[start]
=============================================================================
