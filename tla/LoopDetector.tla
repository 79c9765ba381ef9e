---------------------------- MODULE LoopDetector ----------------------------
(***************************************************************************)
(* The deterministic loop stop (loop_detector.py).  It reads the tools the *)
(* agent asked for and one fingerprint of the evidence per decision and    *)
(* per tool result.                                                        *)
(***************************************************************************)
EXTENDS Naturals, Sequences, FiniteSets

CONSTANTS
    RepeatThreshold,    \* repeat_threshold, 4 by default
    MaxToolCalls        \* max_tool_calls, 20 by default

ASSUME LoopDetectorAssumption ==
    /\ RepeatThreshold \in Nat /\ RepeatThreshold >= 2
    /\ MaxToolCalls \in Nat

\* values[-n:] : the last n elements.
LastN(values, n) == SubSeq(values, Len(values) - n + 1, Len(values))

\* pattern * n
Repeat(pattern, n) == [i \in 1 .. n * Len(pattern) |-> pattern[((i - 1) % Len(pattern)) + 1]]

\* Not the code, as the other Mutant... definitions: a bug a run must catch.
\* The longest pattern is left out.
MutantRepeatedSuffixShort(values) ==
    \E length \in 1 .. (Len(values) \div RepeatThreshold) - 1 :
        LET tail == LastN(values, length * RepeatThreshold)
        IN  tail = Repeat(SubSeq(tail, 1, length), RepeatThreshold)

\* Only the same tool over and over is a cycle.
MutantRepeatedTool(values) ==
    /\ Len(values) >= RepeatThreshold
    /\ LastN(values, RepeatThreshold) = Repeat(LastN(values, 1), RepeatThreshold)

RepeatedSuffix(values) ==
    \E length \in 1 .. Len(values) \div RepeatThreshold :
        LET tail == LastN(values, length * RepeatThreshold)
        IN  tail = Repeat(SubSeq(tail, 1, length), RepeatThreshold)

\* The window is one fingerprint too long.
MutantNoProgressLate(progress) ==
    /\ Len(progress) > RepeatThreshold
    /\ \A i, j \in Len(progress) - RepeatThreshold .. Len(progress) : progress[i] = progress[j]

\* The window is one fingerprint too short.
MutantNoProgressEarly(progress) ==
    /\ Len(progress) >= RepeatThreshold - 1
    /\ \A i, j \in Len(progress) - RepeatThreshold + 2 .. Len(progress) : progress[i] = progress[j]

NoProgress(progress) ==
    /\ Len(progress) >= RepeatThreshold
    /\ \A i, j \in Len(progress) - RepeatThreshold + 1 .. Len(progress) :
            progress[i] = progress[j]

\* reason() returns a text or None; the runtime only asks whether it is None.
LoopReason(tools, progress) ==
    \/ Len(tools) >= MaxToolCalls
    \/ RepeatedSuffix(tools)
    \/ NoProgress(progress)
=============================================================================
