--------------------------- MODULE RecoveryProofs ---------------------------
(***************************************************************************)
(* The way from an alert to verified recovery, for every set of incidents, *)
(* workers and handlers and for every backend: the reference agent does    *)
(* its steps in order whoever resumes it (ResumesAtNextStep), and closes   *)
(* an incident as recovered only after an approved restart that is no      *)
(* longer being rolled out (CompletedIsRecovered).                         *)
(*                                                                         *)
(* With the engine and the backend filled in, a step is a step of          *)
(* AgentResilience, so its invariants hold.  A copy that can still be      *)
(* saved has the steps of a prefix, and the call in a worker's hand is     *)
(* the one after it.  Verification therefore comes after the restart is    *)
(* in the ledger, and what is in the ledger is not carried out again.      *)
(***************************************************************************)
EXTENDS RecoveryWorkload, UndisturbedProofs

-----------------------------------------------------------------------------
(* The order of the steps *)

Prefix(n) == {Steps[i] : i \in 1 .. n}

StepsInOrder(s) == \E n \in 0 .. 6 : completed_steps(s) = Prefix(n)

\* The reference agent would ask for c.
NextCall(s, c) == Missing(s) # {} /\ c = CallOf(Steps[Min(Missing(s))])

Sound(s) == StepsInOrder(s) /\ (s.pending_action # NoCall => NextCall(s, s.pending_action))

LEMMA StepsDistinct ==
  /\ DOMAIN Steps = 1 .. 6
  /\ \A i \in 1 .. 6 : Steps[i] \in ToolName
  /\ \A i, j \in 1 .. 6 : Steps[i] = Steps[j] => i = j
<1>1. /\ DOMAIN Steps = 1 .. 6
      /\ \A i \in 1 .. 6 : Steps[i] \in ToolName
  BY SMT DEF Steps, ToolName
<1>2. ASSUME NEW i \in 1 .. 6, NEW j \in 1 .. 6, Steps[i] = Steps[j]
      PROVE  i = j
  BY <1>2, SMT DEF Steps
<1> QED
  BY <1>1, <1>2

LEMMA StepCalls ==
  ASSUME NEW i \in 1 .. 6
  PROVE  /\ CallOf(Steps[i]) \in Calls
         /\ CallOf(Steps[i]).tool = Steps[i]
         /\ Steps[i] \in Tools
<1>1. CallOf(Steps[i]) \in Calls
  BY StepsDistinct, DecisionEngineAssumption
<1>2. CallOf(Steps[i]).tool = Steps[i]
  BY DEF CallOf
<1> QED
  BY <1>1, <1>2 DEF Tools

LEMMA NamedSteps ==
  /\ Steps[5] = "restart_service" /\ Steps[6] = "verify_recovery"
  /\ {CallOf("restart_service"), CallOf("verify_recovery")} \subseteq Calls
  /\ CallOf("restart_service") # CallOf("verify_recovery")
<1>1. Steps[5] = "restart_service" /\ Steps[6] = "verify_recovery"
  BY SMT DEF Steps
<1>2. CallOf("restart_service") # CallOf("verify_recovery")
  BY DEF CallOf
<1> QED
  BY <1>1, <1>2, StepCalls, SMT

\* What is missing after the first n steps, and what the agent asks for then.
LEMMA MissingAfter ==
  ASSUME NEW s \in Checkpoint, NEW n \in 0 .. 6, completed_steps(s) = Prefix(n)
  PROVE  /\ Missing(s) = (n + 1) .. 6
         /\ n < 6 => Min(Missing(s)) = n + 1
<1>1. ASSUME NEW i \in 1 .. 6 PROVE s.evidence[Steps[i]] = NoResult <=> i > n
  <2>1. Steps[i] \in completed_steps(s) <=> s.evidence[Steps[i]] # NoResult
    BY StepCalls DEF completed_steps
  <2>2. Steps[i] \in Prefix(n) <=> i <= n
    BY StepsDistinct, SMT DEF Prefix
  <2> QED
    BY <2>1, <2>2, SMT
<1>2. Missing(s) = (n + 1) .. 6
  <2>1. Missing(s) = {i \in 1 .. 6 : s.evidence[Steps[i]] = NoResult}
    BY StepsDistinct DEF Missing
  <2> HIDE DEF Steps
  <2>2. Missing(s) = {i \in 1 .. 6 : i > n}
    BY <1>1, <2>1
  <2> QED
    BY <2>2, SMT
<1>3. ASSUME n < 6 PROVE Min((n + 1) .. 6) = n + 1
  <2>1. \A x \in (n + 1) .. 6 : (\A y \in (n + 1) .. 6 : x <= y) <=> x = n + 1
    BY <1>3, SMT
  <2>2. n + 1 \in (n + 1) .. 6
    BY <1>3, SMT
  <2> QED
    BY <2>1, <2>2 DEF Min
<1> QED
  BY <1>2, <1>3

LEMMA NextCallTool ==
  ASSUME NEW s \in Checkpoint, StepsInOrder(s), NEW c, NextCall(s, c)
  PROVE  \E n \in 0 .. 5 :
            /\ completed_steps(s) = Prefix(n)
            /\ c = CallOf(Steps[n + 1]) /\ c \in Calls /\ c.tool = Steps[n + 1]
<1>1. PICK n \in 0 .. 6 : completed_steps(s) = Prefix(n)
  BY DEF StepsInOrder
<1>2. n \in 0 .. 5
  <2>1. Missing(s) = (n + 1) .. 6 /\ Missing(s) # {}
    BY <1>1, MissingAfter DEF NextCall
  <2> QED
    BY <2>1, SMT
<1>3. c = CallOf(Steps[n + 1])
  BY <1>1, <1>2, MissingAfter, SMT DEF NextCall
<1>4. n + 1 \in 1 .. 6
  BY <1>2, SMT
<1> QED
  BY <1>1, <1>2, <1>3, <1>4, StepCalls

\* Who is at verification has the restart behind him.
LEMMA VerifyComesAfter ==
  ASSUME NEW s \in Checkpoint, StepsInOrder(s), NextCall(s, CallOf("verify_recovery"))
  PROVE  "restart_service" \in completed_steps(s)
<1>1. PICK n \in 0 .. 5 : /\ completed_steps(s) = Prefix(n)
                          /\ CallOf("verify_recovery").tool = Steps[n + 1]
  BY NextCallTool
<1>2. Steps[n + 1] = Steps[6]
  BY <1>1, NamedSteps DEF CallOf
<1>3. n = 5
  <2>1. n + 1 \in 1 .. 6 /\ 6 \in 1 .. 6
    BY <1>1, SMT
  <2>2. n + 1 = 6
    BY <1>2, <2>1, StepsDistinct
  <2> QED
    BY <1>1, <2>2, SMT
<1>4. Steps[5] \in Prefix(5)
  BY SMT DEF Prefix
<1> QED
  BY <1>1, <1>3, <1>4, NamedSteps

\* What Sound reads of a checkpoint.
LEMMA SoundFields ==
  ASSUME NEW s, NEW t, t.evidence = s.evidence
  PROVE  /\ completed_steps(t) = completed_steps(s)
         /\ Missing(t) = Missing(s)
         /\ StepsInOrder(t) <=> StepsInOrder(s)
         /\ \A c : NextCall(t, c) <=> NextCall(s, c)
         /\ Sound(s) /\ t.pending_action \in {s.pending_action, NoCall} => Sound(t)
<1>1. completed_steps(t) = completed_steps(s) /\ Missing(t) = Missing(s)
  BY DEF completed_steps, Missing
<1> QED
  BY <1>1 DEF StepsInOrder, NextCall, Sound

LEMMA NewWorkflowSound ==
  Sound(NewWorkflow) /\ completed_steps(NewWorkflow) = {}
<1>1. completed_steps(NewWorkflow) = {} /\ NewWorkflow.pending_action = NoCall
  BY DEF completed_steps, NewWorkflow
<1>2. Prefix(0) = {}
  BY SMT DEF Prefix
<1>3. 0 \in 0 .. 6
  BY SMT
<1> QED
  BY <1>1, <1>2, <1>3 DEF Sound, StepsInOrder

LEMMA PrefixGrows ==
  ASSUME NEW n \in 0 .. 5
  PROVE  Prefix(n + 1) = Prefix(n) \cup {Steps[n + 1]}
<1>1. 1 .. (n + 1) = (1 .. n) \cup {n + 1}
  BY SMT
<1> HIDE DEF Steps
<1> QED
  BY <1>1 DEF Prefix

LEMMA PrefixSize ==
  ASSUME NEW n \in 0 .. 6
  PROVE  Cardinality(Prefix(n)) = n
<1> DEFINE f == [i \in 1 .. n |-> Steps[i]]
<1>1. f \in Bijection(1 .. n, Prefix(n))
  <2>1. \A i \in 1 .. n : i \in 1 .. 6
    BY SMT
  <2> HIDE DEF Steps
  <2>2. f \in [1 .. n -> Prefix(n)]
    BY DEF Prefix
  <2>3. \A a, b \in 1 .. n : f[a] = f[b] => a = b
    BY <2>1, StepsDistinct
  <2>4. \A t \in Prefix(n) : \E i \in 1 .. n : f[i] = t
    BY DEF Prefix
  <2> QED
    BY <2>2, <2>3, <2>4 DEF Bijection, Injection, Surjection, IsInjective
<1>2. IsFiniteSet(1 .. n) /\ Cardinality(1 .. n) = n
  <2>1. IsFiniteSet(1 .. n) /\ Cardinality(1 .. n) = IF 1 > n THEN 0 ELSE n - 1 + 1
    BY FS_Interval, SMT
  <2> QED
    BY <2>1, SMT
<1> HIDE DEF f
<1>3. ExistsBijection(1 .. n, Prefix(n))
  BY <1>1 DEF ExistsBijection
<1> QED
  BY <1>2, <1>3, FS_Bijection

\* The answer to the next call is evidence for the next step.
LEMMA StepCompletes ==
  ASSUME NEW s \in Checkpoint, StepsInOrder(s), NEW c \in Calls, NextCall(s, c),
         NEW r \in Results, NEW t,
         t.evidence = [s.evidence EXCEPT ![c.tool] = r]
  PROVE  /\ StepsInOrder(t)
         /\ completed_steps(t) = completed_steps(s) \cup {c.tool}
         /\ c = CallOf(c.tool)
         /\ c.tool = ExpectedSteps[Cardinality(completed_steps(s)) + 1]
<1>1. PICK n \in 0 .. 5 : /\ completed_steps(s) = Prefix(n)
                          /\ c = CallOf(Steps[n + 1]) /\ c.tool = Steps[n + 1]
  BY NextCallTool
<1>2. completed_steps(t) = completed_steps(s) \cup {c.tool}
  <2>1. c.tool \in Tools
    BY DEF Tools
  <2>2. s.evidence \in [Tools -> Results \cup {NoResult}]
    BY DEF Checkpoint, Evidence
  <2>3. \A tool \in Tools : t.evidence[tool] = IF tool = c.tool THEN r ELSE s.evidence[tool]
    BY <2>1, <2>2
  <2>4. r # NoResult
    BY ModelsAssumption
  <2> QED
    BY <2>1, <2>3, <2>4 DEF completed_steps
<1>3. n + 1 \in 0 .. 6 /\ n \in 0 .. 6
  BY SMT
<1>4. StepsInOrder(t)
  BY <1>1, <1>2, <1>3, PrefixGrows DEF StepsInOrder
<1>5. Cardinality(completed_steps(s)) = n
  BY <1>1, <1>3, PrefixSize
<1>6. ExpectedSteps = Steps
  BY DEF ExpectedSteps, Steps
<1> QED
  BY <1>1, <1>2, <1>4, <1>5, <1>6

-----------------------------------------------------------------------------
(* A step with the engine and the backend filled in *)

LEMMA ToolsDecide ==
  ASSUME NEW s \in Checkpoint, StepsInOrder(s)
  PROVE  /\ Missing(s) # {} =>
                /\ decide(s) \in ToolName
                /\ CallOf(decide(s)) \in Calls /\ NextCall(s, CallOf(decide(s)))
         /\ Missing(s) = {} => decide(s) \in {"complete", "fail"}
<1>1. CASE Missing(s) = {}
  BY <1>1 DEF decide
<1>2. CASE Missing(s) # {}
  <2>1. decide(s) = Steps[Min(Missing(s))]
    BY <1>2 DEF decide
  <2>2. NextCall(s, CallOf(decide(s)))
    BY <1>2, <2>1 DEF NextCall
  <2>3. PICK n \in 0 .. 5 : CallOf(decide(s)) \in Calls /\ CallOf(decide(s)).tool = Steps[n + 1]
    BY <2>2, NextCallTool
  <2>4. n + 1 \in 1 .. 6
    BY SMT
  <2>5. decide(s) \in ToolName
    BY <2>3, <2>4, StepsDistinct DEF CallOf
  <2> QED
    BY <1>2, <2>2, <2>3, <2>5
<1> QED
  BY <1>1, <1>2

\* What the engine decided is what the checkpoint lacks.
LEMMA DecideChoice ==
  ASSUME NEW w \in Workers, state[w] \in Checkpoint, StepsInOrder(state[w]), Decide(w)
  PROVE  \/ \E c \in Calls : NextCall(state[w], c) /\ DecideTool(w, c)
         \/ Missing(state[w]) = {} /\ DecideComplete(w)
         \/ DecideFail(w)
<1> DEFINE s == state[w]
<1>1. {"complete", "fail"} \cap ToolName = {}
  BY DEF ToolName
<1>2. CASE decide(s) \in ToolName /\ DecideTool(w, CallOf(decide(s)))
  BY <1>1, <1>2, ToolsDecide
<1>3. CASE decide(s) = "complete" /\ DecideComplete(w)
  <2>1. "complete" \notin ToolName
    BY <1>1
  <2> QED
    BY <1>3, <2>1, ToolsDecide
<1>4. CASE decide(s) = "fail" /\ DecideFail(w)
  BY <1>4
<1> QED
  BY <1>2, <1>3, <1>4 DEF Decide

LEMMA ScenarioAnswers ==
  ASSUME NEW w \in Workers, BackendTypeOK
  PROVE  ScenarioResult(w) \in Results
<1>1. {"evidence", "healthy", "unhealthy"} \subseteq Results
  BY DecisionEngineAssumption
<1>2. backend.after_restart \in {"healthy", "unhealthy"}
  BY OperationsBackendAssumption DEF BackendTypeOK, Backend
<1> QED
  BY <1>1, <1>2 DEF ScenarioResult

\* A copy that can still be saved has its steps in order, and the call in hand is the
\* next one.
CopySound(w) ==
    /\ wpc[w] \in CopyPC => Sound(state[w])
    /\ wpc[w] \in CallPC => NextCall(state[w], call[w])

LEMMA RunOnceIsRuntime ==
  ASSUME LocalTypeOK, BackendTypeOK, NEW w \in Workers, CopySound(w), RecoveryRunOnce(w)
  PROVE  RunOnceStep(w) /\ UNCHANGED handlerVars
<1>1. state[w] \in Checkpoint
  BY DEF LocalTypeOK
<1>2. {"evidence", "healthy", "unhealthy"} \subseteq Results /\ ScenarioResult(w) \in Results
  BY DecisionEngineAssumption, ScenarioAnswers
<1>3. RecoveryProcess(w) => ProcessStep(w)
  <2>1. Decide(w) => ProcessStep(w)
    <3>1. ASSUME Decide(w) PROVE ProcessStep(w)
      <4>1. wpc[w] = "decide"
        BY <3>1 DEF Decide, DecideTool, DecideComplete, DecideFail
      <4>2. StepsInOrder(state[w])
        BY <4>1 DEF CopySound, CopyPC, RuntimePC, Sound
      <4> QED
        BY <1>1, <3>1, <4>2, DecideChoice DEF ProcessStep
    <3> QED
      BY <3>1
  <2>2. Execute(w) => ProcessStep(w)
    BY <1>2
    DEF Execute, ScenarioExecute, AWSExecute, AWSCallFails, ReadService, RestartService,
        VerifyRecovery, ProcessStep
  <2> QED
    BY <2>1, <2>2 DEF RecoveryProcess
<1> QED
  BY <1>3 DEF RecoveryRunOnce, RunOnceStep

\* With the engine and the backend filled in, the runtime does nothing new.
LEMMA RecoveryIsRuntime ==
  ASSUME LocalTypeOK, BackendTypeOK, \A w \in Workers : CopySound(w),
         [RecoveryNext]_recoveryVars
  PROVE  [Next]_vars
<1>1. ASSUME NEW w \in Workers, RecoveryRunOnce(w) PROVE Next
  BY <1>1, RunOnceIsRuntime DEF Next, WorkerNext
<1>2. CASE ControlStep /\ UNCHANGED <<workerVars, backendVars>>
  BY <1>2 DEF Next
<1>3. CASE Disturbance
  BY <1>3 DEF Disturbance, Next, WorkerNext
<1>4. CASE UNCHANGED vars
  BY <1>4
<1> QED
  BY <1>1, <1>2, <1>3, <1>4 DEF RecoveryNext, recoveryVars

LEMMA RecoveryOwn ==
  ASSUME LocalTypeOK, BackendTypeOK, \A w \in Workers : CopySound(w),
         [RecoveryNext]_recoveryVars, NEW v \in Workers
  PROVE  RecoveryRunOnce(v) \/ SameWork(v) \/ wpc'[v] = "idle"
<1>1. ASSUME NEW w \in Workers, RecoveryRunOnce(w)
      PROVE  RecoveryRunOnce(v) \/ SameWork(v)
  BY <1>1, RunOnceIsRuntime, RunOnceOthersKeep DEF OthersKeep, SameWork
<1>2. ASSUME NEW w \in Workers, WorkerCrash(w)
      PROVE  SameWork(v) \/ wpc'[v] = "idle"
  BY <1>2 DEF WorkerCrash, Finish, Goto, LocalTypeOK, SameWork
<1>3. ASSUME UNCHANGED <<wpc, delivery, state, call, result>> PROVE SameWork(v)
  BY <1>3 DEF SameWork
<1>4. ASSUME NEW w \in Workers, Heartbeat(w) PROVE SameWork(v)
  BY <1>3, <1>4 DEF Heartbeat, workerVars, runtimeVars, localVars
<1>5. ASSUME NEW i \in DOMAIN queue, LeaseExpires(i) PROVE SameWork(v)
  BY <1>3, <1>5 DEF LeaseExpires, runtimeVars, localVars
<1>6. ASSUME \/ UNCHANGED workerVars
             \/ \E h \in Handlers : HandlerCrash(h)
             \/ UNCHANGED vars
      PROVE  SameWork(v)
  BY <1>3, <1>6 DEF workerVars, runtimeVars, localVars, HandlerCrash, vars
<1> QED
  BY <1>1, <1>2, <1>4, <1>5, <1>6 DEF RecoveryNext, Disturbance, recoveryVars

-----------------------------------------------------------------------------
(* The service *)

\* A rollout begins with a restart by a worker that runs on AWS.
RolloutMove ==
    \/ rollout' \in {rollout, FALSE}
    \/ /\ backend.adapter = "aws"
       /\ \E w \in Workers :
            wpc[w] = "backend" /\ call[w].tool = "restart_service" /\ Effect(CurrentKey(w))

LEMMA BackendMoves ==
  ASSUME BackendTypeOK, [RecoveryNext]_recoveryVars
  PROVE  backend' = backend /\ BackendTypeOK' /\ RolloutMove
<1>1. CASE UNCHANGED backendVars
  BY <1>1 DEF backendVars, serviceVars, BackendTypeOK, RolloutMove
<1>2. ASSUME NEW w \in Workers, wpc[w] = "backend", Execute(w)
      PROVE  backend' = backend /\ BackendTypeOK' /\ RolloutMove
  <2>1. CASE UNCHANGED serviceVars
    BY <1>1, <1>2, <2>1 DEF Execute, backendVars
  <2>2. CASE backend.adapter = "aws" /\ RestartService(w)
    <3>1. Effect(CurrentKey(w)) /\ call[w].tool = "restart_service"
      BY <2>2 DEF RestartService, BackendSucceeds, BackendTimesOut
    <3>2. backend' = backend /\ rollout' = TRUE /\ UNCHANGED <<unhealthy, sample_ok>>
      BY <1>2, <2>2 DEF Execute, RestartService
    <3> QED
      BY <1>2, <2>2, <3>1, <3>2 DEF BackendTypeOK, RolloutMove
  <2> QED
    BY <1>2, <2>1, <2>2
    DEF Execute, ScenarioExecute, AWSExecute, AWSCallFails, ReadService, VerifyRecovery
<1>3. CASE ServiceStep
  BY <1>3
  DEF ServiceStep, Degrade, PublishSample, RolloutCompletes, BackendTypeOK, RolloutMove
<1> QED
  BY <1>1, <1>2, <1>3
  DEF RecoveryNext, RecoveryRunOnce, RecoveryProcess, recoveryVars

\* A backend answers verification only when nothing is being rolled out.
LEMMA VerifiedCalmly ==
  ASSUME LocalTypeOK, BackendTypeOK, backend.adapter = "scenario" => ~rollout,
         NEW w \in Workers, RecoveryRunOnce(w), wpc[w] = "backend", wpc'[w] = "save_result",
         call[w].tool = "verify_recovery"
  PROVE  ~rollout /\ ~rollout'
<1>1. Execute(w)
  BY DEF RecoveryRunOnce, RecoveryProcess, Decide, DecideTool, DecideComplete, DecideFail, RuntimePC
<1>2. ASSUME BackendFailsRetryably(w) \/ BackendFailsPermanently(w) PROVE FALSE
  BY <1>2
  DEF BackendFailsRetryably, BackendFailsPermanently, FailRetryably, Fail, SaveAndRaise,
      SaveAndReturn, StaleSave, LeaveProcess, Return, Goto, LocalTypeOK
<1> QED
  BY <1>1, <1>2
  DEF Execute, ScenarioExecute, AWSExecute, AWSCallFails, ReadService, RestartService,
      VerifyRecovery, Recovered, serviceVars

-----------------------------------------------------------------------------
(* Copies and the calls in hand *)

\* How a worker comes to hold a copy it can save: it has just loaded the row, or it goes
\* on with the evidence it had and with the call it had, resumes or was told to make.
CopyMove(w) ==
    \/ state'[w] = workflows[Task(w)] /\ wpc'[w] \notin CallPC
    \/ /\ wpc[w] \in CopyPC
       /\ state'[w].evidence = state[w].evidence
       /\ \/ state'[w].pending_action = state[w].pending_action
          \/ wpc[w] = "pend" /\ state'[w].pending_action = call[w]
       /\ wpc'[w] \in CallPC =>
            \/ wpc[w] \in CallPC /\ call'[w] = call[w]
            \/ /\ wpc[w] = "approval" /\ call'[w] = state[w].pending_action
               /\ state[w].pending_action # NoCall
            \/ wpc[w] = "decide" /\ NextCall(state[w], call'[w])

LEMMA LeavesCopy ==
  ASSUME LocalTypeOK, NEW w \in Workers,
         \/ \E new : StaleSave(w, new) \/ SaveAndReturn(w, new) \/ SaveAndRaise(w, new) \/ Return(w, new)
         \/ \E pc \in WorkerPC \ CopyPC : LeaveProcess(w, pc) \/ Goto(w, pc)
         \/ Finish(w)
  PROVE  wpc'[w] \notin CopyPC
BY DEF StaleSave, SaveAndReturn, SaveAndRaise, Return, LeaveProcess, Goto, Finish, LocalTypeOK,
       CopyPC, RuntimePC, WorkerPC

LEMMA SavedFields ==
  ASSUME NEW s \in Checkpoint
  PROVE  /\ Saved(s).evidence = s.evidence
         /\ Saved(s).pending_action = s.pending_action
         /\ Saved(s).status = s.status
BY DEF Saved, Checkpoint

LEMMA DecideCopyMove ==
  ASSUME NEW w \in Workers, Busy(w), NEW c \in Calls, NextCall(state[w], c), DecideTool(w, c),
         wpc'[w] \in CopyPC
  PROVE  CopyMove(w) /\ Task(w)' = Task(w)
<1> DEFINE new == Requested(state[w], c)
<1>1. LocalTypeOK /\ state[w] \in Checkpoint
  BY HeldTypes DEF Busy
<1>2. new \in Checkpoint /\ new.evidence = state[w].evidence
      /\ new.pending_action = state[w].pending_action
  <2>1. new \in Checkpoint
    BY <1>1, RequestedType
  <2> QED
    BY <1>1, <2>1 DEF Requested, Checkpoint
<1> HIDE DEF new
<1>3. /\ wpc[w] = "decide" /\ delivery' = delivery
      /\ state' = [state EXCEPT ![w] = Saved(new)] /\ call' = [call EXCEPT ![w] = c]
  BY <1>1, LeavesCopy DEF DecideTool, new
<1>4. state'[w] = Saved(new) /\ call'[w] = c
  BY <1>1, <1>3 DEF LocalTypeOK
<1> QED
  BY <1>2, <1>3, <1>4, SavedFields DEF CopyMove, CopyPC, RuntimePC, Task

LEMMA SaveCopyMove ==
  ASSUME NEW w \in Workers, Busy(w), SaveRunning(w) \/ SaveWaiting(w), wpc'[w] \in CopyPC
  PROVE  CopyMove(w) /\ Task(w)' = Task(w)
<1>1. /\ LocalTypeOK /\ state[w] \in Checkpoint /\ call[w] \in Calls \cup {NoCall}
      /\ {"RUNNING", "WAITING_FOR_APPROVAL"} \subseteq WorkflowStatus
  BY HeldTypes DEF Busy, WorkflowStatus
<1>2. CASE SaveRunning(w)
  <2> DEFINE new == [state[w] EXCEPT !.status = "RUNNING"]
  <2>1. new \in Checkpoint /\ new.evidence = state[w].evidence
        /\ new.pending_action = state[w].pending_action
    BY <1>1, StatusEvidence, StatusFields
  <2>2. SaveAndGoto(w, new, "decide") /\ wpc[w] = "running"
    BY <1>2 DEF SaveRunning
  <2> HIDE DEF new
  <2>3. state'[w] = Saved(new) /\ wpc'[w] = "decide" /\ delivery' = delivery
    BY <1>1, <2>2, LeavesCopy DEF SaveAndGoto, Goto, LocalTypeOK
  <2> QED
    BY <2>1, <2>2, <2>3, SavedFields DEF CopyMove, CopyPC, RuntimePC, CallPC, Task
<1>3. CASE SaveWaiting(w)
  <2> DEFINE c == call[w]
             s == state[w]
             new == [s EXCEPT !.status = "WAITING_FOR_APPROVAL", !.pending_action = c]
  <2>1. SaveAndGoto(w, new, "create_approval") /\ wpc[w] = "pend"
    BY <1>3 DEF SaveWaiting
  <2>2. new \in Checkpoint /\ new.evidence = s.evidence /\ new.pending_action = c
    <3>1. s \in Checkpoint /\ c \in Calls \cup {NoCall}
      BY <1>1
    <3> HIDE DEF s, c
    <3>2. new \in Checkpoint
      BY <1>1, <3>1, PendingType
    <3> QED
      BY <3>1, <3>2 DEF Checkpoint
  <2> HIDE DEF new
  <2>3. state'[w] = Saved(new) /\ delivery' = delivery /\ call' = call
    BY <1>1, <2>1, LeavesCopy DEF SaveAndGoto, Goto, LocalTypeOK
  <2> QED
    BY <2>1, <2>2, <2>3, SavedFields DEF CopyMove, CopyPC, RuntimePC, CallPC, Task
<1> QED
  BY <1>2, <1>3

LEMMA LoadCopyMove ==
  ASSUME NEW w \in Workers, Busy(w), Load(w) \/ DeadLoad(w) \/ PermanentLoad(w),
         wpc'[w] \in CopyPC
  PROVE  CopyMove(w) /\ Task(w)' = Task(w)
<1>1. LocalTypeOK
  BY DEF Busy
<1>2. CASE Load(w)
  BY <1>1, <1>2, LeavesCopy
  DEF Load, Goto, AfterLoad, LocalTypeOK, CopyMove, CallPC, Task
<1>3. CASE DeadLoad(w) \/ PermanentLoad(w)
  BY <1>1, <1>3, LeavesCopy
  DEF DeadLoad, PermanentLoad, Reload, Goto, LocalTypeOK, CopyMove, CallPC, Task
<1> QED
  BY <1>2, <1>3

LEMMA GatewayCopyMove ==
  ASSUME NEW w \in Workers, Busy(w), wpc'[w] \in CopyPC,
         \/ ResumeApprovedAction(w) \/ LookupResult(w) \/ SaveToolResult(w)
         \/ \E r \in Results : BackendSucceeds(w, r)
  PROVE  CopyMove(w) /\ Task(w)' = Task(w)
<1>1. LocalTypeOK
  BY DEF Busy
<1>2. CASE ResumeApprovedAction(w)
  <2>1. state[w].pending_action # NoCall
    BY <1>1, <1>2, ModelsAssumption DEF ResumeApprovedAction, LocalTypeOK, CallChosen
  <2> QED
    BY <1>1, <1>2, <2>1, LeavesCopy
    DEF ResumeApprovedAction, Goto, LocalTypeOK, CopyMove, CopyPC, RuntimePC, Task
<1>3. CASE LookupResult(w) \/ SaveToolResult(w) \/ \E r \in Results : BackendSucceeds(w, r)
  BY <1>3
  DEF LookupResult, SaveToolResult, BackendSucceeds, localVars, CopyMove, CopyPC, RuntimePC,
      CallPC, Task
<1> QED
  BY <1>2, <1>3

LEMMA RunOnceCopyMove ==
  ASSUME StoreTypeOK, LocalTypeOK, BackendTypeOK, NEW w \in Workers, CopySound(w),
         RecoveryRunOnce(w), wpc'[w] \in CopyPC
  PROVE  CopyMove(w) /\ Task(w)' = Task(w)
<1>1. RunOnceStep(w) /\ state[w] \in Checkpoint
  BY RunOnceIsRuntime DEF LocalTypeOK
<1>2. CASE wpc[w] = "decide"
  <2>1. Decide(w)
    BY <1>2
    DEF RecoveryRunOnce, RecoveryProcess, RuntimePC
  <2>2. Busy(w) /\ StepsInOrder(state[w])
    BY <1>2 DEF Busy, CopySound, Sound, CopyPC, RuntimePC
  <2>3. ~DecideComplete(w) /\ ~DecideFail(w)
    BY LeavesCopy DEF DecideComplete, DecideFail, Fail
  <2> QED
    BY <1>1, <2>1, <2>2, <2>3, DecideChoice, DecideCopyMove
<1>3. CASE ProcessStep(w) /\ wpc[w] # "decide"
  <2>1. Busy(w)
    BY <1>3, StepBusy
  <2>2. ~\/ \E new : SaveAndReturn(w, new) \/ SaveAndRaise(w, new) \/ Return(w, new)
    BY LeavesCopy
  <2> QED
    BY <1>3, <2>1, <2>2, SaveCopyMove, LoadCopyMove, GatewayCopyMove
    DEF ProcessStep, ModelFailsRetryably, ModelFailsPermanently, DecideComplete, DecideFail,
        DecideTool, PolicyDenied, CreateApproval, BackendFailsRetryably, BackendTimesOut,
        BackendFailsPermanently, RecordResult, Fail, FailRetryably
<1>4. CASE ReportStep(w) /\ wpc[w] # "decide"
  <2>1. Busy(w)
    BY <1>4, StepBusy
  <2>2. ~Finish(w) /\ \A pc \in WorkerPC \ CopyPC : ~LeaveProcess(w, pc) /\ ~Goto(w, pc)
    BY LeavesCopy
  <2>3. {"enqueue", "dead", "perm_load"} \subseteq WorkerPC \ CopyPC
    BY DEF WorkerPC, CopyPC, RuntimePC
  <2> QED
    BY <1>4, <2>1, <2>2, <2>3, LoadCopyMove
    DEF ReportStep, Acknowledge, Enqueue, RetryOrDeadLetter, DeadSave, PermanentAcknowledge,
        PermanentSave, SaveFinal
<1>5. CASE \E i \in DOMAIN queue : Claim(w, i)
  <2>1. "load" \in WorkerPC \ CopyPC
    BY DEF WorkerPC, CopyPC, RuntimePC
  <2> QED
    BY <1>5, <2>1, LeavesCopy DEF Claim
<1> QED
  BY <1>1, <1>2, <1>3, <1>4, <1>5 DEF RunOnceStep, ReportStep

LEMMA CopySoundNext ==
  ASSUME StoreTypeOK, LocalTypeOK, BackendTypeOK, \A w \in Workers : CopySound(w),
         \A task \in Tasks : Sound(workflows[task]),
         [RecoveryNext]_recoveryVars, NEW v \in Workers
  PROVE  CopySound(v)'
<1>1. CASE RecoveryRunOnce(v) /\ wpc'[v] \in CopyPC
  <2>1. CopyMove(v) /\ CopySound(v)
    BY <1>1, RunOnceCopyMove
  <2>2. Task(v) \in Tasks /\ CallPC \subseteq CopyPC
    BY DEF LocalTypeOK, Delivery, Task, CallPC, CopyPC, RuntimePC
  <2>3. CASE state'[v] = workflows[Task(v)] /\ wpc'[v] \notin CallPC
    BY <2>2, <2>3 DEF CopySound
  <2>4. CASE ~(state'[v] = workflows[Task(v)] /\ wpc'[v] \notin CallPC)
    <3>1. /\ Sound(state[v]) /\ state'[v].evidence = state[v].evidence
          /\ wpc[v] \in CallPC => NextCall(state[v], call[v])
      BY <2>1, <2>4 DEF CopyMove, CopySound
    <3>2. /\ StepsInOrder(state'[v])
          /\ \A c : NextCall(state'[v], c) <=> NextCall(state[v], c)
      BY <3>1, SoundFields DEF Sound
    <3>3. Sound(state'[v])
      BY <2>1, <2>4, <3>1, <3>2 DEF CopyMove, Sound, CallPC
    <3>4. wpc'[v] \in CallPC => NextCall(state'[v], call'[v])
      BY <2>1, <2>4, <3>1, <3>2 DEF CopyMove, Sound
    <3> QED
      BY <3>3, <3>4 DEF CopySound
  <2> QED
    BY <2>3, <2>4
<1>2. CASE SameWork(v)
  BY <1>2 DEF SameWork, CopySound
<1>3. CASE wpc'[v] \notin CopyPC
  BY <1>3 DEF CopySound, CallPC, CopyPC, RuntimePC
<1> QED
  BY <1>1, <1>2, <1>3, RecoveryOwn DEF CopyPC, RuntimePC

-----------------------------------------------------------------------------
(* Rows *)

LEMMA CompletedCalls ==
  ASSUME NEW s, StepsInOrder(s), NEW tool \in completed_steps(s)
  PROVE  CallOf(tool) \in Calls
<1>1. PICK n \in 0 .. 6 : completed_steps(s) = Prefix(n)
  BY DEF StepsInOrder
<1>2. PICK i \in 1 .. n : tool = Steps[i]
  BY <1>1 DEF Prefix
<1>3. i \in 1 .. 6
  BY <1>2, SMT
<1> QED
  BY <1>2, <1>3, StepCalls

\* The row waits for a human with what the worker that asks has just saved.
LEMMA AskedRow ==
  ASSUME TypeOK, CheckpointInv, LifecycleInv, [Next]_vars, NEW task \in Tasks,
         replays' = replays, Asks(task, workflows[task], workflows'[task])
  PROVE  \E w \in Workers : wpc'[w] = "create_approval" /\ workflows'[task] = state'[w]
<1>1. StoreTypeOK /\ LocalTypeOK /\ ControlTypeOK
  BY TypeParts
<1>2. Waiting(task)' /\ ~Waiting(task) /\ workflows'[task] # workflows[task]
  BY DEF Asks, OpenStatus, Waiting
<1>3. Written(task)
  BY <1>2, Writers
<1>4. ~ReplayWrites(task)
  BY <1>1, SMT DEF ReplayWrites, ReplayDeadLetter, ControlTypeOK
<1>5. PICK w \in Workers : ProcessWrites(w, task)
  BY <1>2, <1>3, <1>4 DEF Written, RequestWrites, EndWrites, Waiting
<1>6. Busy(w) /\ WorkerWay(w) /\ ProcessStep(w) /\ Task(w) = task
  BY <1>1, <1>5, StepBusy DEF ProcessWrites, LifecycleInv
<1>7. wpc[w] = "pend" /\ wpc'[w] = "create_approval"
  BY <1>2, <1>6, ProcessWaits DEF NoNewWait, WorkerWay, OpenCopy
<1>8. RunOnceStep(w)
  BY <1>1, <1>7, OwnSteps DEF SameWork
<1> QED
  BY <1>1, <1>6, <1>7, <1>8, EnterAsking

LEMMA LearnsStep ==
  ASSUME StoreTypeOK, LocalTypeOK, ResultInHand, \A w \in Workers : CopySound(w),
         NEW task \in Tasks, Learns(task)
  PROVE  \E w \in Workers :
            /\ wpc[w] = "record" /\ Task(w) = task /\ result[w] # NoResult
            /\ workflows'[task].pending_action = NoCall
            /\ StepsInOrder(workflows'[task])
            /\ completed_steps(workflows'[task]) = completed_steps(workflows[task]) \cup {call[w].tool}
            /\ call[w] = CallOf(call[w].tool)
            /\ call[w].tool = ExpectedSteps[Cardinality(completed_steps(workflows[task])) + 1]
<1>1. PICK w \in Workers :
        /\ wpc[w] = "record" /\ Task(w) = task /\ state[w] = workflows[task]
        /\ workflows'[task].pending_action = NoCall
        /\ workflows'[task].evidence = [workflows[task].evidence EXCEPT ![call[w].tool] = result[w]]
  BY DEF Learns
<1>2. /\ workflows[task] \in Checkpoint /\ call[w] \in Calls
      /\ result[w] \in Results /\ result[w] # NoResult
  BY <1>1 DEF StoreTypeOK, LocalTypeOK, CallChosen, CallPC, ResultInHand
<1>3. StepsInOrder(workflows[task]) /\ NextCall(workflows[task], call[w])
  BY <1>1 DEF CopySound, CopyPC, CallPC, RuntimePC, Sound
<1>4. /\ StepsInOrder(workflows'[task])
      /\ completed_steps(workflows'[task]) = completed_steps(workflows[task]) \cup {call[w].tool}
      /\ call[w] = CallOf(call[w].tool)
      /\ call[w].tool = ExpectedSteps[Cardinality(completed_steps(workflows[task])) + 1]
  BY <1>1, <1>2, <1>3, StepCompletes
<1> QED
  BY <1>1, <1>2, <1>4

LEMMA RowSoundNext ==
  ASSUME TypeOK, CheckpointInv, LifecycleInv,
         \A w \in Workers : CopySound(w), \A w \in Workers : CopySound(w)',
         [Next]_vars, NEW task \in Tasks, Sound(workflows[task])
  PROVE  Sound(workflows'[task])
<1>1. StoreTypeOK /\ LocalTypeOK /\ ResultInHand
  BY TypeParts DEF CheckpointInv
<1>2. CASE SameEvidence(task)
  <2>1. CASE replays' = replays /\ Asks(task, workflows[task], workflows'[task])
    <3>1. PICK w \in Workers : wpc'[w] = "create_approval" /\ workflows'[task] = state'[w]
      BY <2>1, AskedRow
    <3> QED
      BY <3>1 DEF CopySound, CopyPC, RuntimePC
  <2>2. CASE workflows'[task].pending_action \in {workflows[task].pending_action, NoCall}
    BY <1>2, <2>2, SoundFields DEF SameEvidence
  <2> QED
    BY <2>1, <2>2, RowMoves
    DEF RowStep, RowChange, Proceeds, Releases, Refuses, Concludes, Closes, Reopens
<1>3. CASE Learns(task)
  BY <1>1, <1>3, LearnsStep DEF Sound
<1>4. CASE workflows'[task] = NewWorkflow
  BY <1>4, NewWorkflowSound
<1> QED
  BY <1>2, <1>3, <1>4, EvidenceMoves

\* Every completed step has been carried out, by the call of the engine.
Performed(task) ==
    \A tool \in completed_steps(workflows[task]) : effects[action_id(task, CallOf(tool))] > 0

LEMMA PerformedNext ==
  ASSUME TypeOK, CheckpointInv, LifecycleInv, \A w \in Workers : CopySound(w),
         [Next]_vars, NEW task \in Tasks, Sound(workflows[task]), Performed(task)
  PROVE  Performed(task)'
<1>1. StoreTypeOK /\ LocalTypeOK /\ ResultInHand /\ EffectsGrow
  BY TypeParts, LifecycleInvNext DEF CheckpointInv, StepWay
<1>2. ASSUME NEW tool \in completed_steps(workflows[task])
      PROVE  effects'[action_id(task, CallOf(tool))] > 0
  <2>1. action_id(task, CallOf(tool)) \in Key
    BY CompletedCalls DEF Sound, action_id, Key
  <2> QED
    BY <1>1, <2>1 DEF Performed, EffectsGrow
<1>3. CASE SameEvidence(task)
  BY <1>2, <1>3, SoundFields DEF SameEvidence, Performed
<1>4. CASE Learns(task)
  <2>1. PICK w \in Workers :
            /\ wpc[w] = "record" /\ Task(w) = task /\ call[w] = CallOf(call[w].tool)
            /\ completed_steps(workflows'[task]) = completed_steps(workflows[task]) \cup {call[w].tool}
    BY <1>1, <1>4, LearnsStep
  <2>2. effects[CurrentKey(w)] > 0 /\ CurrentKey(w) \in Key
    BY <1>1, <2>1, KeyInHand DEF LifecycleInv, WorkerWay, CallPC
  <2>3. effects'[action_id(task, CallOf(call[w].tool))] > 0
    BY <1>1, <2>1, <2>2 DEF EffectsGrow, CurrentKey
  <2> QED
    BY <1>2, <2>1, <2>3 DEF Performed
<1>5. CASE workflows'[task] = NewWorkflow
  BY <1>5, NewWorkflowSound DEF Performed
<1> QED
  BY <1>3, <1>4, <1>5, EvidenceMoves

NoNewRecovery(task) ==
    workflows'[task].status = "COMPLETED" => workflows'[task] = workflows[task]

LEMMA OtherSaves ==
  ASSUME NEW w \in Workers, Busy(w), NEW new \in Checkpoint, new.status # "COMPLETED", NEW pc,
         \/ save_workflow(Task(w), new) \/ StaleSave(w, new)
         \/ SaveAndReturn(w, new) \/ SaveAndRaise(w, new) \/ SaveAndGoto(w, new, pc)
  PROVE  NoNewRecovery(Task(w))
<1>1. Task(w) \in Tasks /\ StoreTypeOK
  BY HeldTypes DEF Busy
<1>2. CASE save_workflow(Task(w), new)
  <2>1. workflows'[Task(w)] = Saved(new)
    BY <1>1, <1>2 DEF save_workflow, StoreTypeOK
  <2> QED
    BY <2>1, SavedFields DEF NoNewRecovery
<1>3. CASE UNCHANGED storeVars
  BY <1>3 DEF storeVars, NoNewRecovery
<1> QED
  BY <1>2, <1>3 DEF StaleSave, SaveAndReturn, SaveAndRaise, SaveAndGoto

LEMMA OtherStatusSaves ==
  ASSUME NEW w \in Workers, Busy(w), NEW status \in WorkflowStatus \ {"COMPLETED"}, NEW pc,
         NEW new, new = [state[w] EXCEPT !.status = status],
         SaveAndReturn(w, new) \/ SaveAndRaise(w, new) \/ SaveAndGoto(w, new, pc)
  PROVE  NoNewRecovery(Task(w))
<1>1. new \in Checkpoint /\ new.status = status
  BY HeldTypes, StatusFields
<1> QED
  BY <1>1, OtherSaves

LEMMA OtherDecisions ==
  ASSUME NEW w \in Workers, Busy(w), WorkerWay(w),
         DecideFail(w) \/ \E c \in Calls : DecideTool(w, c)
  PROVE  NoNewRecovery(Task(w))
<1>1. CASE DecideFail(w)
  BY <1>1, OtherStatusSaves DEF DecideFail, Fail, WorkflowStatus
<1>2. ASSUME NEW c \in Calls, DecideTool(w, c) PROVE NoNewRecovery(Task(w))
  <2> DEFINE requested == Requested(state[w], c)
             stopped == [requested EXCEPT !.status = "LOOP_STOPPED"]
  <2>1. requested \in Checkpoint /\ requested.status = state[w].status
    BY HeldTypes, RequestedFields
  <2>2. state[w].status # "COMPLETED"
    BY <1>2 DEF DecideTool, WorkerWay, OpenStatus, RuntimePC
  <2>3. stopped \in Checkpoint /\ stopped.status = "LOOP_STOPPED"
    BY <2>1, StatusFields DEF WorkflowStatus
  <2>4. \/ SaveAndReturn(w, stopped)
        \/ save_workflow(Task(w), requested) \/ StaleSave(w, requested)
    BY <1>2 DEF DecideTool
  <2> HIDE DEF requested, stopped
  <2> QED
    BY <2>1, <2>2, <2>3, <2>4, OtherSaves
<1> QED
  BY <1>1, <1>2

LEMMA ProcessRecovery ==
  ASSUME NEW w \in Workers, Busy(w), WorkerWay(w), ProcessStep(w), ~DecideComplete(w)
  PROVE  NoNewRecovery(Task(w))
<1>1. CASE \/ SaveRunning(w) \/ ModelFailsRetryably(w) \/ PolicyDenied(w)
           \/ BackendFailsRetryably(w) \/ BackendTimesOut(w) \/ BackendFailsPermanently(w)
  BY <1>1, OtherStatusSaves
  DEF SaveRunning, ModelFailsRetryably, PolicyDenied, BackendFailsRetryably, BackendTimesOut,
      BackendFailsPermanently, Fail, FailRetryably, WorkflowStatus
<1>2. CASE DecideFail(w) \/ \E c \in Calls : DecideTool(w, c)
  BY <1>2, OtherDecisions
<1>3. CASE SaveWaiting(w)
  <2> DEFINE s == state[w]
             c == call[w]
             new == [s EXCEPT !.status = "WAITING_FOR_APPROVAL", !.pending_action = c]
  <2>1. s \in Checkpoint /\ c \in Calls \cup {NoCall} /\ "WAITING_FOR_APPROVAL" \in WorkflowStatus
    BY HeldTypes DEF WorkflowStatus
  <2>2. SaveAndGoto(w, new, "create_approval")
    BY <1>3 DEF SaveWaiting
  <2>3. new \in Checkpoint /\ new.status = "WAITING_FOR_APPROVAL"
    <3> HIDE DEF s, c
    <3>1. new \in Checkpoint
      BY <2>1, PendingType
    <3> QED
      BY <2>1, <3>1 DEF Checkpoint
  <2> HIDE DEF new
  <2> QED
    BY <2>2, <2>3, OtherSaves
<1>4. CASE RecordResult(w)
  <2> DEFINE new == Completed(state[w], call[w].tool, result[w])
  <2>1. SaveAndReturn(w, new)
    BY <1>4 DEF RecordResult
  <2>2. new \in Checkpoint
    BY HeldTypes, CompletedType
  <2>3. new.status = "QUEUED"
    BY <2>2, HeldTypes DEF Completed, Checkpoint
  <2> HIDE DEF new
  <2> QED
    BY <2>1, <2>2, <2>3, OtherSaves
<1>5. CASE \/ Load(w) \/ ModelFailsPermanently(w) \/ CreateApproval(w)
           \/ ResumeApprovedAction(w) \/ LookupResult(w) \/ SaveToolResult(w)
           \/ \E r \in Results : BackendSucceeds(w, r)
  BY <1>5
  DEF Load, ModelFailsPermanently, CreateApproval, create_approval, ResumeApprovedAction,
      LookupResult, SaveToolResult, save_tool_result, BackendSucceeds, storeVars, NoNewRecovery
<1> QED
  BY <1>1, <1>2, <1>3, <1>4, <1>5 DEF ProcessStep

\* Recovery is declared by the engine alone, with nothing missing.
ClosedComplete(task) == workflows[task].status = "COMPLETED" => Missing(workflows[task]) = {}

LEMMA RecoveredNext ==
  ASSUME TypeOK, CheckpointInv, LifecycleInv, BackendTypeOK,
         \A w \in Workers : CopySound(w), [RecoveryNext]_recoveryVars,
         NEW task \in Tasks, ClosedComplete(task)
  PROVE  ClosedComplete(task)'
<1>1. /\ StoreTypeOK /\ LocalTypeOK /\ ControlTypeOK /\ CopiesFresh
      /\ [Next]_vars
  BY TypeParts, RecoveryIsRuntime DEF CheckpointInv
<1>2. CASE workflows'[task] = workflows[task]
  BY <1>2 DEF ClosedComplete
<1>3. CASE workflows'[task] # workflows[task] /\ workflows'[task].status = "COMPLETED"
  <2>1. ~ReplayWrites(task)
    <3>1. ASSUME NEW i \in DOMAIN queue, ReplayDeadLetter(i), queue[i].task_id = task
          PROVE  FALSE
      <4>1. Reopens(task)
        BY <1>1, <3>1, ReplayRow
      <4> QED
        BY <1>3, <4>1 DEF Reopens
    <3> QED
      BY <3>1 DEF ReplayWrites
  <2>2. PICK w \in Workers : ProcessWrites(w, task)
    BY <1>1, <1>3, <2>1, Writers DEF Written, EndWrites, RequestWrites
  <2>3. Busy(w) /\ WorkerWay(w) /\ ProcessStep(w) /\ Task(w) = task
    BY <1>1, <2>2, StepBusy DEF ProcessWrites, LifecycleInv
  <2>4. DecideComplete(w)
    BY <1>3, <2>3, ProcessRecovery DEF NoNewRecovery
  <2>5. RecoveryRunOnce(w)
    <3>1. wpc[w] = "decide" /\ wpc'[w] \notin {"decide", "idle"}
      BY <1>1, <2>4
      DEF DecideComplete, SaveAndReturn, StaleSave, LeaveProcess, Return, Goto, LocalTypeOK
    <3> QED
      BY <1>1, <3>1, RecoveryOwn DEF SameWork
  <2>6. Decide(w) /\ StepsInOrder(state[w]) /\ state[w] \in Checkpoint
        /\ FreshCopy(state[w], task)
    BY <1>1, <2>3, <2>4, <2>5
    DEF RecoveryRunOnce, RecoveryProcess, DecideComplete, CopySound, CopyPC, RuntimePC, Sound,
        LocalTypeOK, CopiesFresh
  <2>7. Missing(state[w]) = {}
    BY <1>3, <2>3, <2>6, DecideChoice, OtherDecisions DEF NoNewRecovery
  <2>8. workflows'[task].evidence = state[w].evidence
    <3> DEFINE new == [state[w] EXCEPT !.status = "COMPLETED"]
    <3>1. new \in Checkpoint /\ new.version = state[w].version /\ new.evidence = state[w].evidence
      BY <2>6, StatusEvidence DEF WorkflowStatus
    <3>2. save_workflow(task, new)
      BY <1>3, <2>3, <2>4 DEF DecideComplete, SaveAndReturn, StaleSave, storeVars
    <3> HIDE DEF new
    <3> QED
      BY <1>1, <2>6, <3>1, <3>2, SavedEvidence
  <2> QED
    BY <2>7, <2>8, SoundFields DEF ClosedComplete
<1> QED
  BY <1>2, <1>3 DEF ClosedComplete

-----------------------------------------------------------------------------
(* The ledger, and what follows for verification *)

InLedger(task, tool) == tool_results[action_id(task, CallOf(tool))] # NoResult

\* Evidence, in a row or in a copy, is in the ledger.
Ledgered(task) == \A tool \in completed_steps(workflows[task]) : InLedger(task, tool)

CopyLedgered(w) ==
    wpc[w] \in CopyPC => \A tool \in completed_steps(state[w]) : InLedger(Task(w), tool)

VerifyKey(task) == action_id(task, CallOf("verify_recovery"))

\* Verification was answered.
Answered(task) ==
    \/ tool_results[VerifyKey(task)] # NoResult
    \/ \E w \in Workers : wpc[w] = "save_result" /\ CurrentKey(w) = VerifyKey(task)

\* Then the restart had been answered before, and no rollout has begun since.
VerifiedAfter(task) ==
    Answered(task) =>
        /\ tool_results[RestartKey(task)] # NoResult
        /\ Alone(task) => ~rollout

LEMMA RecordedKeeps ==
  ASSUME StoreTypeOK, [Next]_vars, NEW task \in Tasks, NEW tool, CallOf(tool) \in Calls,
         InLedger(task, tool)
  PROVE  InLedger(task, tool)'
<1>1. action_id(task, CallOf(tool)) \in Key
  BY DEF action_id, Key
<1> QED
  BY <1>1, LedgerSteps, LedgerKeeps DEF InLedger

LEMMA LedgeredNext ==
  ASSUME TypeOK, CheckpointInv, LedgerInHand, Undisturbed, \A w \in Workers : CopySound(w),
         [Next]_vars, NEW task \in Tasks, Sound(workflows[task]), Ledgered(task)
  PROVE  Ledgered(task)'
<1>1. StoreTypeOK /\ LocalTypeOK /\ ResultInHand
  BY TypeParts DEF CheckpointInv
<1>2. ASSUME NEW tool \in completed_steps(workflows[task])
      PROVE  InLedger(task, tool)'
  BY <1>1, CompletedCalls, RecordedKeeps DEF Sound, Ledgered
<1>3. CASE SameEvidence(task)
  BY <1>2, <1>3, SoundFields DEF SameEvidence, Ledgered
<1>4. CASE Learns(task)
  <2>1. PICK w \in Workers :
            /\ wpc[w] = "record" /\ Task(w) = task /\ result[w] # NoResult
            /\ call[w] = CallOf(call[w].tool)
            /\ completed_steps(workflows'[task]) = completed_steps(workflows[task]) \cup {call[w].tool}
    BY <1>1, <1>4, LearnsStep
  <2>2. PICK last : last = call[w].tool
    OBVIOUS
  <2>3. InLedger(task, last) /\ CallOf(last) \in Calls
    BY <1>1, <2>1, <2>2 DEF LedgerInHand, CurrentKey, InLedger, LocalTypeOK, CallChosen, CallPC
  <2>4. InLedger(task, last)'
    BY <1>1, <2>3, RecordedKeeps
  <2> QED
    BY <1>2, <2>1, <2>2, <2>4 DEF Ledgered
<1>5. CASE workflows'[task] = NewWorkflow
  BY <1>5, NewWorkflowSound DEF Ledgered
<1> QED
  BY <1>3, <1>4, <1>5, EvidenceMoves

LEMMA CopyLedgeredNext ==
  ASSUME TypeOK, BackendTypeOK, \A w \in Workers : CopySound(w),
         \A task \in Tasks : Sound(workflows[task]) /\ Ledgered(task),
         [RecoveryNext]_recoveryVars, NEW v \in Workers, CopyLedgered(v)
  PROVE  CopyLedgered(v)'
<1>1. StoreTypeOK /\ LocalTypeOK /\ [Next]_vars
  BY TypeParts, RecoveryIsRuntime
<1> PICK task \in Tasks : task = Task(v)
  BY <1>1 DEF LocalTypeOK, Delivery, Task
<1>2. CASE RecoveryRunOnce(v) /\ wpc'[v] \in CopyPC
  <2>1. CopyMove(v) /\ Task(v)' = Task(v)
    BY <1>1, <1>2, RunOnceCopyMove
  <2>2. ASSUME NEW s, Sound(s), state'[v].evidence = s.evidence,
               \A tool \in completed_steps(s) : InLedger(task, tool)
        PROVE  CopyLedgered(v)'
    <3>1. completed_steps(state'[v]) = completed_steps(s)
      BY <2>2, SoundFields
    <3>2. ASSUME NEW tool \in completed_steps(s) PROVE InLedger(task, tool)'
      BY <1>1, <2>2, <3>2, CompletedCalls, RecordedKeeps DEF Sound
    <3> QED
      BY <2>1, <3>1, <3>2 DEF CopyLedgered
  <2>3. CASE state'[v] = workflows[Task(v)]
    BY <1>1, <2>2, <2>3 DEF Ledgered
  <2>4. CASE wpc[v] \in CopyPC /\ state'[v].evidence = state[v].evidence
    BY <2>2, <2>4 DEF CopySound, CopyLedgered
  <2> QED
    BY <2>1, <2>3, <2>4 DEF CopyMove
<1>3. CASE SameWork(v) /\ wpc[v] \in CopyPC
  <2>1. Task(v)' = Task(v) /\ state'[v] = state[v]
    BY <1>3 DEF SameWork, Task
  <2>2. ASSUME NEW tool \in completed_steps(state[v]) PROVE InLedger(task, tool)'
    <3>1. CallOf(tool) \in Calls /\ InLedger(task, tool)
      BY <1>3, <2>2, CompletedCalls DEF CopySound, CopyLedgered, Sound
    <3> QED
      BY <1>1, <3>1, RecordedKeeps
  <2> QED
    BY <2>1, <2>2 DEF CopyLedgered
<1>4. CASE wpc'[v] \notin CopyPC
  BY <1>4 DEF CopyLedgered
<1> QED
  BY <1>1, <1>2, <1>3, <1>4, RecoveryOwn DEF SameWork, CopyPC, RuntimePC

\* Verification is answered by a worker whose restart is in the ledger, and in a calm.
LEMMA AnsweredNext ==
  ASSUME TypeOK, CheckpointInv, BackendTypeOK, backend.adapter = "scenario" => ~rollout,
         \A w \in Workers : CopySound(w) /\ CopyLedgered(w),
         [RecoveryNext]_recoveryVars, NEW task \in Tasks, ~Answered(task), Answered(task)'
  PROVE  tool_results'[RestartKey(task)] # NoResult /\ ~rollout'
<1>1. StoreTypeOK /\ LocalTypeOK /\ [Next]_vars
  BY TypeParts, RecoveryIsRuntime
<1>2. VerifyKey(task) \in Key
  BY NamedSteps DEF VerifyKey, action_id, Key
<1>3. tool_results'[VerifyKey(task)] = NoResult
  <2>1. tool_results[VerifyKey(task)] = NoResult
    BY DEF Answered
  <2>2. ASSUME NEW w \in Workers, SaveToolResult(w)
        PROVE  tool_results'[VerifyKey(task)] = NoResult
    BY <1>1, <1>2, <2>1, <2>2 DEF SaveToolResult, save_tool_result, Answered, StoreTypeOK
  <2> QED
    BY <1>1, <2>1, <2>2, LedgerSteps DEF LedgerStep, Untouched
<1>4. PICK v \in Workers : wpc'[v] = "save_result" /\ CurrentKey(v)' = VerifyKey(task)
  BY <1>3 DEF Answered, VerifyKey
<1>5. RecoveryRunOnce(v)
  <2>1. ~SameWork(v)
    BY <1>4 DEF SameWork, CurrentKey, Task, Answered
  <2> QED
    BY <1>1, <1>4, <2>1, RecoveryOwn
<1>6. PICK r \in Results : BackendSucceeds(v, r)
  <2>1. RunOnceStep(v)
    BY <1>1, <1>5, RunOnceIsRuntime
  <2>2. ~SaveToolResult(v) /\ ~LookupResult(v)
    BY <1>1, <1>4 DEF SaveToolResult, LookupResult, AfterLookup, Goto, LocalTypeOK
  <2> QED
    BY <1>1, <1>4, <2>1, <2>2, EnterTool
<1>7. /\ wpc[v] = "backend" /\ CurrentKey(v) = VerifyKey(task)
      /\ Task(v) = task /\ call[v] = CallOf("verify_recovery")
  BY <1>4, <1>6 DEF BackendSucceeds, CurrentKey, Task, VerifyKey, action_id
<1>8. ~rollout'
  <2>1. call[v].tool = "verify_recovery"
    BY <1>7 DEF CallOf
  <2> QED
    BY <1>1, <1>4, <1>5, <1>7, <2>1, VerifiedCalmly
<1>9. tool_results'[RestartKey(task)] # NoResult
  <2>1. /\ state[v] \in Checkpoint /\ StepsInOrder(state[v])
        /\ NextCall(state[v], CallOf("verify_recovery"))
    BY <1>1, <1>7 DEF LocalTypeOK, CopySound, Sound, CopyPC, CallPC, RuntimePC
  <2>2. "restart_service" \in completed_steps(state[v])
    BY <2>1, VerifyComesAfter
  <2>3. InLedger(task, "restart_service")
    BY <1>7, <2>2 DEF CopyLedgered, CopyPC, RuntimePC
  <2> QED
    BY <1>1, <2>3, NamedSteps, RecordedKeeps DEF InLedger, RestartKey
<1> QED
  BY <1>8, <1>9

LEMMA VerifiedAfterNext ==
  ASSUME TypeOK, CheckpointInv, LifecycleInv, LedgerInHand, Undisturbed, BackendTypeOK,
         backend.adapter = "scenario" => ~rollout,
         \A w \in Workers : CopySound(w) /\ CopyLedgered(w),
         [RecoveryNext]_recoveryVars, NEW task \in Tasks, VerifiedAfter(task)
  PROVE  VerifiedAfter(task)'
<1>1. StoreTypeOK /\ LocalTypeOK /\ EffectsTypeOK /\ [Next]_vars
  BY TypeParts, RecoveryIsRuntime
<1>2. \A other \in Tasks : RestartKey(other) \in Key
  BY NamedSteps DEF RestartKey, action_id, Key
<1>3. CASE Answered(task)
  <2>1. /\ tool_results[RestartKey(task)] # NoResult
        /\ tool_results'[RestartKey(task)] # NoResult
    BY <1>1, <1>2, <1>3, LedgerSteps, LedgerKeeps DEF VerifiedAfter
  <2>2. ASSUME Alone(task)' PROVE ~rollout'
    <3>1. Alone(task)
      <4>1. ASSUME NEW other \in Tasks \ {task} PROVE effects[RestartKey(other)] = 0
        <5>1. effects'[RestartKey(other)] = 0
          BY <2>2, <4>1 DEF Alone, RestartKey
        <5>2. EffectsGrow
          BY <1>1, LifecycleInvNext DEF StepWay
        <5>3. effects[RestartKey(other)] \in Nat
          BY <1>1, <1>2 DEF EffectsTypeOK
        <5> QED
          BY <1>2, <5>1, <5>2, <5>3, SMT DEF EffectsGrow
      <4> QED
        BY <4>1 DEF Alone
    <3>2. ~rollout
      BY <1>3, <3>1 DEF VerifiedAfter
    <3>3. ASSUME NEW w \in Workers, wpc[w] = "backend", call[w].tool = "restart_service",
                 Effect(CurrentKey(w))
          PROVE  FALSE
      <4>1. state[w] \in Checkpoint /\ StepsInOrder(state[w]) /\ NextCall(state[w], call[w])
        BY <1>1, <3>3 DEF LocalTypeOK, CopySound, Sound, CopyPC, CallPC, RuntimePC
      <4>2. call[w] = CallOf("restart_service")
        BY <3>3, <4>1, NextCallTool
      <4>3. CurrentKey(w) = RestartKey(Task(w)) /\ Task(w) \in Tasks
        BY <1>1, <4>2 DEF CurrentKey, RestartKey, LocalTypeOK, Delivery, Task
      <4>4. CASE Task(w) = task
        BY <2>1, <3>3, <4>3, <4>4 DEF LedgerInHand
      <4>5. CASE Task(w) # task
        <5>1. PICK other \in Tasks \ {task} : other = Task(w)
          BY <4>3, <4>5
        <5>2. effects[RestartKey(other)] = 0 /\ effects'[RestartKey(other)] = 0
          BY <2>2, <3>1, <5>1 DEF Alone, RestartKey
        <5>3. effects'[RestartKey(other)] = effects[RestartKey(other)] + 1
          BY <1>1, <1>2, <3>3, <4>3, <5>1 DEF Effect, EffectsTypeOK
        <5> QED
          BY <5>2, <5>3, SMT
      <4> QED
        BY <4>4, <4>5
    <3> QED
      BY <3>2, <3>3, BackendMoves DEF RolloutMove
  <2> QED
    BY <2>1, <2>2 DEF VerifiedAfter, RestartKey
<1>4. CASE ~Answered(task) /\ Answered(task)'
  BY <1>4, AnsweredNext DEF VerifiedAfter, RestartKey
<1>5. CASE ~Answered(task)'
  BY <1>5 DEF VerifiedAfter
<1> QED
  BY <1>3, <1>4, <1>5

-----------------------------------------------------------------------------
(* The invariant and the theorems *)

RuntimeInv ==
    TypeOK /\ GateInv /\ CheckpointInv /\ LifecycleInv /\ DeliveryInv /\ SlotInv /\ UndisturbedInv

RecoveryInv ==
    /\ RuntimeInv
    /\ BackendTypeOK
    /\ backend.adapter = "scenario" => ~rollout
    /\ \A w \in Workers : CopySound(w)
    /\ \A task \in Tasks : Sound(workflows[task]) /\ Performed(task) /\ ClosedComplete(task)
    /\ Undisturbed =>
        /\ \A w \in Workers : CopyLedgered(w)
        /\ \A task \in Tasks : Ledgered(task) /\ VerifiedAfter(task)

LEMMA RecoveryInvInit == RecoveryInit => RecoveryInv
<1> SUFFICES ASSUME RecoveryInit PROVE RecoveryInv
  OBVIOUS
<1>1. Init /\ BackendInit
  BY DEF RecoveryInit
<1>2. RuntimeInv
  <2>1. TypeOK /\ CheckpointInv /\ LifecycleInv /\ DeliveryInv /\ SlotInv /\ UndisturbedInv
    BY <1>1, InitType, CheckpointInvInit, LifecycleInvInit, DeliveryInvInit, SlotInvInit,
       UndisturbedInvInit
  <2>2. GateInv
    BY <1>1
    DEF Init, StoreInit, WorkerInit, RuntimeInit, GateInv, Gated, PolicyGate, Key, action_id
  <2> QED
    BY <2>1, <2>2 DEF RuntimeInv
<1>3. BackendTypeOK /\ ~rollout
  BY <1>1 DEF BackendInit, BackendTypeOK
<1>4. ASSUME NEW w \in Workers PROVE CopySound(w) /\ CopyLedgered(w)
  BY <1>1
  DEF Init, WorkerInit, RuntimeInit, CopySound, CopyLedgered, CopyPC, CallPC, RuntimePC
<1>5. ASSUME NEW task \in Tasks
      PROVE  /\ Sound(workflows[task]) /\ Performed(task) /\ ClosedComplete(task)
             /\ Ledgered(task) /\ VerifiedAfter(task)
  <2>1. workflows[task] = NewWorkflow
    BY <1>1 DEF Init, StoreInit
  <2>2. Performed(task) /\ Ledgered(task) /\ Sound(workflows[task])
    BY <2>1, NewWorkflowSound DEF Performed, Ledgered
  <2>3. ClosedComplete(task)
    BY <2>1 DEF ClosedComplete, NewWorkflow
  <2>4. VerifiedAfter(task)
    BY <1>1, <1>3, NamedSteps
    DEF Init, StoreInit, WorkerInit, RuntimeInit, VerifiedAfter, Answered, VerifyKey, action_id, Key
  <2> QED
    BY <2>2, <2>3, <2>4
<1> QED
  BY <1>2, <1>3, <1>4, <1>5 DEF RecoveryInv

LEMMA RuntimeInvNext ==
  ASSUME RuntimeInv, [Next]_vars
  PROVE  RuntimeInv'
<1>1. TypeOK'
  BY NextType DEF RuntimeInv
<1>2. DeliveryInv'
  BY <1>1, DeliveryInvNext DEF RuntimeInv
<1> QED
  BY <1>1, <1>2, GateInvNext, CheckpointInvNext, LifecycleInvNext, SlotInvNext, UndisturbedInvNext
  DEF RuntimeInv

LEMMA RecoveryInvNext ==
  ASSUME RecoveryInv, [RecoveryNext]_recoveryVars
  PROVE  RecoveryInv'
<1>1. /\ TypeOK /\ CheckpointInv /\ LifecycleInv /\ StoreTypeOK /\ LocalTypeOK
      /\ BackendTypeOK /\ (backend.adapter = "scenario" => ~rollout)
      /\ \A w \in Workers : CopySound(w)
  BY TypeParts DEF RecoveryInv, RuntimeInv
<1>2. [Next]_vars
  BY <1>1, RecoveryIsRuntime
<1>3. RuntimeInv'
  BY <1>2, RuntimeInvNext DEF RecoveryInv
<1>4. BackendTypeOK' /\ (backend.adapter = "scenario" => ~rollout)'
  <2>1. backend' = backend /\ BackendTypeOK' /\ RolloutMove
    BY <1>1, BackendMoves
  <2>2. CASE backend.adapter = "scenario"
    <3>1. rollout' \in {rollout, FALSE} /\ rollout = FALSE
      BY <1>1, <2>1, <2>2 DEF RolloutMove, BackendTypeOK
    <3> QED
      BY <2>1, <3>1
  <2>3. CASE backend.adapter # "scenario"
    BY <2>1, <2>3
  <2> QED
    BY <2>2, <2>3
<1>5. ASSUME NEW w \in Workers PROVE CopySound(w)'
  BY <1>1, CopySoundNext DEF RecoveryInv
<1>6. ASSUME NEW task \in Tasks
      PROVE  (Sound(workflows[task]) /\ Performed(task) /\ ClosedComplete(task))'
  <2>1. Sound(workflows[task]) /\ Performed(task) /\ ClosedComplete(task)
    BY DEF RecoveryInv
  <2>2. Sound(workflows'[task])
    BY <1>1, <1>2, <1>5, <2>1, RowSoundNext
  <2>3. Performed(task)'
    BY <1>1, <1>2, <2>1, PerformedNext
  <2>4. ClosedComplete(task)'
    BY <1>1, <2>1, RecoveredNext
  <2> QED
    BY <2>2, <2>3, <2>4
<1>7. ASSUME Undisturbed'
      PROVE  /\ \A w \in Workers : CopyLedgered(w)'
             /\ \A task \in Tasks : (Ledgered(task) /\ VerifiedAfter(task))'
  <2>1. Undisturbed
    BY <1>1, <1>2, <1>7, UndisturbedBefore
  <2>2. LedgerInHand
    BY DEF RecoveryInv, RuntimeInv, UndisturbedInv
  <2>3. /\ \A w \in Workers : CopySound(w) /\ CopyLedgered(w)
        /\ \A task \in Tasks : Sound(workflows[task]) /\ Ledgered(task) /\ VerifiedAfter(task)
    BY <2>1 DEF RecoveryInv
  <2>4. ASSUME NEW w \in Workers PROVE CopyLedgered(w)'
    BY <1>1, <2>3, CopyLedgeredNext
  <2>5. ASSUME NEW task \in Tasks PROVE Ledgered(task)'
    BY <1>1, <1>2, <2>1, <2>2, <2>3, LedgeredNext
  <2>6. ASSUME NEW task \in Tasks PROVE VerifiedAfter(task)'
    BY <1>1, <2>1, <2>2, <2>3, VerifiedAfterNext
  <2> QED
    BY <2>4, <2>5, <2>6
<1> QED
  BY <1>3, <1>4, <1>5, <1>6, <1>7 DEF RecoveryInv

\* The runtime keeps its invariants with the engine and the backend filled in; copies
\* and rows have their steps in order, and what is evidence was carried out.
THEOREM RecoveryInvHolds == RecoverySpec => []RecoveryInv
<1>1. RecoveryInv /\ [RecoveryNext]_recoveryVars => RecoveryInv'
  BY RecoveryInvNext
<1> QED
  BY <1>1, RecoveryInvInit, PTL DEF RecoverySpec

\* Every variable of the runtime, the backend and the service has its type (execute of
\* both backends, process).
THEOREM RecoveryTypesHold == RecoverySpec => []RecoveryTypeOK
<1>1. RecoveryInv => RecoveryTypeOK
  BY DEF RecoveryInv, RuntimeInv, RecoveryTypeOK
<1> QED
  BY <1>1, RecoveryInvHolds, PTL

\* Who saves a result saves that of a step that was missing.
LEMMA RecordedIsMissing ==
  ASSUME RecoveryInv, [RecoveryNext]_recoveryVars, NEW w \in Workers,
         wpc[w] = "record", wpc'[w] = "ack"
  PROVE  call[w].tool \notin completed_steps(workflows[Task(w)])
<1>1. /\ StoreTypeOK /\ LocalTypeOK /\ BackendTypeOK /\ ResultInHand
      /\ \A v \in Workers : CopySound(v)
      /\ FreshCopy(state[w], Task(w))
  BY TypeParts DEF RecoveryInv, RuntimeInv, CheckpointInv, CopiesFresh, CopyPC, RuntimePC
<1>2. state[w] \in Checkpoint /\ StepsInOrder(state[w]) /\ NextCall(state[w], call[w])
  BY <1>1 DEF LocalTypeOK, CopySound, Sound, CopyPC, CallPC, RuntimePC
<1>3. RecordResult(w)
  <2>1. RecoveryRunOnce(w)
    BY <1>1, RecoveryOwn DEF SameWork
  <2>2. ProcessStep(w)
    BY <2>1 DEF RecoveryRunOnce, RecoveryProcess, Decide, DecideTool, DecideComplete, DecideFail,
                RuntimePC
  <2> QED
    BY <2>2
    DEF ProcessStep, Load, SaveRunning, ModelFailsRetryably, ModelFailsPermanently,
        DecideComplete, DecideFail, DecideTool, PolicyDenied, SaveWaiting, CreateApproval,
        ResumeApprovedAction, LookupResult, BackendSucceeds, BackendFailsRetryably,
        BackendTimesOut, BackendFailsPermanently, SaveToolResult
<1>4. workflows[Task(w)] = state[w]
  <2>1. PICK new : new = Completed(state[w], call[w].tool, result[w])
    OBVIOUS
  <2>2. new.version = state[w].version
    BY <1>2, <2>1 DEF Completed, Checkpoint
  <2>3. ~StaleSave(w, new)
    BY <1>1 DEF StaleSave, LeaveProcess, Goto, LocalTypeOK
  <2>4. save_workflow(Task(w), new)
    BY <1>3, <2>1, <2>3 DEF RecordResult, SaveAndReturn
  <2> QED
    BY <1>1, <2>2, <2>4 DEF save_workflow, VersionMatches, FreshCopy
<1>5. PICK n \in 0 .. 5 : completed_steps(state[w]) = Prefix(n) /\ call[w].tool = Steps[n + 1]
  BY <1>2, NextCallTool
<1>6. \A i \in 1 .. n : Steps[i] # Steps[n + 1]
  <2>1. \A i \in 1 .. n : i \in 1 .. 6 /\ n + 1 \in 1 .. 6 /\ i # n + 1
    BY SMT
  <2> QED
    BY <2>1, StepsDistinct
<1> HIDE DEF Steps
<1> QED
  BY <1>4, <1>5, <1>6 DEF Prefix

\* Whoever resumes goes on at the first missing step, none is lost, and no result is saved
\* of a step that was completed before (verify, decide, _execute_tool).
THEOREM ResumesAtNextStepHolds == RecoverySpec => ResumesAtNextStep
<1> DEFINE InTurn ==
      \A task \in Tasks :
        LET old == completed_steps(workflows[task])
            new == completed_steps(workflows'[task])
        IN  new # old => new = old \cup {ExpectedSteps[Cardinality(old) + 1]}
    Once ==
      \A w \in Workers :
        wpc[w] = "record" /\ wpc'[w] = "ack" =>
            call[w].tool \notin completed_steps(workflows[Task(w)])
<1>1. RecoveryInv /\ [RecoveryNext]_recoveryVars => [InTurn]_recoveryVars
  <2> SUFFICES ASSUME RecoveryInv, [RecoveryNext]_recoveryVars, NEW task \in Tasks,
                      completed_steps(workflows'[task]) # completed_steps(workflows[task])
               PROVE  completed_steps(workflows'[task]) =
                        completed_steps(workflows[task])
                            \cup {ExpectedSteps[Cardinality(completed_steps(workflows[task])) + 1]}
    OBVIOUS
  <2>1. /\ TypeOK /\ CheckpointInv /\ StoreTypeOK /\ LocalTypeOK /\ BackendTypeOK
        /\ ResultInHand /\ OnlyCreated /\ \A w \in Workers : CopySound(w)
    BY TypeParts DEF RecoveryInv, RuntimeInv, CheckpointInv
  <2>2. [Next]_vars
    BY <2>1, RecoveryIsRuntime
  <2>3. CASE Learns(task)
    BY <2>1, <2>3, LearnsStep
  <2>4. CASE SameEvidence(task)
    BY <2>4, SoundFields DEF SameEvidence
  <2>5. CASE workflows'[task] = NewWorkflow
    <3>1. completed_steps(workflows[task]) \subseteq completed_steps(workflows'[task])
      BY <2>1, <2>2, CheckpointInvNext, ShapeMonotone
    <3> QED
      BY <2>5, <3>1, NewWorkflowSound
  <2> QED
    BY <2>1, <2>2, <2>3, <2>4, <2>5, EvidenceMoves
<1>2. RecoveryInv /\ [RecoveryNext]_recoveryVars => [InTurn /\ Once]_recoveryVars
  BY <1>1, RecordedIsMissing
<1> QED
  BY <1>2, RecoveryInvHolds, PTL DEF RecoverySpec, ResumesAtNextStep

LEMMA RestartNeedsApproval ==
  Allowed(CallOf("restart_service")) /\ ApprovalRequired(CallOf("restart_service"))
<1> DEFINE c == CallOf("restart_service")
<1>1. c.tool = "restart_service" /\ c.environment = "production"
  BY DEF CallOf
<1>2. "restart_service" # "delete_database"
  OBVIOUS
<1> HIDE DEF c
<1>3. evaluate(c) = [risk |-> "HIGH", allowed |-> TRUE, approval_required |-> TRUE]
  BY <1>1, <1>2, Zenon DEF evaluate
<1> QED
  BY <1>3 DEF Allowed, ApprovalRequired, c

\* An incident is closed as recovered only after an approved restart that took place, and,
\* if undisturbed by a stall or by a replay after a crash and if no other incident restarts
\* the service, not while that restart is being rolled out (decide, _verify_recovery, execute).
THEOREM CompletedIsRecoveredHolds == RecoverySpec => []CompletedIsRecovered
<1>1. RecoveryInv => CompletedIsRecovered
  <2> SUFFICES ASSUME RecoveryInv, NEW task \in Tasks, workflows[task].status = "COMPLETED"
               PROVE  /\ approvals[RestartKey(task)] = "APPROVED"
                      /\ effects[RestartKey(task)] > 0
                      /\ Undisturbed /\ Alone(task) => ~rollout
    BY DEF CompletedIsRecovered
  <2>1. PolicyGate /\ Sound(workflows[task]) /\ Performed(task)
        /\ Missing(workflows[task]) = {}
    BY DEF RecoveryInv, RuntimeInv, GateInv, ClosedComplete
  <2>2. {"restart_service", "verify_recovery"} \subseteq completed_steps(workflows[task])
    <3>1. \A i \in 1 .. 6 : Steps[i] \in completed_steps(workflows[task])
      BY <2>1, StepsDistinct, StepCalls DEF Missing, completed_steps
    <3>2. 5 \in 1 .. 6 /\ 6 \in 1 .. 6
      BY SMT
    <3> QED
      BY <3>1, <3>2, NamedSteps
  <2>3. effects[RestartKey(task)] > 0
    BY <2>1, <2>2 DEF Performed, RestartKey
  <2>4. approvals[RestartKey(task)] = "APPROVED"
    BY <2>1, <2>3, RestartNeedsApproval, NamedSteps DEF PolicyGate, RestartKey
  <2>5. ASSUME Undisturbed, Alone(task) PROVE ~rollout
    <3>1. Ledgered(task) /\ VerifiedAfter(task)
      BY <2>5 DEF RecoveryInv
    <3>2. Answered(task)
      BY <2>2, <3>1 DEF Ledgered, InLedger, Answered, VerifyKey
    <3> QED
      BY <2>5, <3>1, <3>2 DEF VerifiedAfter
  <2> QED
    BY <2>3, <2>4, <2>5
<1> QED
  BY <1>1, RecoveryInvHolds, PTL
=============================================================================
