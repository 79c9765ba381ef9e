# A verification of the Agent Resilience Runtime

TLA+ models of the runtime under `src/agent_resilience`, TLC configurations that
check them on small instances, and proofs, checked by TLAPS, of theorems about
them for every value of the constants. Paths below are relative to the repository.

Contents: [the system](#the-system) · [the models](#the-models) ·
[what the runs check](#what-the-runs-check) · [bounds](#bounds) ·
[fairness](#fairness) · [what is proved](#what-is-proved) ·
[disagreements found](#disagreements-found) ·
[known weaknesses](#weaknesses-the-properties-step-around) ·
[what is not modelled](#what-is-not-modelled) · [plan](#plan).

## The system

An incident (a *workflow*) is worked on by an agent that asks for one tool call at
a time. A queue hands the incident to whichever worker is free; the worker loads a
checkpoint, lets the agent decide, passes the request through a loop detector, a
policy and perhaps a human, calls the tool, records the result and puts the
incident back in the queue for its next step.

| Component | State it keeps | Operations | What makes it correct |
|---|---|---|---|
| **Durable store** (`store.py`, SQLite) | `workflows` (a checkpoint and its version), `queue`, `tool_results`, `approvals`, `events` | create, load, save with a version check; enqueue, claim, extend_lease, acknowledge, retry_or_dead_letter, replay_dead_letter; save and look up results; create and resolve approvals | no update lost; one active delivery per task; results and resolutions written once |
| **Workflow runtime** (`runtime.py`) | a local copy of one checkpoint | `process`: load, decide, detect loops, ask the policy, wait for or resume an approval, execute, record | no call against the policy; checkpoints only grow; every exit leaves a status the queue agrees with |
| **Tool gateway** (`tools.py`) | none; action ids are a function of task, tool and arguments | policy again, ledger lookup, backend call, ledger write | a call with a persisted result is not repeated |
| **Durable worker** (`worker.py`) | the delivery in hand | `run_once`: claim, process under a heartbeat, acknowledge and requeue, or retry, or dead-letter; `serve` polls | work is never dropped; a retry is counted out |
| **Permission policy** (`policy.py`) | none | `evaluate` | blocked tools never run |
| **Loop detector** (`loop_detector.py`) | none | `reason` on two histories | every cycle and every run without progress is found |
| **Control plane** (`api.py`) | per request: a copy of a checkpoint | create, approve, reject, replay; state, event stream, summary | a decision of a human is neither lost nor overridden |
| **AWS store** (`aws_store.py`) | the same in DynamoDB and SQS | the same, some in several calls | the same promises over a queue that may deliver twice |
| **AWS tools, demo service** (`aws_tools.py`, `demo_service.py`) | an ECS service and its metrics | inspect, restart, verify | recovery reported only when it happened |
| **Decision engines** (`decision.py`) | none | `decide` on a checkpoint | an incident of the demo ends recovered |
| **Evaluation, verifier** (`evals/`, `scripts/`) | none | drive a scenario, check its outcome | — |
| **Configuration, wiring, telemetry, dashboard, infrastructure** | values and counters | — | — |

**Interactions.** Workers and API processes share nothing but the store. Each
store call of the SQLite store commits before it returns, so the grain of
interleaving is one store call. A worker holds a copy of the checkpoint over
several calls; so does an approve or reject request. The version number of the
workflow row is what detects that a copy is stale. The queue's own operations
(`acknowledge`, `retry_or_dead_letter`, `extend_lease`) name a row and never ask
who holds it. `process()` speaks to `run_once` by returning a checkpoint or by
raising a retryable or a permanent error.

**What is hard.** A process may die between any two store calls and between the
effect of a tool and its ledger row. A lease can pass under a live worker: the
heartbeat is a task of the same event loop as `process()`, and a tool call is
synchronous, so nothing renews the lease while one runs. A tool can act and lose
its answer. Approve, reject and replay run against workers that are in the middle
of something, each in several transactions. A retried delivery decides again and
lengthens the histories the loop detector reads. `PROJECT.json` lists these
hazards line by line with the properties aimed at each.

## The models

| Module | Models | Extends |
|---|---|---|
| `Models` | the checkpoint, the calls an agent may ask for, their action ids (`models.py`, `tools.py`) | |
| `PermissionPolicy` | `PermissionPolicy.evaluate` | `Models` |
| `LoopDetector` | `LoopDetector.reason`, `_repeated_suffix` | |
| `SQLiteStore` | one operator per writing call of the store | `Models` |
| `WorkflowRuntime` | `process()` with `_execute_tool`, `_resume_approved_action`, `_fail` and the gateway: one action per store or backend call | `SQLiteStore`, `PermissionPolicy`, `LoopDetector` |
| `DurableWorker` | `run_once`, heartbeat, lease, death of a worker | `WorkflowRuntime` |
| `ControlPlane` | create, approve, reject, replay: one action per store call | `SQLiteStore` |
| `AgentResilience` | the SQLite deployment: any number of workers and requests over one store; its properties | `DurableWorker`, `ControlPlane` |
| `IncidentLifecycle` | *abstract*: what the runtime promises of one incident | `PermissionPolicy` |
| `Implementation` | the refinement mapping from `AgentResilience` to it | `AgentResilience` |
| `AuditTrail` | the events table, the event each process still owes, the stream of an incident | `Implementation` |
| `AWSDurableStore` | SQS and its dead-letter queue, and `create_workflow` in two calls (`aws_store.py`) | `SQLiteStore` |
| `AWSAgentResilience` | the AWS deployment: the same runtime and routes over that store | `AgentResilience`, `AWSDurableStore` |
| `DecisionEngine` | `DeterministicDecisionEngine.decide` | `Models` |
| `OperationsBackend` | `ScenarioBackend`, `AWSOperationsBackend` and the workload they look at | `DurableWorker` |
| `RecoveryWorkload` | the SQLite deployment with that agent and that backend; what evaluation and verifier accept | `AgentResilience`, `DecisionEngine`, `OperationsBackend` |
| `DocumentedClaims` | statements of the documentation that the code contradicts | `Implementation` |
| `LoopGuard` | the detector as `process()` drives it, for one workflow, with a reference definition of a cycle | `LoopDetector` |
| `MCCalls`, `MCAgentResilience`, `MCAuditTrail`, `MCAWSAgentResilience`, `MCRecoveryWorkload` | instances for TLC | |
| `AgentResilienceProofs` | proofs: types, the policy gate, the optimistic version check | `AgentResilience` |
| `LifecycleProofs` | proofs: checkpoints and approvals, the refinement | `AgentResilienceProofs`, `Implementation` |
| `EffectsProofs` | proofs: deliveries of a row, effects of a call | `LifecycleProofs` |
| `UndisturbedProofs` | proofs: what holds as long as no lease passes under a live worker; dead letters, no work lost | `EffectsProofs` |
| `AuditTrailProofs` | proofs: the events table and the stream | `AuditTrail`, `UndisturbedProofs` |
| `RecoveryProofs` | proofs: the reference agent's way to verified recovery | `RecoveryWorkload`, `UndisturbedProofs` |
| `AWSProofs` | proofs: types, the policy gate, the version check, the dead letters, the count of effects and the messages of unfinished work on AWS | `AWSAgentResilience`, `EffectsProofs` |
| `LoopGuardProofs` | proofs: the loop detector | `LoopGuard` |

**State.** `workflows[task]` is the checkpoint in the row, its version included;
`created` says which rows exist. `queue` is a sequence of rows, and a row's index
is its autoincrement id. `tool_results` and `approvals` are indexed by action id,
with `NoResult` and `"NONE"` where there is no row. Each worker has a program
counter `wpc`, the `delivery` it claimed, `state` (the variable of that name in
`process()`), `call` and `result`; each request has `hpc`, `htask`, `hstate`.
`effects` counts what the infrastructure really carried out: no code reads it.
`crashes`, `stalls`, `timeouts` and `replays` count the faults and interventions,
for the bounds and for the properties that say what each fault may cost.

**What is abstracted.** Time: a lease is the flag `expired`, a backoff is the flag
`delayed`, and a delayed row may be claimed or not, which covers every clock. An
evidence fingerprint is the evidence itself: SHA-256 is taken to be injective. A
call is its tool, environment and target; the rest of the arguments only enters
the action id and is covered by `target`. Decisions are arbitrary, so both
decision engines are covered. Reads that decide nothing and metrics are left
out; events are in `AuditTrail` only. Local computation joins the store call that follows it, which no other
process can tell apart. `MutantX` definitions are not the code; each is a plausible bug
that shows one property is able to fail.

**A worker's round**, by program counter: `idle` –claim→ `load` –→ `running` –→
`decide` –→ `denied` | `pend` → `create_approval` | `execute` → `backend` →
`save_result` → `record` –→ `ack` → `enqueue`; a checkpoint with a pending action
goes `load` → `approval` → `execute`; a retryable error, a lost version check
included, goes to `retry` and perhaps `dead` → `dead_save`; a permanent one to
`perm_ack` → `perm_load` → `perm_save`.

### The lifecycle, and how the runtime implements it

`IncidentLifecycle` has no queue, versions, workers or handlers: an incident is
NONE, OPEN, WAITING, CLOSED or REJECTED, has at most one guarded action pending,
and goes through `Submit`, `Ask`, `Present`, `Answer`, `Release` or `Refuse`,
`Perform`, `Conclude`, `Close` and `Reopen`. `Implementation` maps the SQLite
deployment to it: QUEUED and RUNNING are OPEN, the terminal statuses but
HUMAN_REJECTED are CLOSED, `verdict` is the approvals table, `performed` the
calls with an effect, `reopened` the replays. `ImplementsLifecycle` then says
that each step of each process is one of those actions or shows nothing, which
rules out, for any interleaving: an action asked for while another is pending, an
answer before the question or a second answer, a release without an approval, a
refusal without a rejection, a pending action forgotten before it was carried out,
a step out of a closed or rejected incident other than a replay. TLC checks it
(`crashes`, `stalls`), and [it is proved](#what-is-proved).

### The AWS deployment

The conditional writes of DynamoDB do what the SQLite transactions do on
checkpoints, ledger and approvals, so those operators are used again. What differs is
the queue. A row of `queue` is a message; PROCESSING is in flight, COMPLETED is
deleted, and DEAD is a message of its own in the dead-letter queue. Messages come
in any order; `send_message` does not look for an active message; a receipt is the message
and its receive count, so an old receipt may delete nothing. A message that SQS
delivers twice is `LeaseExpires` under a live holder or `Resurrect`. Creation,
dead-lettering and replay are several calls, with a crash possible in between.

A `ClientError` is a step of its own (`StoreCallFails`): where the call stood is
left by the error path of `run_once` or of `_execute_tool`. It is modelled before
the call acts; a failure *after* a save is the same failure at the next program
counter, because nothing happens between the two. A call whose answer is lost, or
an error nobody catches, ends the process and is a crash. Heartbeats only keep a
message in flight that is in flight, so they are invisible.

`replay_dead_letter` takes a receipt and a task id from the request and never matches
them (`aws_store.py:355`, SQLite does, `store.py:313`). `OpenReplay` therefore takes any
letter ever sent, or none (`NoLetter`), and any incident. A replay whose receipt is not
that of a letter of its incident is `Misaddressed`; once it has saved, its receipt is in
`astray`. No code reads `astray`: the properties of the dead letters are stated with it.

### The recovery workload

Agent and tools of the core may do anything. `RecoveryWorkload` puts the
deterministic engine and either backend in their place: on AWS a service whose
workload degrades (`demo_service.py`), whose rollout takes its time, and whose
metric is published on its own. Every tool call is one step, and a result is only
"evidence", "healthy" or "unhealthy". The conditions of `evals/run_local.py` and
`scripts/verify_milestone4.py` become properties of this agent.

### The audit trail

`AuditTrail` adds the events table. A process that changed a workflow owes an
event and does nothing else until it has recorded it; if it dies, the event is
lost. `create_workflow` and `replay_dead_letter` write both in one transaction. A
subscriber reads the state and the events in two queries and ends at a terminal
state. Only events that follow a change of the workflow are kept. An event is its type
and, where it does not end the workflow, the call it is about: a row of the table names
the tool, or the action a human is asked about; that of `APPROVAL_GRANTED` names only
who granted it, so there the model knows more than a reader of the table.

## What the runs check

| Run | Instance | Shows |
|---|---|---|
| `crashes` | 2 workers, 1 request, a blocked and a gated call, 2 results; 1 crash, 1 lost answer, 1 replay | `TypeOK`, `PolicyGate`, `SingleProcessor`, `EvidenceFromLedger`, `QueuedPendingIsApproved`, `DeadLettersAgree`, `WaitingHasApproval`, `EffectsAccounted`, `NoEffectAfterResult`, `ImplementsLifecycle` |
| `stalls` | 2 workers, 1 request, a gated call; 1 stall, 1 lost answer, 1 replay | `PolicyGate`, `EffectsAccounted`, `AttemptsBounded`, `CheckpointMonotone`, `TerminalIsFinal`, `ImplementsLifecycle` with two workers on one incident |
| `audit` | 1 worker, 1 request, 1 subscriber, a call that runs at once and two gated ones, one attempt per delivery; 1 crash, 1 replay | `OutcomesAudited`, `ApprovalPrecedesAction`, `StreamEndsWithOutcome` |
| `aws` | 2 workers, 1 request, a call that runs at once and a gated one; one fault (a crash, a second delivery, a failed store call or a stray receipt), 1 replay of any receipt | `PolicyGate`, `CheckpointMonotone`, `TerminalIsFinal` over SQS and DynamoDB; `AWSTypeOK`, `AWSEffectsAccounted`, `AWSWorkNotLost`, `DeadLetterKept`, `LetterFollowed`, `ReplaySurvives` |
| `recovery` | 1 worker, 1 request, the default thresholds, two fixtures and AWS; 1 crash, 1 lost answer; fairness | `CompletedIsRecovered`, `OneFaultIsNoLoop`, `ResumesAtNextStep`, `EvaluationPasses` |
| `settles` | 2 workers, a call that runs at once; 1 stall; fairness | `WorkNotLost`, and `EventuallySettles`: every incident ends |
| `loop_guard` | every history of two tools and two fingerprints up to the tool budget of 10 | `DetectsCycles`, `NoCycleSurvives`, `NoStuckRunSurvives` |
| `claim_*` | five | a sentence of the documentation each, which the code contradicts ([below](#disagreements-found)) |

The properties, from the strongest promise down:

- `PolicyGate`: no call reaches the infrastructure against the policy, whoever
  resumes it, after whatever redelivery, replay, rejection or stall.
- `ImplementsLifecycle`: what can be seen of an incident is a behaviour of the
  lifecycle.
- `CheckpointMonotone`, `TerminalIsFinal`: no stale writer takes anything out of a
  checkpoint or changes a workflow that is over; only a replay reopens one.
- `SingleProcessor`: without stalls, one worker at a time is inside `process()`
  for a task. It is not a lock that gives this but four facts together: `enqueue`
  looks for an active row, `claim` takes one row, `acknowledge` comes before the
  next `enqueue`, and `approve` enqueues only what waits.
- `NoEffectAfterResult`, `EffectsAccounted`: a call with a result in the ledger is
  not repeated, and every repetition there is has a crash, a stall or a lost
  answer to account for it. On AWS `AWSEffectsAccounted` adds failed store calls and
  replays: the first is free, as on SQLite, unless one has named a receipt of another
  incident or none; a second may be of the same letter.
- `EvidenceFromLedger`: what the agent is shown is what the ledger holds.
- `QueuedPendingIsApproved`, `WaitingHasApproval`: the status of the workflow and
  the approval row, written in different transactions, agree.
- `DeadLettersAgree`, `AttemptsBounded`: so do the dead rows and the workflows,
  and attempts are counted out. `DeadLetterKept` is the half of it that SQS
  promises whatever fails: the letter is sent before anything else.
- `LetterFollowed`: however often a letter is replayed and whatever dies on the way, it
  leaves the dead-letter queue only after a later message of its incident was sent,
  unless a replay of another incident named it. `ReplaySurvives`: a replay of a letter of
  its incident that dies half-way can be asked for again, or its message is on the way.
- `WorkNotLost`, `AWSWorkNotLost`: an unfinished workflow always has somebody who
  will go on. Without deduplication the AWS store keeps this for approvals that come early
  too, which SQLite does not (`claim_approved_executed`).
- `OutcomesAudited`: an incident that is over has the event of its outcome, or the
  process that ended it is about to record it. `ApprovalPrecedesAction`: the trail
  never shows a guarded action before the approval of that action, whatever other
  calls, guarded or not, stand in between. `StreamEndsWithOutcome`: a
  stream sends the terminal state before it ends.
- `CompletedIsRecovered`: the reference agent closes an incident as recovered only
  after the approved restart took place and, unless a stall, a replay after a crash or
  another incident's restart intervenes, only when its rollout is over, whatever answer
  the ledger kept. `ResumesAtNextStep`: whoever resumes goes on at the first missing
  step, and the result a worker saves is never that of a step completed before.
  `OneFaultIsNoLoop`: one crash or one injected failure is not taken for a loop.
  `EvaluationPasses`: each incident of a fixture ends as its case expects.
- `EventuallySettles`: every incident reaches a terminal status or waits for a
  human, however the agent decides and however the tools fail.
- `DetectsCycles`: the detector's slicing agrees with "the history ends in a
  pattern repeated `RepeatThreshold` times". `NoCycleSurvives`: looking at the
  suffix at each decision leaves no cycle anywhere in the history.
  `NoStuckRunSurvives`: although answers append fingerprints without asking,
  asking at decisions is enough.

Deadlock is not checked: a system in which every incident is over, and every bound on
faults is used up, rightly stops.

## Bounds

| Constant | Meaning | Values | Why enough |
|---|---|---|---|
| `Tasks` | incidents | 1 | Incidents meet only in the order `claim` chooses rows, and each property is about one; the theorems cover any number |
| `Workers`, `Handlers` | processes, requests | 2, 1 (1, 1 in `audit` and `recovery`) | A stale holder needs one other; a request and a worker are the two writers an audit event can race; in `recovery` a crash makes the one worker its own successor |
| `Calls`, `Results` | | 1–3 (6 calls in `recovery`) | one call of each verdict of the policy; in `audit` two gated ones, so that the approval of one is not taken for the other's; two results tell an old answer from a new one; the whole runbook |
| `MaxQueueAttempts` | the row's `max_attempts` | 2 (1 in `audit`, 5 in `claim_convergence`) | one attempt retried, one dead-lettered; in `audit` a retry adds no event of its own kind |
| `RepeatThreshold`, `MaxToolCalls` | the loop detector's | 3, 2–3 (10 in `loop_guard`; 4, 20, the defaults, in `recovery` and `claim_convergence`) | they end every history; `loop_guard` takes every pattern length up to 3 |
| `MaxCrashes` | deaths of workers and requests | ≤ 1 | the properties bite after the first fault |
| `MaxStalls` | leases that pass under a live holder, and messages SQS delivers again | ≤ 1 | one makes two holders; 0 in `recovery`, whose liveness check a stall would make too large |
| `MaxTimeouts` | tools that act and lose the answer | ≤ 1 | |
| `MaxReplays` | replays by an operator | ≤ 1 | a second replay needs a second dead letter |
| `MaxFaults` | on AWS, crashes, stalls, failed store calls and stray replays together | 1 | each of them against every multi-call operation; a replay is asked for before the last fault, so that the fault can strike it. With one incident, a stray receipt is that of no letter; the theorems cover any number of incidents |
| `MaxLateStalls` | on AWS, stalls once a replay was asked for | 0 | the runs of 2 workers fit in minutes; with 1 TLC visits 5.6 million states, twice as many, and finds no error either |
| `StreamBound` | constraint of `audit`: how far an incident with a subscriber is followed | to the end while undisturbed; one decision after a crash or a replay | nothing in the runtime depends on the subscriber, so the other properties are checked without it on every history; `StreamEndsWithOutcome` is proved for all |
| `Backends` | what `recovery` starts with | a fixture that heals, with a transient failure; one that does not heal; AWS | the outcomes the evaluation distinguishes |

The theorems hold for every finite or infinite value of these constants that satisfies the
named assumptions in the modules that declare them.

## Fairness

`FairSpec` assumes three things. A worker that can take a step of `run_once` takes
one: `serve()` polls for ever (`worker.py`). A request being served is served to
the end. A lease that nobody holds passes: it is a time in the database. Nothing
is assumed of humans, operators, crashes, stalls or heartbeats, and the agent and
the tools may fail for ever. Weak fairness suffices since a worker is sequential and what
it can do is not disabled by others for ever. `settles` has no crashes, because
the claim `claim_crash_taken_over` shows that a crash can end an incident's
progress for good. `FairRecoverySpec` in `recovery` is the same three assumptions over
the larger state; the service, its rollout and its metric get none. Its
`EvaluationPasses` has the evaluation's own conditions as a premise: no crash, and
requests between two calls of `run_once`.

## What is proved

The theorems are proved from the specification (`Spec`, `AuditSpec`,
`RecoverySpec` or the detector's) and the named assumptions on the constants only: any tasks, workers, handlers, calls and results, any bounds.

- **`TypeCorrect`** (`AgentResilienceProofs`): `Spec => []TypeOK`. `TypeOK` is inductive
  once it says two things beyond the types: a worker that is not idle holds a row
  that exists, and where a call is about to be asked for or executed there is one.
  The proof has a lemma per store operation, a lemma for each of the helpers by
  which `process()` moves on, and a step per action.
- **`PolicyGateHolds`** (`AgentResilienceProofs`): `Spec => []PolicyGate`. The
  strengthening `GateInv` adds that a worker at `execute` or `backend` has a call
  that is allowed and, if it needs a human, whose approval row says APPROVED. It
  is inductive because only two operations write approvals and neither touches an
  APPROVED row (`ApprovalOps`), so what a worker read stays true for as long as it
  acts on it, with no lock and no version check.
- **`CopiesStayFresh`, `CheckpointMonotoneHolds`, `TerminalIsFinalHolds`**
  (`AgentResilienceProofs`): the optimistic version check does its job. `CheckpointInv`
  says that a copy that may still be saved is of a live workflow and is either
  behind its row (a smaller version, so its save will fail) or equal to it; that
  a result about to become evidence is one; and that only created tasks are worked
  on, so that creating one resets nothing. Every save then extends the row it
  replaces, and a row that is terminal has no fresh copy.

- **`QueuedPendingIsApprovedHolds`, `WaitingHasApprovalHolds`** (`LifecycleProofs`),
  from **`LifecycleInvHolds`**: checkpoint, approval, ledger and effects are written
  in different transactions and yet agree. `LifecycleInv` says what each worker
  knows at each program counter (`WorkerWay`: while it decides nothing is pending;
  while it executes, the pending action is none or the approved call in its hands;
  once it has a result the call was carried out), what a request knows
  (`HandlerWay`), that a ledger row is of a call carried out, and that a waiting
  checkpoint has its approval row or a worker about to create that very row
  (`Asked`). The proof classifies what a step may do to a checkpoint (`RowChange`:
  it proceeds, asks, is released or refused, concludes or closes): a saver's copy
  equals the row it replaces (`AgentResilienceProofs`), so what it knows of the copy it
  knows of the row. Approvals only go forward (`ApprovalsForward`), so what
  others know stays true.
- **`ImplementsLifecycleHolds`** (`LifecycleProofs`): `Spec =>
  ImplementsLifecycle`. Every step changes at most one checkpoint, one approval
  row or the effects, or adds an incident. Each way of a checkpoint maps to one
  lifecycle action (`RowImplements`), `CreateApproval` to `Present`, the two
  resolving calls to `Answer`, the two backend steps that act to `Perform`; all others
  change nothing the mapping looks at. It rests on all three inductive invariants.

- **`AttemptsBoundedHolds`** (`EffectsProofs`), from **`DeliveryInvHolds`**: a row
  is delivered `MaxQueueAttempts` times, and once more for every crash and stall.
  No store call checks who calls it, and `retry_or_dead_letter` trusts the attempts
  its caller was delivered, so the proof counts. The right to deliver a row once
  more is with the row while it may be claimed and with each worker that has yet to
  report on it (`Claims`); a claim, a report and a replay pass it on, and only a
  lease that passes under a live worker makes one more: there are at most
  `1 + stalls`. An unspent attempt then belongs to one of them.
- **`EffectsAccountedHolds`** (`EffectsProofs`), from **`SlotInvHolds`**: a call acts
  once, and once more for every crash, stall or lost answer, for any number of
  tasks, workers, requests and replays. The proof counts who can bring a task to
  its next tool call (`Slots`): a row that will be claimed or replayed, a worker that
  goes on, a checkpoint that waits, a request that has released it. Every step
  passes a slot on; a crash or a stall makes at most one more. A worker that carried
  a call out and has not recorded it gave its slot for that, so the effects of a
  call and the slots that may still lead to it stay within the budget together.
- **`SingleProcessorHolds`, `NoEffectAfterResultHolds`, `EvidenceFromLedgerHolds`**
  (`UndisturbedProofs`), from **`UndisturbedInvHolds`**: without a stall the two
  counts are tight. A row has one keeper and is leased while it has one. A task has
  one slot until something crashes, so one row that is not done; with crashes but
  no replay, `enqueue`'s own check keeps its active rows apart (`RowsApart`). As the
  rows stay apart, so do the workers that hold them. Nobody then fills the ledger for a call
  that another worker looked up and did not find.
- **`DeadLettersAgreeHolds`, `WorkNotLostHolds`** (`UndisturbedProofs`), from
  **`EndingInvHolds`**: these follow a worker from the row it settles to the
  checkpoint it saves. A dead row is its task's only slot, so until its worker has
  ended the workflow nobody else writes it, the version check passes, and the
  outcome agrees with the row. A row stops being active only when its worker
  settles it; a worker with nothing left to do has left a workflow that is over or
  waits (`Parked`), every other one carries its workflow and will enqueue or end it
  (`Carrier`). The second invariant also covers stalls, as long as nobody approves.
- **`AuditTypesHold`, `StreamEndsWithOutcomeHolds`, `OutcomesAuditedHolds`,
  `ApprovalPrecedesActionHolds`** (`AuditTrailProofs`), from **`AuditInvHolds`**, of
  `AuditSpec`. A step beside the events table is a step of the runtime or the death
  of a process with only an event left to record (`AuditSteps`), and the invariants
  of the runtime survive that death. The event a step owes is read off what the step
  saves (`WorkerEvents`, `RequestEvents`), and an outcome stays current because only
  opening an incident makes older events old (`CurrentAppend`). The stream compares
  versions: an equal version is an equal status, and versions only grow. For the
  approvals, `GrantInv`: while nothing dies and no lease passes a task has one slot
  (`SlotInv`), so a waiting one is `Frozen`: nobody has anything to do for it, and what it
  waits for is the action the human is asked about (`FrozenOn`). It stays so while the
  question is open and until the handler that got the answer saves it, and then that
  handler has the only slot until it has recorded the approval of that action
  (`ApprovedTold`). A worker with a guarded call holds a slot and passed the gate, so the
  approval of its call is in the trail; calls without a gate need no approval and leave
  all this alone.
- **`DetectsCyclesHolds`, `NoCycleSurvivesHolds`, `NoStuckRunSurvivesHolds`**
  (`LoopGuardProofs`): the detector for every threshold, pattern and history. That
  a suffix repeats its first `p` elements is the same as having period `p`
  (`PeriodOfPattern`); the proof takes the least index where the two differ, since an
  induction is out of reach. From that the detector is exact (`DetectorIsExact`). A
  repetition ends somewhere, and at that decision it was the suffix. Answers append
  fingerprints that no decision looked at; `WindowsChange` says which windows may be
  waiting for the next decision, and that decision repeats the last fingerprint.

- **`RecoveryTypesHold`, `ResumesAtNextStepHolds`, `CompletedIsRecoveredHolds`**
  (`RecoveryProofs`), from **`RecoveryInvHolds`**, of `RecoverySpec`: for any incidents,
  workers, requests and fixtures. With the engine and the backend filled in, every step is
  a step of `Next` or leaves the runtime alone (`RecoveryIsRuntime`), so its invariants
  hold. The new part says that a row, and a copy that may be saved, has the steps of a
  prefix of the runbook, and that the call pending or in a worker's hand is the one
  after it (`Sound`, `CopySound`); a save then adds exactly that step, which the row did
  not have (`RecordedIsMissing`). What is evidence
  was carried out (`Performed`) and, while undisturbed, is in the ledger (`Ledgered`), so
  verification comes after the restart is in the ledger. Whoever carries out a call found
  nothing in the ledger for it (`LedgerInHand`), so the restart is not carried out
  again, and no rollout begins between the look at a healthy service and the end of the
  incident (`VerifiedAfter`). The proof needs that no other incident restarts the same
  service (`Alone`), and the property says so: with two incidents the second restart may
  roll out while the first incident ends.

The AWS deployment (`AWSProofs`), of `AWSSpec`, for any number of faults and replays:

- **`AWSTypeCorrect`**: `AWSTypeOK` is inductive together with `LettersApart`, that a
  letter is never a message of the main queue, which `Resurrect` and two queues in
  one sequence could break. A step of a worker is a step of `process()`, proved about
  before, or a reception, a failed call, or it leaves `process()` with one change of
  the queue (`WorkerWays`); each step sends one message or moves one along one
  `MessageWay`.
- **`AWSPolicyGate`**: `GateInv` as above. A failed call and a receipt that deletes
  nothing leave the gateway, and no step of the queue writes an approval.
- **`AWSCopiesStayFresh`, `AWSCheckpointMonotone`, `AWSTerminalIsFinal`**: the version
  check holds although two workers may hold one message. A replay's copy may be of
  any workflow, so what `AWSCheckpointInv` asks of it is weaker: if its version is the
  row's, the copy is the row (`Matches`).
- **`AWSDeadLetterKept`**: before any replay the letters ever sent are those that
  stand, and a worker between `dead_delete` and `dead_save` has sent its letter
  (`DeadLetterInv`). Only the delete of a replay takes a letter (`LetterTaken`).
- **`AWSLetterFollowed`**: a request that is about to delete a letter has gone astray or
  names a letter of its incident, and then it has sent a message after it (`FollowInv`);
  messages are never removed from the record.
- **`AWSEffectsAccountedHolds`**: the slot count of `EffectsProofs` for two holders of one
  message. A worker inside `process()` has a slot of its own; a message has one while it
  can be received, and while it is in flight with nobody left who holds its last receipt
  (`Receipt`, `ShowsAgain`); so has a request that is about to send, and a checkpoint that
  waits for a human (`AWSSlots`). A step passes its slot on (`AWSSlotPassed`), gives it up
  for one effect, or makes a new one (`AWSSlotMade`), and then a crash, a second delivery,
  a failed call or a replay pays for it (`Paid`). While no replay has gone astray the first
  one takes the slot of the letter it replays, and only the later ones are paid for; a
  stray one makes a slot, and all are paid for (`Charge`). Once the ledger has the call,
  only workers that had asked before still count (`AWSCandidates`), and nobody new comes
  (`ActorsStep`). What a worker or a request knows of its checkpoint is `AWSWayInv`.

- **`AWSNoWorkLost`**: without a fault and with one replay at most, of a letter of its
  incident, an unfinished incident is `Driven` (`AWSDriven`): it has a message that can be received, a worker that is going
  to send or show one or to end it (`Driving`), or a request that is about to send one.
  A calm step of such a worker leaves it so (`CalmDrives`), on two conditions. The worker
  holds its message alone (`HeldAlone`), so that the store does not refuse to show it
  again. And what it resumes has been approved (`GrantedRows`), or
  `_resume_approved_action` would return it as waiting without saving it, and nobody would
  go on: approve() releases a checkpoint it has the approval for (`AnswerGranted`), and
  the replay of one whose pending action was never answered is excluded by the slots. A task has one at most
  (`AWSSlotsBounded`), a letter is one and a waiting checkpoint another
  (`LetterNotWaiting`), and a workflow ended with its message has none left
  (`EndedApart`). A second replay would break that.

Only model-checked are:

- `ReplaySurvives` of the AWS deployment, which speaks of what one fault leaves behind;
- `OneFaultIsNoLoop`, which counts the repetitions in histories of bounded length
  against the default thresholds;
- the liveness properties `EventuallySettles` and `EvaluationPasses`, out of the
  prover's reach: liveness under fairness needs `ENABLED`.

## Disagreements found

Each `claim_*` run states a sentence of `README.md` and TLC answers with a
behaviour of the code.

1. `claim_crash_taken_over`: `run_once` acknowledges (`worker.py:37`) before it
   enqueues (`worker.py:41`). A crash in between leaves a QUEUED workflow with no
   delivery, and nothing looks for such workflows (`README.md:35`).
2. `claim_approved_executed`: no fault is needed. If a human approves after the
   approval row exists and before the worker acknowledges, `enqueue` finds the old
   row active and adds none, and the acknowledgement completes that row
   (`README.md:81`).
3. `claim_waiting_answerable`: the action id has no step in it, so a second
   request for the same production restart meets a resolved approval row; the
   workflow waits for an approval that can be neither given nor refused
   (`README.md:18`).
4. `claim_rejection_final`: a worker that lost its lease can leave a dead row of an
   incident a human then rejects; replaying it reopens the incident (`README.md:18`).
5. `claim_convergence`: while a rollout goes on each retry of `verify_recovery`
   decides again and lengthens the histories; with the default thresholds the third look ends
   the incident as LOOP_STOPPED (`docs/milestone4-acceptance.md:9`).

Two more need no run of their own. `README.md:15` promises that persisted results
prevent duplicate calls after crashes; the result is persisted after the backend
acted (`tools.py:97`, `:100`), and a crash
in between repeats the effect, which is why `EffectsAccounted` has `crashes` in its
bound. `README.md:38` promises that unavailable tools reach the dead-letter queue;
with the default thresholds they end as LOOP_STOPPED for the reason of point 5.

## Weaknesses the properties step around

Where a property has a precondition, this is what happens without it.

- `SingleProcessor`, `NoEffectAfterResult` and `EvidenceFromLedger` are stated for
  behaviours without a stall, and without a replay after a crash (`Undisturbed`).
  A stall makes two holders by design. A crash can leave a dead row beside the one
  `approve` puts in; replaying the dead one makes two active rows.
- `DeadLettersAgree`: an operator may replay a row after it became DEAD and before
  the worker saved DEAD_LETTERED (`worker.py:43`–`53`). The worker then ends the
  replayed workflow, whose row is no longer dead.
- `WorkNotLost`: a stalled worker acknowledges a row that another holds, or that an
  approval or a replay has put back. With approvals or replays this drops the
  work; without them the other worker still enqueues.
- A `ConcurrentUpdateError` in the error paths of `run_once` leaves `serve()` as an
  exception. In the model the worker goes on as a restarted process would.
- `WaitingHasApproval` is stated without crashes: a crash between the two writes
  leaves a workflow that waits for an approval that does not exist.
- `OutcomesAudited` is stated without crashes: an API process that dies between
  `save_workflow` and `record_event` leaves a rejection without an audit event.
- `StreamEndsWithOutcome` speaks of the state: a stream may end without the last
  event, which is recorded after the save the stream has seen (`api.py:189`).
- `AWSWorkNotLost` is stated without faults: a crash between the STATE item and the first
  message leaves a QUEUED incident without a message (`aws_store.py:42`, `:54`).
- A replay on AWS that names a receipt of another incident, or of no letter, needs no
  fault to do harm (`aws_store.py:355`). The other incident's letter is deleted and no
  message of it follows: `LetterFollowed` leaves out letters named that way. The incident
  that is replayed gets a message although it may have one, and may act twice:
  `AWSEffectsAccounted` charges the replay. If it waits for a human, it becomes QUEUED,
  a worker gives it back as waiting without saving it (`runtime.py:138`) and deletes the
  message, and it stays QUEUED: `AWSWorkNotLost` is stated without such replays. And if
  the replay dies after its save there is neither letter nor message of the incident:
  `ReplaySurvives` speaks of letters of the incident only.
- `ReplaySurvives` has a third case: somebody else may have saved the workflow meanwhile.
  And it is about incidents whose pending action, if any, was approved. After a second delivery,
  one of two workers may dead-letter what waits for a human because of the other
  (`worker.py:47`). Its replay makes it QUEUED, a worker finds its action unapproved,
  gives it back as waiting without saving it (`runtime.py:138`) and deletes the message:
  the row stays QUEUED and nobody goes on. In the run `aws` the fault strikes after the
  replay was asked for.
- `CompletedIsRecovered` speaks of the rollout only, in undisturbed behaviours and where
  no other incident restarts the service: the datapoint that proves recovery may be older than the restart (`aws_tools.py:158`, `:161`).
- `OneFaultIsNoLoop` counts crashes and injected failures on a fixture: a single
  lost lease can by itself make LOOP_STOPPED, because both holders append to the
  histories. And on the fixtures only other tools fail: the attempt is counted from
  the decisions (`tools.py:96`), and resuming an approved action decides nothing, so an
  injected failure of `restart_service` would recur at every delivery after the approval
  (`tools.py:50`) until the incident is dead-lettered.
- A heartbeat that fails surfaces only where its task is awaited (`worker.py:68`),
  after the delivery was settled; the model leaves a failed heartbeat out.

## What is not modelled

- On AWS: the redrive policy of the queue itself (the worker's own dead-lettering
  is modelled), the error codes of a `ClientError`, events and list queries.
- What evidence says, apart from whether it proves recovery; prompts, token usage
  and costs of the language-model engine (its decisions are arbitrary in
  `AgentResilience`).
- Events that announce or explain a step, and the telemetry counters.
- The reports, scores and polling of `evals/` and `scripts/`.
- Authentication, validation of requests, rendering, metrics, tracing, logging,
  configuration parsing, deployment: no protocol state.
- Disk failure and torn transactions: SQLite's atomicity is assumed.

## Plan

1. *Done:* the SQLite deployment, its runs and theorems; the lifecycle and its
   refinement, checked and proved; the audit trail; the AWS deployment; the
   reference agent over both backends.
2. *Done:* every invariant and action property of the SQLite deployment, of the loop
   detector and of the audit trail is a theorem, and of the recovery workload all but
   `OneFaultIsNoLoop`. On AWS the types, the policy gate, the version check, the
   dead letters, the count of effects and `AWSWorkNotLost` are theorems.
3. `OneFaultIsNoLoop` as a theorem: a bound on the copies of one request that a crash
   or an injected failure adds to the histories.
4. `ReplaySurvives` as a theorem: what `AWSDriven` becomes after one fault.
5. An instance with two incidents, and leases with an explicit clock as a
   refinement of the flags.
