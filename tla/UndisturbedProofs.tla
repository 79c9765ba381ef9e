------------------------- MODULE UndisturbedProofs -------------------------
(***************************************************************************)
(* What holds as long as no lease passes under a live worker, for every    *)
(* set of tasks, calls, workers and handlers: one worker at a time acts on *)
(* a task (SingleProcessor, NoEffectAfterResult, EvidenceFromLedger), and  *)
(* work ends as it should (DeadLettersAgree, WorkNotLost).                 *)
(*                                                                         *)
(* With no stall the bounds that EffectsProofs counts are tight:           *)
(* a row that somebody keeps is leased and has that one keeper, and a task *)
(* has one slot for every crash and one more.  From the slots follows that *)
(* the rows of a task stay apart, from the rows that its workers do, and   *)
(* from the workers that nobody fills the ledger behind another's back.    *)
(*                                                                         *)
(* The second half follows a worker from the row it settles to the         *)
(* checkpoint it ends.  A dead row is the only slot of its task, so nobody *)
(* else writes the workflow before its worker does.  An unfinished         *)
(* workflow has an active row or a carrier; a row stops being active only  *)
(* when its worker settles it, that worker is a carrier unless it is       *)
(* parked, and the workflow of a parked worker is over or waits for a      *)
(* human.                                                                  *)
(***************************************************************************)
EXTENDS EffectsProofs

-----------------------------------------------------------------------------
(* Rows and their holders *)

LEMMA NoTwoOfOne ==
  ASSUME NEW S, IsFiniteSet(S), Cardinality(S) <= 1, NEW x \in S, NEW y \in S
  PROVE  x = y
<1> SUFFICES ASSUME x # y PROVE FALSE
  OBVIOUS
<1>1. {y} \subseteq S \ {x}
  OBVIOUS
<1>2. Cardinality({y}) \in Nat /\ Cardinality({y}) <= Cardinality(S) - 1
  BY <1>1, Discard
<1>3. Cardinality({y}) = 1
  BY FS_Singleton, Zenon
<1>4. Cardinality(S) \in Nat
  BY FS_CardinalityType
<1> QED
  BY <1>2, <1>3, <1>4, SMT

\* With no stall a row somebody has yet to report on is leased, to nobody else.
LEMMA KeptRows ==
  ASSUME TypeOK, DeliveryInv, stalls = 0, NEW w \in Workers, wpc[w] \in KeepPC,
         NEW i, i = delivery[w].id
  PROVE  /\ i \in DOMAIN queue /\ Leased(queue[i])
         /\ \A v \in Workers : Keeps(v, i) => v = w
<1>1. i \in DOMAIN queue /\ Keeps(w, i)
  BY TypeParts DEF HoldsRow, KeepPC, RuntimePC, Keeps
<1>2. IsFiniteSet(Claims(i)) /\ Cardinality(Claims(i)) <= 1
  BY <1>1, SMT DEF DeliveryInv, ClaimsBounded
<1>3. <<"worker", w>> \in Claims(i)
  BY <1>1, ClaimsMember
<1>4. Leased(queue[i])
  <2>1. ~Leased(queue[i]) => <<"row", i>> \in Claims(i)
    BY ClaimsMember
  <2>2. <<"row", i>> # <<"worker", w>>
    OBVIOUS
  <2> QED
    BY <1>2, <1>3, <2>1, <2>2, NoTwoOfOne
<1>5. ASSUME NEW v \in Workers, Keeps(v, i) PROVE v = w
  <2>1. <<"worker", v>> \in Claims(i)
    BY <1>5, ClaimsMember
  <2>2. <<"worker", v>> = <<"worker", w>>
    BY <1>2, <1>3, <2>1, NoTwoOfOne
  <2> QED
    BY <2>2
<1> QED
  BY <1>1, <1>4, <1>5

-----------------------------------------------------------------------------
(* The rows of a task *)

\* The row still stands for something to do, by a worker or by an operator.
Undone(row) == row.status # "COMPLETED"

\* Who put the row in has given a slot for it, or the task is new.
Added(task) ==
    /\ queue' = Append(queue, NewRow(task))
    /\ ActiveRows(task) = {}
    /\ \/ \A i \in DOMAIN queue : queue[i].task_id # task
       \/ \E w \in Workers : wpc[w] = "enqueue" /\ Task(w) = task
       \/ \E h \in Handlers : RequestSlot(task, h)

LEMMA QueueGrows ==
  ASSUME TypeOK, OnlyCreated, [Next]_vars
  PROVE  SameDomain \/ \E task \in Tasks : Added(task)
<1>1. StoreTypeOK /\ LocalTypeOK /\ HoldsRow /\ ControlTypeOK
  BY TypeParts
<1>2. CASE queue' = queue
  BY <1>2 DEF SameDomain
<1>3. ASSUME NEW w \in Workers, RunOnceStep(w) PROVE SameDomain \/ \E task \in Tasks : Added(task)
  <2>1. CASE Enqueue(w)
    <3>1. Task(w) \in Tasks
      BY <1>1 DEF LocalTypeOK, Delivery, Task
    <3> QED
      BY <1>2, <2>1, <3>1 DEF Enqueue, enqueue, Added
  <2>2. ASSUME NEW i \in DOMAIN queue, Claim(w, i) PROVE SameDomain
    BY <1>1, <2>2, SameRows DEF Claim, SameDomain
  <2>3. CASE ProcessStep(w)
    BY <1>1, <1>2, <2>3, ProcessHolds
  <2>4. CASE Acknowledge(w) \/ PermanentAcknowledge(w) \/ RetryOrDeadLetter(w)
    <3>1. delivery[w] \in Delivery /\ delivery[w].id \in DOMAIN queue
      BY <1>1, <2>4
      DEF LocalTypeOK, HoldsRow, Acknowledge, PermanentAcknowledge, RetryOrDeadLetter
    <3> QED
      BY <1>1, <2>4, <3>1, SameRows
      DEF Acknowledge, PermanentAcknowledge, RetryOrDeadLetter, SameDomain
  <2>5. CASE DeadLoad(w) \/ DeadSave(w) \/ PermanentLoad(w) \/ PermanentSave(w)
    BY <1>2, <2>5
    DEF DeadLoad, DeadSave, PermanentLoad, PermanentSave, Reload, SaveFinal, save_workflow,
        storeVars
  <2> QED
    BY <1>3, <2>1, <2>2, <2>3, <2>4, <2>5 DEF RunOnceStep
<1>4. ASSUME NEW w \in Workers, Heartbeat(w) PROVE SameDomain
  BY <1>4 DEF Heartbeat, extend_lease, SameDomain
<1>5. ASSUME NEW i \in DOMAIN queue, LeaseExpires(i) PROVE SameDomain
  BY <1>5 DEF LeaseExpires, SameDomain
<1>6. ASSUME NEW task \in Tasks, CreateIncident(task) PROVE Added(task)
  BY <1>6 DEF CreateIncident, create_workflow, OnlyCreated, Added, ActiveRows
<1>7. ASSUME NEW h \in Handlers, ApproveEnqueue(h)
      PROVE  SameDomain \/ \E task \in Tasks : Added(task)
  BY <1>1, <1>2, <1>7, HandlerTypes DEF ApproveEnqueue, enqueue, Added, RequestSlot
<1>8. ASSUME NEW i \in DOMAIN queue, ReplayDeadLetter(i) PROVE SameDomain
  BY <1>8 DEF ReplayDeadLetter, replay_dead_letter, SameDomain
<1>9. CASE ControlStep
  BY <1>2, <1>6, <1>7, <1>8, <1>9
  DEF ControlStep, Approve, Reject, Open, HandlerStep, ApproveResolve, ApproveSave,
      RejectResolve, RejectSave, Resolve, resolve_approval, StaleRequest, save_workflow,
      storeVars
<1> QED
  BY <1>2, <1>3, <1>4, <1>5, <1>9 DEF Next, WorkerNext, WorkerCrash, HandlerCrash, vars, storeVars

\* With no stall a row that is done stays done, and a dead one stays dead unless it is
\* replayed: only its keeper reports on a row, and the row is leased to it.
LEMMA RowsLife ==
  ASSUME TypeOK, DeliveryInv, DeliveryMove, stalls = 0, NEW i \in DOMAIN queue
  PROVE  /\ Undone(queue'[i]) => Undone(queue[i])
         /\ Active(queue'[i]) /\ replays' = replays => Active(queue[i])
<1>1. StoreTypeOK /\ queue[i] \in QueueRow
  BY TypeParts, RowType
<1>2. ASSUME queue'[i] = queue[i] \/ queue'[i] = Reclaimed(queue[i])
      PROVE  /\ Undone(queue'[i]) => Undone(queue[i])
             /\ Active(queue'[i]) => Active(queue[i])
  BY <1>1, <1>2 DEF Reclaimed, Undone, Active, QueueRow, QueueStatus
<1>3. CASE QuietMove \/ \E w \in Workers : DieMove(w)
  BY <1>2, <1>3 DEF QuietMove, DieMove
<1>4. ASSUME NEW w \in Workers, NEW j \in DOMAIN queue, ClaimMove(w, j)
      PROVE  /\ Undone(queue'[i]) => Undone(queue[i])
             /\ Active(queue'[i]) => Active(queue[i])
  <2>1. CASE i = j
    BY <1>4, <2>1 DEF ClaimMove, Pendable, Undone, Active
  <2>2. CASE i # j
    BY <1>2, <1>4, <2>2 DEF ClaimMove
  <2> QED
    BY <2>1, <2>2
<1>5. ASSUME NEW w \in Workers, ReportMove(w)
      PROVE  /\ Undone(queue'[i]) => Undone(queue[i])
             /\ Active(queue'[i]) => Active(queue[i])
  <2>1. CASE i = delivery[w].id
    <3>1. Leased(queue[i])
      BY <1>5, <2>1, KeptRows DEF ReportMove
    <3> QED
      BY <3>1 DEF Leased, Undone, Active
  <2>2. CASE i # delivery[w].id
    BY <1>2, <1>5, <2>2 DEF ReportMove, OnlyRow
  <2> QED
    BY <2>1, <2>2
<1>6. ASSUME NEW j \in DOMAIN queue, ExpireMove(j)
      PROVE  /\ Undone(queue'[i]) => Undone(queue[i])
             /\ Active(queue'[i]) => Active(queue[i])
  BY <1>2, <1>6 DEF ExpireMove, OnlyRow, Undone, Active
<1>7. ASSUME NEW w \in Workers, RenewMove(w)
      PROVE  /\ Undone(queue'[i]) => Undone(queue[i])
             /\ Active(queue'[i]) => Active(queue[i])
  BY <1>2, <1>7 DEF RenewMove, OnlyRow, Undone, Active
<1>8. ASSUME NEW j \in DOMAIN queue, ReplayMove(j)
      PROVE  /\ Undone(queue'[i]) => Undone(queue[i])
             /\ Active(queue'[i]) /\ replays' = replays => Active(queue[i])
  <2>1. replays \in Nat
    BY TypeParts DEF ControlTypeOK
  <2>2. replays' # replays
    BY <1>8, <2>1, SMT DEF ReplayMove
  <2>3. Undone(queue'[i]) => Undone(queue[i])
    BY <1>2, <1>8 DEF ReplayMove, OnlyRow, Undone
  <2> QED
    BY <2>2, <2>3
<1> QED
  BY <1>3, <1>4, <1>5, <1>6, <1>7, <1>8 DEF DeliveryMove

\* With neither a stall nor a crash, a task has one row that is not done; with neither a
\* stall nor a replay, one row that is pending or leased.
RowsApart ==
    /\ stalls = 0 /\ crashes = 0 =>
        \A i, j \in DOMAIN queue :
            Undone(queue[i]) /\ Undone(queue[j]) /\ queue[i].task_id = queue[j].task_id => i = j
    /\ stalls = 0 /\ replays = 0 =>
        \A i, j \in DOMAIN queue :
            Active(queue[i]) /\ Active(queue[j]) /\ queue[i].task_id = queue[j].task_id => i = j

BudgetsBack ==
    /\ stalls' = 0 => stalls = 0
    /\ crashes' = 0 => crashes = 0
    /\ replays' = 0 => replays = 0 /\ replays' = replays

LEMMA NextBudgets ==
  ASSUME TypeOK, [Next]_vars
  PROVE  BudgetsBack
<1>1. BudgetsGrow
  BY DeliveryMoves, MoveBudgets, TypeParts
<1>2. replays \in Nat /\ (replays' = replays \/ replays' = replays + 1)
  BY TypeParts
  DEF ControlTypeOK, Next, handlerVars, ControlStep, CreateIncident, Approve, Reject, Open,
      HandlerStep, ApproveResolve, ApproveSave, ApproveEnqueue, RejectResolve, RejectSave,
      Resolve, StaleRequest, Respond, HGoto, ReplayDeadLetter, HandlerCrash, vars
<1> QED
  BY <1>1, <1>2, SMT DEF BudgetsGrow, BudgetsBack

\* Whoever adds a row had the only slot, so no dead row of the task is left.
LEMMA AddedAlone ==
  ASSUME TypeOK, SlotInv, stalls = 0, crashes = 0, NEW task \in Tasks, Added(task),
         NEW j \in DOMAIN queue, queue[j].task_id = task
  PROVE  ~Undone(queue[j])
<1> SUFFICES ASSUME Undone(queue[j]) PROVE FALSE
  OBVIOUS
<1>1. queue[j].status = "DEAD"
  BY TypeParts, RowType DEF Added, ActiveRows, Active, Undone, QueueRow, QueueStatus
<1>2. <<"row", j>> \in Slots(task, NoCall)
  BY <1>1, SlotsMember DEF RowSlot
<1>3. IsFiniteSet(Slots(task, NoCall)) /\ Cardinality(Slots(task, NoCall)) <= 1
  BY SMT DEF SlotInv, SlotsBounded, Disturbances
<1>4. CASE \E w \in Workers : wpc[w] = "enqueue" /\ Task(w) = task
  <2>1. PICK w \in Workers : wpc[w] = "enqueue" /\ Task(w) = task
    BY <1>4
  <2>2. WorkerSlot(task, NoCall, w)
    BY <2>1 DEF WorkerSlot, SlotPC
  <2>3. <<"worker", w>> \in Slots(task, NoCall) /\ <<"worker", w>> # <<"row", j>>
    BY <2>2, SlotsMember
  <2> QED
    BY <1>2, <1>3, <2>3, NoTwoOfOne
<1>5. CASE \E h \in Handlers : RequestSlot(task, h)
  <2>1. PICK h \in Handlers : RequestSlot(task, h)
    BY <1>5
  <2>2. <<"request", h>> \in Slots(task, NoCall) /\ <<"request", h>> # <<"row", j>>
    BY <2>1, SlotsMember
  <2> QED
    BY <1>2, <1>3, <2>2, NoTwoOfOne
<1> QED
  BY <1>4, <1>5 DEF Added

LEMMA RowsApartNext ==
  ASSUME TypeOK, CheckpointInv, DeliveryInv, SlotInv, RowsApart, [Next]_vars
  PROVE  RowsApart'
<1>1. /\ StoreTypeOK /\ DeliveryMove /\ BudgetsBack /\ RowsKept
      /\ SameDomain \/ \E task \in Tasks : Added(task)
  BY TypeParts, DeliveryMoves, NextBudgets, RowsKeepTask, QueueGrows DEF CheckpointInv
<1>2. ASSUME stalls' = 0, crashes' = 0, NEW i \in DOMAIN queue', NEW j \in DOMAIN queue',
             Undone(queue'[i]), Undone(queue'[j]), queue'[i].task_id = queue'[j].task_id
      PROVE  i = j
  <2>1. stalls = 0 /\ crashes = 0
    BY <1>1, <1>2 DEF BudgetsBack
  <2>2. ASSUME i \in DOMAIN queue, j \in DOMAIN queue PROVE i = j
    BY <1>1, <1>2, <2>1, <2>2, RowsLife DEF RowsApart, RowsKept
  <2>3. ASSUME NEW task \in Tasks, Added(task) PROVE i = j
    <3>1. PICK n : n = Len(queue) + 1
      OBVIOUS
    <3>2. /\ DOMAIN queue' = DOMAIN queue \cup {n} /\ queue'[n].task_id = task
          /\ \A k \in DOMAIN queue : queue'[k] = queue[k]
      BY <1>1, <2>3, <3>1, AddedRow DEF Added, NewRow
    <3>3. \A k \in DOMAIN queue : queue[k].task_id = task => ~Undone(queue[k])
      BY <2>1, <2>3, AddedAlone
    <3> QED
      BY <1>2, <2>2, <3>2, <3>3
  <2> QED
    BY <1>1, <1>2, <2>2, <2>3 DEF SameDomain
<1>3. ASSUME stalls' = 0, replays' = 0, NEW i \in DOMAIN queue', NEW j \in DOMAIN queue',
             Active(queue'[i]), Active(queue'[j]), queue'[i].task_id = queue'[j].task_id
      PROVE  i = j
  <2>1. stalls = 0 /\ replays = 0 /\ replays' = replays
    BY <1>1, <1>3 DEF BudgetsBack
  <2>2. ASSUME i \in DOMAIN queue, j \in DOMAIN queue PROVE i = j
    BY <1>1, <1>3, <2>1, <2>2, RowsLife DEF RowsApart, RowsKept
  <2>3. ASSUME NEW task \in Tasks, Added(task) PROVE i = j
    <3>1. PICK n : n = Len(queue) + 1
      OBVIOUS
    <3>2. /\ DOMAIN queue' = DOMAIN queue \cup {n} /\ queue'[n].task_id = task
          /\ \A k \in DOMAIN queue : queue'[k] = queue[k]
      BY <1>1, <2>3, <3>1, AddedRow DEF Added, NewRow
    <3>3. \A k \in DOMAIN queue : queue[k].task_id = task => ~Active(queue[k])
      BY <2>3 DEF Added, ActiveRows
    <3> QED
      BY <1>3, <2>2, <3>2, <3>3
  <2> QED
    BY <1>1, <1>3, <2>2, <2>3 DEF SameDomain
<1> QED
  BY <1>2, <1>3 DEF RowsApart

-----------------------------------------------------------------------------
(* One worker at a time *)

\* With no stall a task has one worker that has yet to report on its delivery.
LEMMA OneKeeper ==
  ASSUME TypeOK, DeliveryInv, HeldRowTask, RowsApart, stalls = 0, crashes = 0 \/ replays = 0,
         NEW v \in Workers, NEW w \in Workers, wpc[v] \in KeepPC, wpc[w] \in KeepPC,
         Task(v) = Task(w)
  PROVE  v = w
<1>1. PICK i, j : i = delivery[v].id /\ j = delivery[w].id
  OBVIOUS
<1>2. i \in DOMAIN queue /\ Leased(queue[i]) /\ j \in DOMAIN queue /\ Leased(queue[j])
  BY <1>1, KeptRows
<1>3. queue[i].task_id = queue[j].task_id
  BY <1>1 DEF HeldRowTask, KeepPC, RuntimePC
<1>4. i = j
  BY <1>2, <1>3 DEF RowsApart, Leased, Undone, Active
<1>5. Keeps(v, j)
  BY <1>1, <1>4 DEF Keeps
<1> QED
  BY <1>1, <1>5, KeptRows

LEMMA OneProcessor ==
  ASSUME TypeOK, DeliveryInv, HeldRowTask, RowsApart
  PROVE  SingleProcessor
<1>1. \A w \in Workers : Processing(w) => wpc[w] \in KeepPC
  BY DEF Processing, KeepPC
<1> QED
  BY <1>1, OneKeeper DEF SingleProcessor, Undisturbed

-----------------------------------------------------------------------------
(* The ledger behind a worker's back *)

\* Nobody fills the ledger for a call that a worker is carrying out, and the result it
\* turns into evidence is the one in the ledger.
LedgerInHand ==
    Undisturbed =>
        \A w \in Workers :
            /\ wpc[w] \in {"backend", "save_result"} => tool_results[CurrentKey(w)] = NoResult
            /\ wpc[w] = "record" => tool_results[CurrentKey(w)] = result[w]

LEMMA UndisturbedBefore ==
  ASSUME TypeOK, [Next]_vars
  PROVE  Undisturbed' => Undisturbed
  BY NextBudgets DEF BudgetsBack, Undisturbed

\* The key of a worker with a call in hand.
LEMMA KeyInHand ==
  ASSUME LocalTypeOK, NEW w \in Workers, wpc[w] \in CallPC
  PROVE  CurrentKey(w) \in Key
  BY DEF LocalTypeOK, CallChosen, CurrentKey, action_id, Task, Delivery, Key

LEMMA LedgerInHandNext ==
  ASSUME TypeOK, CheckpointInv, SingleProcessor, LedgerInHand, [Next]_vars
  PROVE  LedgerInHand'
<1> SUFFICES ASSUME Undisturbed', NEW v \in Workers
             PROVE  /\ wpc'[v] \in {"backend", "save_result"} =>
                            tool_results'[CurrentKey(v)'] = NoResult
                    /\ wpc'[v] = "record" => tool_results'[CurrentKey(v)'] = result'[v]
  BY DEF LedgerInHand
<1>1. StoreTypeOK /\ LocalTypeOK /\ Undisturbed /\ LedgerStep
  BY TypeParts, UndisturbedBefore, LedgerSteps
<1>2. CASE SameWork(v)
  <2>1. CurrentKey(v)' = CurrentKey(v)
    BY <1>2 DEF SameWork, CurrentKey, Task
  <2>2. CASE wpc[v] \in {"backend", "save_result"}
    <3>1. CurrentKey(v) \in Key /\ tool_results[CurrentKey(v)] = NoResult
      BY <1>1, <2>2, KeyInHand DEF LedgerInHand, CallPC
    <3>2. ASSUME NEW u \in Workers, SaveToolResult(u)
          PROVE  tool_results'[CurrentKey(v)] = NoResult
      <4>1. CASE CurrentKey(u) = CurrentKey(v)
        <5>1. Task(u) = Task(v)
          BY <4>1 DEF CurrentKey, action_id
        <5>2. Processing(u) /\ Processing(v)
          BY <2>2, <3>2 DEF SaveToolResult, Processing, RuntimePC
        <5>3. u = v
          BY <1>1, <5>1, <5>2 DEF SingleProcessor
        <5>4. wpc'[u] = "record"
          BY <1>1, <3>2 DEF SaveToolResult, Goto, LocalTypeOK
        <5> QED
          BY <1>2, <2>2, <5>3, <5>4 DEF SameWork
      <4>2. CASE CurrentKey(u) # CurrentKey(v)
        BY <1>1, <3>1, <3>2, <4>2 DEF SaveToolResult, save_tool_result, StoreTypeOK
      <4> QED
        BY <4>1, <4>2
    <3>3. tool_results'[CurrentKey(v)] = NoResult
      BY <1>1, <3>1, <3>2 DEF LedgerStep, Untouched
    <3> QED
      BY <1>2, <2>1, <2>2, <3>3 DEF SameWork
  <2>3. CASE wpc[v] = "record"
    <3>1. CurrentKey(v) \in Key
      BY <1>1, <2>3, KeyInHand DEF CallPC
    <3>2. tool_results[CurrentKey(v)] = result[v] /\ result[v] # NoResult
      BY <1>1, <2>3 DEF LedgerInHand, CheckpointInv, ResultInHand
    <3>3. tool_results'[CurrentKey(v)] = result[v]
      BY <1>1, <3>1, <3>2, LedgerSteps, LedgerKeeps
    <3> QED
      BY <1>2, <2>1, <2>3, <3>3 DEF SameWork
  <2> QED
    BY <1>2, <2>2, <2>3 DEF SameWork
<1>3. CASE /\ RunOnceStep(v) /\ wpc'[v] \in {"backend", "save_result", "record"}
  <2>1. LookupResult(v) \/ SaveToolResult(v) \/ \E r \in Results : BackendSucceeds(v, r)
    BY <1>1, <1>3, EnterTool
  <2>2. CASE LookupResult(v)
    BY <1>1, <2>2
    DEF LookupResult, AfterLookup, CurrentKey, Task, Goto, LocalTypeOK, storeVars
  <2>3. CASE SaveToolResult(v)
    <3>1. CurrentKey(v) \in Key /\ tool_results[CurrentKey(v)] = NoResult
      BY <1>1, <2>3, KeyInHand DEF LedgerInHand, CallPC, SaveToolResult
    <3>2. CurrentKey(v)' = CurrentKey(v) /\ result' = result /\ wpc'[v] = "record"
      BY <1>1, <2>3 DEF SaveToolResult, localVars, CurrentKey, Task, Goto, LocalTypeOK
    <3>3. tool_results'[CurrentKey(v)] = result[v]
      BY <1>1, <2>3, <3>1 DEF SaveToolResult, save_tool_result, StoreTypeOK
    <3> QED
      BY <3>2, <3>3
  <2>4. ASSUME NEW r \in Results, BackendSucceeds(v, r)
        PROVE  tool_results'[CurrentKey(v)'] = NoResult /\ wpc'[v] = "save_result"
    <3>1. wpc[v] = "backend" /\ wpc'[v] = "save_result" /\ tool_results' = tool_results
      BY <1>1, <2>4 DEF BackendSucceeds, Goto, LocalTypeOK, storeVars
    <3>2. CurrentKey(v)' = CurrentKey(v)
      BY <2>4 DEF BackendSucceeds, CurrentKey, Task
    <3> QED
      BY <1>1, <3>1, <3>2 DEF LedgerInHand
  <2> QED
    BY <2>1, <2>2, <2>3, <2>4
<1> QED
  BY <1>1, <1>2, <1>3, OwnSteps

-----------------------------------------------------------------------------
(* What becomes evidence *)

SameEvidence(task) == workflows'[task].evidence = workflows[task].evidence

\* The result of a tool is recorded for its tool, by a worker whose copy is the row.
Learns(task) ==
    \E w \in Workers :
        /\ wpc[w] = "record" /\ Task(w) = task /\ state[w] = workflows[task]
        /\ workflows'[task].pending_action = NoCall
        /\ workflows'[task].evidence = [workflows[task].evidence EXCEPT ![call[w].tool] = result[w]]

LEMMA StatusEvidence ==
  ASSUME NEW s \in Checkpoint, NEW status \in WorkflowStatus, NEW new,
         new = [s EXCEPT !.status = status]
  PROVE  new \in Checkpoint /\ new.version = s.version /\ new.evidence = s.evidence
<1>1. new \in Checkpoint
  BY StatusType
<1> QED
  BY <1>1 DEF Checkpoint

\* A copy that can be saved is the row, so what is saved tells what changes in the row.
LEMMA SavedEvidence ==
  ASSUME StoreTypeOK, NEW task \in Tasks, NEW copy \in Checkpoint, FreshCopy(copy, task),
         NEW new \in Checkpoint, new.version = copy.version, save_workflow(task, new)
  PROVE  workflows[task] = copy /\ workflows'[task].evidence = new.evidence
<1>1. workflows[task] = copy
  BY DEF save_workflow, VersionMatches, FreshCopy
<1>2. workflows'[task] = Saved(new)
  BY DEF save_workflow, StoreTypeOK
<1>3. Saved(new).evidence = new.evidence
  BY DEF Saved, Checkpoint
<1> QED
  BY <1>1, <1>2, <1>3

LEMMA SavesSameEvidence ==
  ASSUME NEW w \in Workers, Holding(w), NEW new \in Checkpoint, NEW pc,
         new.version = state[w].version, new.evidence = state[w].evidence,
         \/ save_workflow(Task(w), new) \/ StaleSave(w, new)
         \/ SaveAndReturn(w, new) \/ SaveAndRaise(w, new) \/ SaveAndGoto(w, new, pc)
  PROVE  SameEvidence(Task(w))
<1>1. StoreTypeOK /\ Task(w) \in Tasks /\ state[w] \in Checkpoint /\ FreshCopy(state[w], Task(w))
  BY HeldTypes DEF Holding, Busy
<1>2. CASE save_workflow(Task(w), new)
  BY <1>1, <1>2, SavedEvidence DEF SameEvidence
<1>3. CASE UNCHANGED storeVars
  BY <1>3 DEF storeVars, SameEvidence
<1> QED
  BY <1>2, <1>3 DEF StaleSave, SaveAndReturn, SaveAndRaise, SaveAndGoto

LEMMA StatusSameEvidence ==
  ASSUME NEW w \in Workers, Holding(w), NEW status \in WorkflowStatus, NEW pc, NEW new,
         new = [state[w] EXCEPT !.status = status],
         \/ save_workflow(Task(w), new)
         \/ SaveAndReturn(w, new) \/ SaveAndRaise(w, new) \/ SaveAndGoto(w, new, pc)
  PROVE  SameEvidence(Task(w))
<1>1. new \in Checkpoint /\ new.version = state[w].version /\ new.evidence = state[w].evidence
  BY HeldTypes, StatusEvidence DEF Holding
<1> QED
  BY <1>1, SavesSameEvidence

LEMMA DecideToolEvidence ==
  ASSUME NEW w \in Workers, Holding(w), NEW c \in Calls, DecideTool(w, c)
  PROVE  SameEvidence(Task(w))
<1> DEFINE s == state[w]
           requested == Requested(s, c)
           stopped == [requested EXCEPT !.status = "LOOP_STOPPED"]
<1>1. s \in Checkpoint
  BY HeldTypes DEF Holding
<1>2. requested \in Checkpoint /\ requested.version = s.version /\ requested.evidence = s.evidence
  BY <1>1, RequestedType DEF Requested, Checkpoint
<1>3. stopped \in Checkpoint /\ stopped.version = s.version /\ stopped.evidence = s.evidence
  BY <1>2, StatusEvidence DEF WorkflowStatus
<1> HIDE DEF requested, stopped
<1>4. CASE SaveAndReturn(w, stopped)
  BY <1>3, <1>4, SavesSameEvidence
<1>5. CASE save_workflow(Task(w), requested) \/ StaleSave(w, requested)
  BY <1>2, <1>5, SavesSameEvidence
<1> QED
  BY <1>4, <1>5 DEF DecideTool, requested, stopped

LEMMA SaveWaitingEvidence ==
  ASSUME NEW w \in Workers, Holding(w), SaveWaiting(w)
  PROVE  SameEvidence(Task(w))
<1> DEFINE s == state[w]
           c == call[w]
           new == [s EXCEPT !.status = "WAITING_FOR_APPROVAL", !.pending_action = c]
<1>1. s \in Checkpoint /\ c \in Calls \cup {NoCall} /\ "WAITING_FOR_APPROVAL" \in WorkflowStatus
  BY HeldTypes DEF Holding, Busy, LocalTypeOK, WorkflowStatus
<1>2. SaveAndGoto(w, new, "create_approval")
  BY DEF SaveWaiting
<1>3. new \in Checkpoint /\ new.version = s.version /\ new.evidence = s.evidence
  <2> HIDE DEF s, c
  <2>1. new \in Checkpoint
    BY <1>1, PendingType
  <2> QED
    BY <1>1, <2>1 DEF Checkpoint
<1> HIDE DEF new
<1> QED
  BY <1>2, <1>3, SavesSameEvidence

LEMMA RecordEvidence ==
  ASSUME NEW w \in Workers, Holding(w), RecordResult(w)
  PROVE  SameEvidence(Task(w)) \/ Learns(Task(w))
<1> DEFINE new == Completed(state[w], call[w].tool, result[w])
<1>1. /\ StoreTypeOK /\ Task(w) \in Tasks /\ state[w] \in Checkpoint
      /\ FreshCopy(state[w], Task(w)) /\ result[w] \in Results \cup {NoResult}
  BY HeldTypes DEF Holding, Busy, LocalTypeOK
<1>2. /\ new \in Checkpoint /\ new.version = state[w].version
      /\ new.evidence = [state[w].evidence EXCEPT ![call[w].tool] = result[w]]
      /\ new.pending_action = NoCall
  BY <1>1, CompletedType DEF Completed, Checkpoint
<1>3. wpc[w] = "record" /\ SaveAndReturn(w, new)
  BY DEF RecordResult
<1> HIDE DEF new
<1>4. CASE save_workflow(Task(w), new)
  <2>1. workflows'[Task(w)] = Saved(new)
    BY <1>1, <1>4 DEF save_workflow, StoreTypeOK
  <2>2. workflows'[Task(w)].pending_action = NoCall
    BY <1>2, <2>1 DEF Saved, Checkpoint
  <2> QED
    BY <1>1, <1>2, <1>3, <1>4, <2>2, SavedEvidence DEF Learns
<1>5. CASE UNCHANGED storeVars
  BY <1>5 DEF storeVars, SameEvidence
<1> QED
  BY <1>3, <1>4, <1>5 DEF SaveAndReturn, StaleSave

LEMMA ProcessEvidence ==
  ASSUME NEW w \in Workers, Busy(w), wpc[w] \in CopyPC => FreshCopy(state[w], Task(w)),
         ProcessStep(w)
  PROVE  SameEvidence(Task(w)) \/ Learns(Task(w))
<1> USE DEF CopyPC, RuntimePC
<1>1. CASE UNCHANGED workflows
  BY <1>1 DEF SameEvidence
<1>2. CASE SaveRunning(w)
  BY <1>2, StatusSameEvidence DEF SaveRunning, Holding, WorkflowStatus
<1>3. CASE \/ ModelFailsRetryably(w) \/ BackendFailsRetryably(w) \/ BackendTimesOut(w)
  BY <1>3, StatusSameEvidence
  DEF ModelFailsRetryably, BackendFailsRetryably, BackendTimesOut, FailRetryably, Holding,
      WorkflowStatus
<1>4. CASE \/ DecideFail(w) \/ DecideComplete(w) \/ PolicyDenied(w) \/ BackendFailsPermanently(w)
  BY <1>4, StatusSameEvidence
  DEF DecideFail, DecideComplete, PolicyDenied, BackendFailsPermanently, Fail, Holding,
      WorkflowStatus
<1>5. CASE \E c \in Calls : DecideTool(w, c)
  BY <1>5, DecideToolEvidence DEF DecideTool, Holding
<1>6. CASE SaveWaiting(w)
  BY <1>6, SaveWaitingEvidence DEF SaveWaiting, Holding
<1>7. CASE RecordResult(w)
  BY <1>7, RecordEvidence DEF RecordResult, Holding
<1>8. CASE \/ Load(w) \/ ModelFailsPermanently(w) \/ CreateApproval(w)
           \/ ResumeApprovedAction(w) \/ LookupResult(w)
           \/ (\E r \in Results : BackendSucceeds(w, r)) \/ SaveToolResult(w)
  BY <1>1, <1>8
  DEF Load, ModelFailsPermanently, CreateApproval, create_approval, ResumeApprovedAction,
      LookupResult, BackendSucceeds, SaveToolResult, save_tool_result, storeVars
<1> QED
  BY <1>2, <1>3, <1>4, <1>5, <1>6, <1>7, <1>8 DEF ProcessStep

LEMMA ReportEvidence ==
  ASSUME NEW w \in Workers, Busy(w), wpc[w] \in CopyPC => FreshCopy(state[w], Task(w)),
         ReportStep(w)
  PROVE  SameEvidence(Task(w))
<1>1. CASE UNCHANGED workflows
  BY <1>1 DEF SameEvidence
<1>2. ASSUME NEW status \in {"DEAD_LETTERED", "FAILED"}, SaveFinal(w, status),
             wpc[w] \in {"dead_save", "perm_save"}
      PROVE  SameEvidence(Task(w))
  <2>1. Holding(w)
    BY <1>2 DEF Holding, CopyPC
  <2>2. save_workflow(Task(w), [state[w] EXCEPT !.status = status]) \/ UNCHANGED workflows
    BY <1>2 DEF SaveFinal, storeVars
  <2> QED
    BY <1>1, <2>1, <2>2, StatusSameEvidence DEF WorkflowStatus
<1> QED
  BY <1>1, <1>2
  DEF ReportStep, Acknowledge, Enqueue, RetryOrDeadLetter, DeadLoad, DeadSave,
      PermanentAcknowledge, PermanentLoad, PermanentSave, Reload, storeVars,
      acknowledge, enqueue, retry_or_dead_letter

LEMMA HandlerEvidence ==
  ASSUME StoreTypeOK, ControlTypeOK, NEW h \in Handlers, HandlerStep(h),
         hpc[h] # "idle" => FreshCopy(hstate[h], htask[h])
  PROVE  SameEvidence(htask[h])
<1> DEFINE s == hstate[h]
           task == htask[h]
<1>1. s \in Checkpoint /\ task \in Tasks
  BY HandlerTypes
<1>2. CASE UNCHANGED workflows
  BY <1>2 DEF SameEvidence
<1>3. CASE ApproveSave(h) /\ ~UNCHANGED workflows
  <2> DEFINE new == [s EXCEPT !.status = "QUEUED"]
  <2>1. new \in Checkpoint /\ new.version = s.version /\ new.evidence = s.evidence
    BY <1>1, StatusEvidence DEF WorkflowStatus
  <2>2. save_workflow(task, new) /\ hpc[h] = "approve_save"
    BY <1>3 DEF ApproveSave, StaleRequest, storeVars
  <2> HIDE DEF new
  <2> QED
    BY <1>1, <2>1, <2>2, SavedEvidence DEF SameEvidence
<1>4. CASE RejectSave(h) /\ ~UNCHANGED workflows
  <2> DEFINE new == [s EXCEPT !.status = "HUMAN_REJECTED", !.pending_action = NoCall]
  <2>1. new \in Checkpoint /\ new.version = s.version /\ new.evidence = s.evidence
    <3>1. new \in Checkpoint
      BY <1>1, PendingType DEF WorkflowStatus
    <3> HIDE DEF s
    <3> QED
      BY <1>1, <3>1 DEF Checkpoint
  <2>2. save_workflow(task, new) /\ hpc[h] = "reject_save"
    BY <1>4 DEF RejectSave, StaleRequest, storeVars
  <2> HIDE DEF new
  <2> QED
    BY <1>1, <2>1, <2>2, SavedEvidence DEF SameEvidence
<1> QED
  BY <1>2, <1>3, <1>4
  DEF HandlerStep, ApproveResolve, RejectResolve, Resolve, resolve_approval, ApproveEnqueue,
      enqueue, storeVars

LEMMA ReplayEvidence ==
  ASSUME StoreTypeOK, NEW id \in DOMAIN queue, ReplayDeadLetter(id)
  PROVE  \A task \in Tasks : SameEvidence(task)
<1> DEFINE task == queue[id].task_id
           new == [workflows[task] EXCEPT !.status = "QUEUED"]
<1>1. task \in Tasks /\ workflows[task] \in Checkpoint
  BY RowType DEF QueueRow, StoreTypeOK
<1>2. new \in Checkpoint /\ new.evidence = workflows[task].evidence
  BY <1>1, StatusEvidence DEF WorkflowStatus
<1>3. workflows' = [workflows EXCEPT ![task] = Saved(new)]
  BY <1>1 DEF ReplayDeadLetter, replay_dead_letter
<1> HIDE DEF new, task
<1>4. Saved(new).evidence = new.evidence
  BY <1>2 DEF Saved, Checkpoint
<1> QED
  BY <1>2, <1>3, <1>4 DEF StoreTypeOK, SameEvidence

LEMMA EvidenceMoves ==
  ASSUME TypeOK, CheckpointInv, [Next]_vars, NEW task \in Tasks
  PROVE  SameEvidence(task) \/ Learns(task) \/ workflows'[task] = NewWorkflow
<1>1. StoreTypeOK /\ LocalTypeOK /\ HoldsRow /\ ControlTypeOK /\ CopiesFresh /\ OnlyCreated
  BY TypeParts DEF CheckpointInv
<1>2. ASSUME UNCHANGED workflows PROVE SameEvidence(task)
  BY <1>2 DEF SameEvidence
<1>3. ASSUME NEW w \in Workers, RunOnceStep(w) PROVE SameEvidence(task) \/ Learns(task)
  <2>1. CASE Task(w) # task
    BY <1>1, <1>3, <2>1, RunOnceOnlyTask DEF OnlyTask, SameEvidence
  <2>2. CASE Task(w) = task
    <3>1. CASE \E i \in DOMAIN queue : Claim(w, i)
      BY <1>2, <3>1 DEF Claim, claim
    <3>2. CASE ProcessStep(w) \/ ReportStep(w)
      <4>1. Busy(w)
        BY <1>1, <3>2, StepBusy
      <4> QED
        BY <1>1, <2>2, <3>2, <4>1, ProcessEvidence, ReportEvidence DEF CopiesFresh
    <3> QED
      BY <1>3, <3>1, <3>2 DEF RunOnceStep, ReportStep
  <2> QED
    BY <2>1, <2>2
<1>4. CASE WorkerNext
  BY <1>2, <1>3, <1>4
  DEF WorkerNext, Heartbeat, extend_lease, WorkerCrash, storeVars, LeaseExpires
<1>5. ASSUME NEW h \in Handlers, HandlerStep(h) PROVE SameEvidence(task)
  <2>1. OnlyTask(htask[h])
    BY <1>1, <1>5, HandlerStepShape
  <2>2. SameEvidence(htask[h])
    BY <1>1, <1>5, HandlerEvidence DEF CopiesFresh
  <2> QED
    BY <2>1, <2>2 DEF OnlyTask, SameEvidence
<1>6. ASSUME NEW other \in Tasks, CreateIncident(other)
      PROVE  SameEvidence(task) \/ workflows'[task] = NewWorkflow
  BY <1>1, <1>6 DEF CreateIncident, create_workflow, StoreTypeOK, SameEvidence
<1>7. CASE ControlStep
  BY <1>1, <1>2, <1>5, <1>6, <1>7, ReplayEvidence
  DEF ControlStep, Approve, Reject, Open, storeVars
<1> QED
  BY <1>2, <1>4, <1>7 DEF Next, HandlerCrash, vars, storeVars

\* What is evidence is the answer of the ledger to some call of the tool.
Attested(task) ==
    \A tool \in completed_steps(workflows[task]) :
        \E c \in Calls :
            c.tool = tool /\ tool_results[action_id(task, c)] = workflows[task].evidence[tool]

LEMMA AttestedNext ==
  ASSUME TypeOK, CheckpointInv, LedgerInHand, Undisturbed, [Next]_vars,
         NEW task \in Tasks, Attested(task)
  PROVE  Attested(task)'
<1> SUFFICES ASSUME NEW tool \in Tools, workflows'[task].evidence[tool] # NoResult
             PROVE  \E c \in Calls :
                        /\ c.tool = tool
                        /\ tool_results'[<<task, c>>] = workflows'[task].evidence[tool]
  BY DEF Attested, completed_steps, action_id
<1>1. StoreTypeOK /\ LocalTypeOK /\ workflows[task] \in Checkpoint
  BY TypeParts DEF StoreTypeOK
<1>2. ASSUME workflows[task].evidence[tool] = workflows'[task].evidence[tool]
      PROVE  \E c \in Calls :
                /\ c.tool = tool
                /\ tool_results'[<<task, c>>] = workflows'[task].evidence[tool]
  <2>1. PICK c \in Calls : /\ c.tool = tool
                           /\ tool_results[<<task, c>>] = workflows[task].evidence[tool]
    BY <1>2 DEF Attested, completed_steps, action_id
  <2>2. <<task, c>> \in Key /\ tool_results[<<task, c>>] # NoResult
    BY <1>2, <2>1 DEF Key
  <2>3. tool_results'[<<task, c>>] = tool_results[<<task, c>>]
    BY <1>1, <2>2, LedgerSteps, LedgerKeeps
  <2> QED
    BY <1>2, <2>1, <2>3
<1>3. CASE SameEvidence(task)
  BY <1>2, <1>3 DEF SameEvidence
<1>4. CASE Learns(task)
  <2>1. PICK w \in Workers :
            /\ wpc[w] = "record" /\ Task(w) = task
            /\ workflows'[task].evidence =
                    [workflows[task].evidence EXCEPT ![call[w].tool] = result[w]]
    BY <1>4 DEF Learns
  <2>2. /\ call[w] \in Calls /\ CurrentKey(w) = <<task, call[w]>> /\ CurrentKey(w) \in Key
        /\ tool_results[CurrentKey(w)] = result[w] /\ result[w] # NoResult
    BY <1>1, <2>1, KeyInHand
    DEF LocalTypeOK, CallChosen, CallPC, CurrentKey, action_id, LedgerInHand, CheckpointInv,
        ResultInHand
  <2>3. tool_results'[<<task, call[w]>>] = result[w]
    BY <1>1, <2>2, LedgerSteps, LedgerKeeps
  <2>4. CASE call[w].tool = tool
    <3>1. workflows'[task].evidence[tool] = result[w]
      BY <1>1, <2>1, <2>4 DEF Checkpoint, Evidence
    <3> QED
      BY <2>2, <2>3, <2>4, <3>1
  <2>5. CASE call[w].tool # tool
    <3>1. workflows'[task].evidence[tool] = workflows[task].evidence[tool]
      BY <1>1, <2>1, <2>5 DEF Checkpoint, Evidence
    <3> QED
      BY <1>2, <3>1
  <2> QED
    BY <2>4, <2>5
<1>5. CASE workflows'[task] = NewWorkflow
  BY <1>5 DEF NewWorkflow
<1> QED
  BY <1>3, <1>4, <1>5, EvidenceMoves

-----------------------------------------------------------------------------
UndisturbedInv ==
    /\ RowsApart
    /\ LedgerInHand
    /\ EvidenceFromLedger

LEMMA UndisturbedInvInit == Init => UndisturbedInv
<1> SUFFICES ASSUME Init PROVE UndisturbedInv
  OBVIOUS
<1>1. DOMAIN queue = {}
  BY DEF Init, StoreInit
<1>2. \A w \in Workers : wpc[w] = "idle"
  BY DEF Init, WorkerInit, RuntimeInit
<1>3. \A task \in Tasks : completed_steps(workflows[task]) = {}
  BY DEF Init, StoreInit, NewWorkflow, completed_steps
<1> QED
  BY <1>1, <1>2, <1>3 DEF UndisturbedInv, RowsApart, LedgerInHand, EvidenceFromLedger

LEMMA UndisturbedInvNext ==
  ASSUME TypeOK, CheckpointInv, DeliveryInv, SlotInv, UndisturbedInv, [Next]_vars
  PROVE  UndisturbedInv'
<1>1. RowsApart'
  BY RowsApartNext DEF UndisturbedInv
<1>2. SingleProcessor
  BY OneProcessor DEF UndisturbedInv, SlotInv
<1>3. LedgerInHand'
  BY <1>2, LedgerInHandNext DEF UndisturbedInv
<1>4. EvidenceFromLedger'
  <2> SUFFICES ASSUME Undisturbed', NEW task \in Tasks PROVE Attested(task)'
    BY DEF EvidenceFromLedger, Attested
  <2>1. Undisturbed
    BY UndisturbedBefore
  <2>2. Attested(task)
    BY <2>1 DEF UndisturbedInv, EvidenceFromLedger, Attested
  <2> QED
    BY <2>1, <2>2, AttestedNext DEF UndisturbedInv
<1> QED
  BY <1>1, <1>3, <1>4 DEF UndisturbedInv

\* As long as no live worker loses a lease, the rows of a task stay apart, nobody fills the
\* ledger for a call another worker is carrying out, and evidence is what the ledger says.
THEOREM UndisturbedInvHolds == Spec => []UndisturbedInv
<1>1. /\ TypeOK /\ CheckpointInv /\ DeliveryInv /\ SlotInv /\ UndisturbedInv /\ [Next]_vars
      => UndisturbedInv'
  BY UndisturbedInvNext
<1> QED
  BY <1>1, UndisturbedInvInit, TypeCorrect, CopiesStayFresh, DeliveryInvHolds, SlotInvHolds, PTL
  DEF Spec

\* One worker at a time is inside process() for a task, unless a live worker lost its
\* lease or a replay followed a crash (claim, enqueue, acknowledge).
THEOREM SingleProcessorHolds == Spec => []SingleProcessor
<1>1. TypeOK /\ DeliveryInv /\ SlotInv /\ UndisturbedInv => SingleProcessor
  BY OneProcessor DEF SlotInv, UndisturbedInv
<1> QED
  BY <1>1, TypeCorrect, DeliveryInvHolds, SlotInvHolds, UndisturbedInvHolds, PTL

\* A call whose result is in the ledger is not carried out again: whoever looked before
\* is the only one who can have filled it (ToolGateway.execute, save_tool_result).
THEOREM NoEffectAfterResultHolds == Spec => NoEffectAfterResult
<1> DEFINE Quiet == \A key \in Key :
                effects'[key] # effects[key] /\ Undisturbed => tool_results[key] = NoResult
<1>1. TypeOK /\ LedgerInHand /\ [Next]_vars => [Quiet]_vars
  <2> SUFFICES ASSUME TypeOK, LedgerInHand, [Next]_vars, NEW key \in Key,
                      effects'[key] # effects[key], Undisturbed
               PROVE  tool_results[key] = NoResult
    OBVIOUS
  <2>1. EffectsTypeOK
    BY TypeParts
  <2>2. ASSUME NEW w \in Workers, wpc[w] = "backend", Effect(CurrentKey(w))
        PROVE  tool_results[key] = NoResult
    <3>1. CurrentKey(w) = key
      BY <2>1, <2>2 DEF Effect, EffectsTypeOK
    <3> QED
      BY <2>2, <3>1 DEF LedgerInHand
  <2> QED
    BY <2>2, LedgerSteps DEF LedgerStep, Untouched, BackendSucceeds
<1>2. UndisturbedInv => LedgerInHand
  BY DEF UndisturbedInv
<1> QED
  BY <1>1, <1>2, TypeCorrect, UndisturbedInvHolds, PTL DEF Spec, NoEffectAfterResult

\* Evidence in a checkpoint is what the ledger answers for some call of the tool.
THEOREM EvidenceFromLedgerHolds == Spec => []EvidenceFromLedger
<1>1. UndisturbedInv => EvidenceFromLedger
  BY DEF UndisturbedInv
<1> QED
  BY <1>1, UndisturbedInvHolds, PTL

-----------------------------------------------------------------------------
(* Going on with a task *)

\* Nothing is left to do for the worker but to acknowledge: the workflow is over or waits.
Parked(w) ==
    \/ wpc[w] = "create_approval"
    \/ wpc[w] = "ack" /\ state[w].status # "QUEUED"

Carries(w) == wpc[w] # "idle" /\ ~Parked(w)

Stopped(task) == workflows[task].status \notin OpenStatus

\* Where a worker may save the checkpoint inside process().
SavePC == RuntimePC \ {"load", "create_approval", "approval"}

\* After its step the worker goes on, or the checkpoint is not open any more.
Ends(w) ==
    /\ wpc'[w] \in KeepPC
    /\ Carries(w)' \/ Stopped(Task(w))'
    /\ UNCHANGED workflows \/ workflows'[Task(w)].status # "DEAD_LETTERED"

LEMMA LeaveEnds ==
  ASSUME NEW w \in Workers, Busy(w), NEW pc \in {"retry", "perm_ack"}, LeaveProcess(w, pc),
         UNCHANGED workflows \/ workflows'[Task(w)].status # "DEAD_LETTERED"
  PROVE  Ends(w)
  BY DEF Busy, LocalTypeOK, LeaveProcess, Goto, Ends, KeepPC, Carries, Parked

LEMMA ReturnEnds ==
  ASSUME NEW w \in Workers, Busy(w), NEW new \in Checkpoint, Return(w, new),
         new.status # "QUEUED" => Stopped(Task(w))',
         UNCHANGED workflows \/ workflows'[Task(w)].status # "DEAD_LETTERED"
  PROVE  Ends(w)
<1>1. wpc'[w] = "ack" /\ state'[w].status = new.status
  BY DEF Return, Goto, Busy, LocalTypeOK, NewWorkflow
<1> QED
  BY <1>1 DEF Ends, KeepPC, Carries, Parked

\* The status of a checkpoint that is saved decides.
LEMMA SaveEnds ==
  ASSUME NEW w \in Workers, Busy(w), NEW new \in Checkpoint, new.status # "DEAD_LETTERED",
         \/ SaveAndReturn(w, new) /\ new.status # "RUNNING"
         \/ SaveAndRaise(w, new)
         \/ SaveAndGoto(w, new, "decide")
         \/ SaveAndGoto(w, new, "create_approval") /\ new.status = "WAITING_FOR_APPROVAL"
         \/ StaleSave(w, new)
  PROVE  Ends(w)
<1>1. CASE StaleSave(w, new)
  BY <1>1, LeaveEnds DEF StaleSave, storeVars
<1>2. CASE save_workflow(Task(w), new)
  <2>1. Task(w) \in Tasks /\ StoreTypeOK /\ LocalTypeOK
    BY HeldTypes DEF Busy
  <2>2. Task(w)' = Task(w) /\ workflows'[Task(w)].status = new.status
    <3>1. workflows'[Task(w)] = Saved(new) /\ Saved(new).status = new.status
      BY <1>2, <2>1 DEF save_workflow, StoreTypeOK, Saved, Checkpoint
    <3>2. delivery' = delivery
      BY <1>1
      DEF SaveAndReturn, SaveAndRaise, SaveAndGoto, StaleSave, Return, LeaveProcess
    <3> QED
      BY <3>1, <3>2 DEF Task
  <2>3. CASE SaveAndReturn(w, new) /\ new.status # "RUNNING" /\ ~StaleSave(w, new)
    <3>1. new.status # "QUEUED" => Stopped(Task(w))'
      BY <2>2, <2>3 DEF Stopped, OpenStatus
    <3> QED
      BY <2>2, <2>3, <3>1, ReturnEnds DEF SaveAndReturn
  <2>4. CASE SaveAndRaise(w, new) /\ ~StaleSave(w, new)
    BY <2>2, <2>4, LeaveEnds DEF SaveAndRaise
  <2>5. CASE SaveAndGoto(w, new, "decide") /\ ~StaleSave(w, new)
    BY <2>1, <2>2, <2>5 DEF SaveAndGoto, Goto, LocalTypeOK, Ends, KeepPC, RuntimePC, Carries, Parked
  <2>6. CASE /\ SaveAndGoto(w, new, "create_approval") /\ ~StaleSave(w, new)
             /\ new.status = "WAITING_FOR_APPROVAL"
    BY <2>1, <2>2, <2>6
    DEF SaveAndGoto, Goto, LocalTypeOK, Ends, KeepPC, RuntimePC, Stopped, OpenStatus
  <2> QED
    BY <1>1, <2>3, <2>4, <2>5, <2>6
<1> QED
  BY <1>1, <1>2 DEF SaveAndReturn, SaveAndRaise, SaveAndGoto

LEMMA DecideToolEnds ==
  ASSUME NEW w \in Workers, Busy(w), WorkerWay(w), NEW c \in Calls, DecideTool(w, c)
  PROVE  Ends(w)
<1> DEFINE s == state[w]
           requested == Requested(s, c)
           stopped == [requested EXCEPT !.status = "LOOP_STOPPED"]
<1>1. s \in Checkpoint /\ s.status \in OpenStatus /\ Task(w) \in Tasks
  BY HeldTypes DEF DecideTool, WorkerWay, RuntimePC
<1>2. requested \in Checkpoint /\ requested.status = s.status
  BY <1>1, RequestedFields
<1>3. stopped \in Checkpoint /\ stopped.status = "LOOP_STOPPED"
  BY <1>2, StatusFields DEF WorkflowStatus
<1> HIDE DEF requested, stopped
<1>4. CASE SaveAndReturn(w, stopped)
  BY <1>3, <1>4, SaveEnds
<1>5. CASE StaleSave(w, requested)
  BY <1>1, <1>2, <1>5, SaveEnds DEF OpenStatus
<1>6. CASE save_workflow(Task(w), requested) /\ Goto(w, AfterPolicy(c)) /\ UNCHANGED delivery
  <2>1. wpc'[w] \in {"denied", "pend", "execute"}
    BY <1>6 DEF Goto, AfterPolicy, Busy, LocalTypeOK
  <2>2. workflows'[Task(w)] = Saved(requested) /\ Saved(requested).status = s.status
    BY <1>1, <1>2, <1>6 DEF save_workflow, StoreTypeOK, Busy, Saved, Checkpoint
  <2> QED
    BY <1>1, <2>1, <2>2 DEF Ends, KeepPC, RuntimePC, Carries, Parked, OpenStatus
<1> QED
  BY <1>4, <1>5, <1>6 DEF DecideTool, requested, stopped

\* Every step of process() ends so, but those of a worker that is parked, or is sent back
\* because the action is not approved.
LEMMA ProcessEnds ==
  ASSUME NEW w \in Workers, Busy(w), WorkerWay(w), ProcessStep(w), wpc[w] # "create_approval",
         wpc[w] = "approval" => IsApproved(action_id(Task(w), state[w].pending_action))
  PROVE  Ends(w)
<1>1. /\ Task(w) \in Tasks /\ state[w] \in Checkpoint /\ LocalTypeOK /\ StoreTypeOK
      /\ workflows[Task(w)] \in Checkpoint
  BY HeldTypes DEF Busy
<1>2. ASSUME NEW status \in WorkflowStatus
      PROVE  /\ [state[w] EXCEPT !.status = status] \in Checkpoint
             /\ [state[w] EXCEPT !.status = status].status = status
  BY <1>1, StatusFields
<1>3. CASE SaveRunning(w)
  BY <1>2, <1>3, SaveEnds DEF SaveRunning, WorkflowStatus
<1>4. CASE ModelFailsRetryably(w) \/ BackendFailsRetryably(w) \/ BackendTimesOut(w)
  BY <1>2, <1>4, SaveEnds
  DEF ModelFailsRetryably, BackendFailsRetryably, BackendTimesOut, FailRetryably, WorkflowStatus
<1>5. CASE DecideFail(w) \/ DecideComplete(w) \/ PolicyDenied(w) \/ BackendFailsPermanently(w)
  BY <1>2, <1>5, SaveEnds
  DEF DecideFail, DecideComplete, PolicyDenied, BackendFailsPermanently, Fail, WorkflowStatus
<1>6. CASE \E c \in Calls : DecideTool(w, c)
  BY <1>6, DecideToolEnds
<1>7. CASE SaveWaiting(w)
  <2> DEFINE new == [state[w] EXCEPT !.status = "WAITING_FOR_APPROVAL", !.pending_action = call[w]]
  <2>1. new \in Checkpoint
    BY <1>1, HeldTypes, PendingType DEF WorkflowStatus
  <2>2. new.status = "WAITING_FOR_APPROVAL"
    BY <1>1 DEF Checkpoint
  <2>3. SaveAndGoto(w, new, "create_approval")
    BY <1>7 DEF SaveWaiting
  <2> HIDE DEF new
  <2> QED
    BY <2>1, <2>2, <2>3, SaveEnds
<1>8. CASE RecordResult(w)
  <2> DEFINE new == Completed(state[w], call[w].tool, result[w])
  <2>1. new \in Checkpoint /\ new.status = "QUEUED"
    BY <1>1, HeldTypes, CompletedType DEF Completed, Checkpoint
  <2>2. SaveAndReturn(w, new)
    BY <1>8 DEF RecordResult
  <2> HIDE DEF new
  <2> QED
    BY <2>1, <2>2, SaveEnds
<1>9. CASE Load(w) /\ ~Resumable(workflows[Task(w)])
  <2>1. Return(w, workflows[Task(w)]) /\ UNCHANGED workflows /\ Task(w)' = Task(w)
    BY <1>9 DEF Load, Return, Task, storeVars
  <2>2. Stopped(Task(w))'
    BY <1>9, <2>1 DEF Resumable, terminal, TerminalStatus, Stopped, OpenStatus
  <2> QED
    BY <1>1, <2>1, <2>2, ReturnEnds
<1>10. CASE Load(w) /\ Resumable(workflows[Task(w)])
  <2>1. wpc'[w] \in {"approval", "running"} /\ UNCHANGED workflows
    BY <1>1, <1>10 DEF Load, Goto, AfterLoad, LocalTypeOK, storeVars
  <2> QED
    BY <2>1 DEF Ends, KeepPC, RuntimePC, Carries, Parked
<1>11. CASE ModelFailsPermanently(w)
  BY <1>11, LeaveEnds DEF ModelFailsPermanently, storeVars
<1>12. CASE \/ ResumeApprovedAction(w) \/ LookupResult(w) \/ SaveToolResult(w)
            \/ \E r \in Results : BackendSucceeds(w, r)
  <2>1. wpc'[w] \in {"execute", "denied", "record", "backend", "save_result"}
    BY <1>1, <1>12
    DEF ResumeApprovedAction, LookupResult, AfterLookup, SaveToolResult, BackendSucceeds, Goto,
        LocalTypeOK
  <2>2. UNCHANGED workflows
    BY <1>12
    DEF ResumeApprovedAction, LookupResult, SaveToolResult, save_tool_result, BackendSucceeds,
        storeVars
  <2> QED
    BY <2>1, <2>2 DEF Ends, KeepPC, RuntimePC, Carries, Parked
<1> QED
  BY <1>3, <1>4, <1>5, <1>6, <1>7, <1>8, <1>9, <1>10, <1>11, <1>12
  DEF ProcessStep, CreateApproval

-----------------------------------------------------------------------------
(* Who writes the checkpoint of a task *)

ProcessWrites(w, task) == Task(w) = task /\ ProcessStep(w) /\ wpc[w] \in SavePC

EndWrites(w, task) ==
    /\ Task(w) = task
    /\ \/ DeadSave(w) /\ workflows'[task].status = "DEAD_LETTERED"
       \/ PermanentSave(w) /\ workflows'[task].status = "FAILED"

RequestWrites(task) ==
    /\ Waiting(task)
    /\ \/ workflows'[task].status = "QUEUED" /\ workflows'[task].pending_action # NoCall
       \/ workflows'[task].status = "HUMAN_REJECTED"

ReplayWrites(task) ==
    \E i \in DOMAIN queue : ReplayDeadLetter(i) /\ queue[i].task_id = task

Written(task) ==
    \/ \E w \in Workers : ProcessWrites(w, task) \/ EndWrites(w, task)
    \/ RequestWrites(task)
    \/ ReplayWrites(task)

LEMMA ProcessWriter ==
  ASSUME LocalTypeOK, NEW w \in Workers, ProcessStep(w), ~UNCHANGED workflows
  PROVE  wpc[w] \in SavePC
<1>1. wpc[w] \in RuntimePC
  BY ProcessHolds
<1>2. wpc[w] \notin {"load", "create_approval", "approval"}
  BY DEF ProcessStep, Load, SaveRunning, ModelFailsRetryably, ModelFailsPermanently,
          DecideComplete, DecideFail, DecideTool, PolicyDenied, SaveWaiting, CreateApproval,
          ResumeApprovedAction, LookupResult, BackendSucceeds, BackendFailsRetryably,
          BackendTimesOut, BackendFailsPermanently, SaveToolResult, RecordResult,
          create_approval, storeVars
<1> QED
  BY <1>1, <1>2 DEF SavePC

LEMMA EndWriter ==
  ASSUME NEW w \in Workers, Busy(w), ReportStep(w), ~UNCHANGED workflows
  PROVE  EndWrites(w, Task(w))
<1>1. ASSUME NEW status \in {"DEAD_LETTERED", "FAILED"}, SaveFinal(w, status)
      PROVE  workflows'[Task(w)].status = status
  <2> DEFINE new == [state[w] EXCEPT !.status = status]
  <2>1. new \in Checkpoint /\ new.status = status /\ Task(w) \in Tasks /\ StoreTypeOK
    BY HeldTypes, StatusFields DEF WorkflowStatus, Busy
  <2>2. save_workflow(Task(w), new)
    BY <1>1 DEF SaveFinal, storeVars
  <2> HIDE DEF new
  <2>3. workflows'[Task(w)] = Saved(new) /\ Saved(new).status = status
    BY <2>1, <2>2 DEF save_workflow, StoreTypeOK, Saved, Checkpoint
  <2> QED
    BY <2>3
<1>2. DeadSave(w) \/ PermanentSave(w)
  BY DEF ReportStep, Acknowledge, Enqueue, RetryOrDeadLetter, DeadLoad, PermanentAcknowledge,
         PermanentLoad, Reload, storeVars, acknowledge, enqueue, retry_or_dead_letter
<1> QED
  BY <1>1, <1>2 DEF DeadSave, PermanentSave, EndWrites

LEMMA RequestWriter ==
  ASSUME StoreTypeOK, ControlTypeOK, NEW h \in Handlers, HandlerStep(h), HandlerWay(h),
         hpc[h] # "idle" => FreshCopy(hstate[h], htask[h]), ~UNCHANGED workflows
  PROVE  RequestWrites(htask[h])
<1> DEFINE s == hstate[h]
           task == htask[h]
<1>1. s \in Checkpoint /\ task \in Tasks
  BY HandlerTypes
<1>2. ASSUME NEW new \in Checkpoint, new.version = s.version, save_workflow(task, new),
             hpc[h] \in {"approve_save", "reject_save"}
      PROVE  /\ Waiting(task) /\ s.pending_action # NoCall
             /\ workflows'[task].status = new.status
             /\ workflows'[task].pending_action = new.pending_action
  <2>1. workflows[task] = s
    BY <1>2 DEF save_workflow, VersionMatches, FreshCopy
  <2>2. workflows'[task] = Saved(new)
    BY <1>1, <1>2 DEF save_workflow, StoreTypeOK
  <2>3. Saved(new).status = new.status /\ Saved(new).pending_action = new.pending_action
    BY <1>2 DEF Saved, Checkpoint
  <2> QED
    BY <1>2, <2>1, <2>2, <2>3 DEF HandlerWay, HandlerPC, Waiting
<1>3. CASE ApproveSave(h)
  <2> DEFINE new == [s EXCEPT !.status = "QUEUED"]
  <2>1. /\ new \in Checkpoint /\ new.version = s.version /\ new.status = "QUEUED"
        /\ new.pending_action = s.pending_action
    BY <1>1, StatusFields DEF WorkflowStatus
  <2>2. save_workflow(task, new) /\ hpc[h] = "approve_save"
    BY <1>3 DEF ApproveSave, StaleRequest, storeVars
  <2> HIDE DEF new
  <2> QED
    BY <1>2, <2>1, <2>2 DEF RequestWrites
<1>4. CASE RejectSave(h)
  <2> DEFINE new == [s EXCEPT !.status = "HUMAN_REJECTED", !.pending_action = NoCall]
  <2>1. new \in Checkpoint /\ new.version = s.version /\ new.status = "HUMAN_REJECTED"
    <3>1. new \in Checkpoint
      BY <1>1, PendingType DEF WorkflowStatus
    <3> HIDE DEF s
    <3> QED
      BY <1>1, <3>1 DEF Checkpoint
  <2>2. save_workflow(task, new) /\ hpc[h] = "reject_save"
    BY <1>4 DEF RejectSave, StaleRequest, storeVars
  <2> HIDE DEF new
  <2> QED
    BY <1>2, <2>1, <2>2 DEF RequestWrites
<1> QED
  BY <1>3, <1>4
  DEF HandlerStep, ApproveResolve, RejectResolve, Resolve, resolve_approval, ApproveEnqueue,
      enqueue, storeVars

\* A checkpoint is written by the worker that processes its task, by one that ends it, by
\* the request that answers for it, or by a replay of one of its rows.
LEMMA Writers ==
  ASSUME TypeOK, CheckpointInv, LifecycleInv, [Next]_vars, NEW task \in Tasks,
         workflows'[task] # workflows[task]
  PROVE  Written(task)
<1>1. /\ StoreTypeOK /\ LocalTypeOK /\ HoldsRow /\ ControlTypeOK /\ CopiesFresh /\ OnlyCreated
      /\ ~UNCHANGED workflows
  BY TypeParts DEF CheckpointInv
<1>2. ASSUME NEW w \in Workers, RunOnceStep(w) PROVE Written(task)
  <2>1. Task(w) = task
    BY <1>1, <1>2, RunOnceOnlyTask DEF OnlyTask
  <2>2. CASE \E i \in DOMAIN queue : Claim(w, i)
    BY <1>1, <2>2 DEF Claim, claim
  <2>3. CASE ProcessStep(w)
    BY <1>1, <2>1, <2>3, ProcessWriter DEF ProcessWrites, Written
  <2>4. CASE ReportStep(w)
    BY <1>1, <2>1, <2>4, StepBusy, EndWriter DEF Written
  <2> QED
    BY <1>2, <2>2, <2>3, <2>4 DEF RunOnceStep, ReportStep
<1>3. CASE WorkerNext
  BY <1>1, <1>2, <1>3
  DEF WorkerNext, Heartbeat, extend_lease, WorkerCrash, storeVars, LeaseExpires
<1>4. ASSUME NEW h \in Handlers, HandlerStep(h) PROVE Written(task)
  <2>1. htask[h] = task
    BY <1>1, <1>4, HandlerStepShape DEF OnlyTask
  <2> QED
    BY <1>1, <1>4, <2>1, RequestWriter DEF CopiesFresh, LifecycleInv, Written
<1>5. ASSUME NEW other \in Tasks, CreateIncident(other) PROVE FALSE
  BY <1>1, <1>5 DEF CreateIncident, create_workflow, StoreTypeOK, OnlyCreated
<1>6. ASSUME NEW i \in DOMAIN queue, ReplayDeadLetter(i) PROVE Written(task)
  <2>1. queue[i].task_id = task
    BY <1>1, <1>6, RowType DEF ReplayDeadLetter, replay_dead_letter, StoreTypeOK, QueueRow
  <2> QED
    BY <1>6, <2>1 DEF ReplayWrites, Written
<1>7. CASE ControlStep
  BY <1>1, <1>4, <1>5, <1>6, <1>7 DEF ControlStep, Approve, Reject, Open, storeVars
<1> QED
  BY <1>1, <1>3, <1>7 DEF Next, HandlerCrash, vars, storeVars

LEMMA RowMoves ==
  ASSUME TypeOK, CheckpointInv, LifecycleInv, [Next]_vars, NEW task \in Tasks
  PROVE  RowStep(task)
<1>1. PICK t \in Tasks : RowStep(t) /\ OtherRowsKept(t)
  BY LifecycleInvNext DEF StepWay
<1> QED
  BY <1>1 DEF OtherRowsKept, RowStep

\* The last save of run_once ends the workflow unless the version is stale.
LEMMA FinalSave ==
  ASSUME NEW w \in Workers, Busy(w), NEW status \in {"DEAD_LETTERED", "FAILED"},
         SaveFinal(w, status), VersionMatches(Task(w), state[w])
  PROVE  workflows'[Task(w)].status = status
<1> DEFINE new == [state[w] EXCEPT !.status = status]
<1>1. new \in Checkpoint /\ new.status = status /\ new.version = state[w].version
  BY HeldTypes, StatusFields DEF WorkflowStatus
<1>2. save_workflow(Task(w), new) \/ ~VersionMatches(Task(w), new)
  BY DEF SaveFinal
<1> HIDE DEF new
<1>3. save_workflow(Task(w), new)
  BY <1>1, <1>2 DEF VersionMatches
<1>4. workflows'[Task(w)] = Saved(new) /\ Saved(new).status = status
  BY <1>1, <1>3, HeldTypes DEF save_workflow, StoreTypeOK, Saved, Checkpoint, Busy
<1> QED
  BY <1>4

-----------------------------------------------------------------------------
(* Who settles a row *)

Reports(w, i) ==
    /\ delivery[w].id = i
    /\ \/ Acknowledge(w)
       \/ PermanentAcknowledge(w)
       \/ RetryOrDeadLetter(w) /\ IsDead(delivery[w])

LEMMA RowReports ==
  ASSUME TypeOK, [Next]_vars, NEW i \in DOMAIN queue
  PROVE  \/ queue'[i].status = queue[i].status
         \/ Active(queue'[i])
         \/ \E w \in Workers : Reports(w, i)
<1> DEFINE Goal == \/ queue'[i].status = queue[i].status
                   \/ Active(queue'[i])
                   \/ \E w \in Workers : Reports(w, i)
<1>1. StoreTypeOK /\ LocalTypeOK /\ HoldsRow /\ ControlTypeOK /\ queue[i] \in QueueRow
  BY TypeParts, RowType
<1>2. CASE queue'[i] = queue[i] \/ queue'[i] = Reclaimed(queue[i])
  BY <1>1, <1>2 DEF Reclaimed, Active, QueueRow
<1>3. ASSUME NEW task \in Tasks, enqueue(task) \/ create_workflow(task) PROVE Goal
  BY <1>1, <1>2, <1>3, AddedRow DEF enqueue, create_workflow
<1>4. ASSUME NEW w \in Workers, RunOnceStep(w) PROVE Goal
  <2>1. CASE Enqueue(w)
    BY <1>1, <1>3, <2>1 DEF Enqueue, LocalTypeOK, Delivery, Task
  <2>2. ASSUME NEW j \in DOMAIN queue, Claim(w, j) PROVE Goal
    BY <1>2, <2>2 DEF Claim, claim, Active
  <2>3. CASE ProcessStep(w)
    BY <1>1, <1>2, <2>3, ProcessHolds
  <2>4. CASE Acknowledge(w) \/ PermanentAcknowledge(w) \/ RetryOrDeadLetter(w)
    <3>1. CASE delivery[w].id # i
      BY <1>2, <2>4, <3>1
      DEF Acknowledge, acknowledge, PermanentAcknowledge, RetryOrDeadLetter, retry_or_dead_letter
    <3>2. CASE delivery[w].id = i /\ RetryOrDeadLetter(w) /\ ~IsDead(delivery[w])
      BY <1>1, <3>2 DEF RetryOrDeadLetter, retry_or_dead_letter, Active, QueueRow
    <3> QED
      BY <2>4, <3>1, <3>2 DEF Reports
  <2>5. CASE DeadLoad(w) \/ DeadSave(w) \/ PermanentLoad(w) \/ PermanentSave(w)
    BY <1>2, <2>5
    DEF DeadLoad, DeadSave, PermanentLoad, PermanentSave, Reload, SaveFinal, save_workflow,
        storeVars
  <2> QED
    BY <1>4, <2>1, <2>2, <2>3, <2>4, <2>5 DEF RunOnceStep
<1>5. ASSUME NEW w \in Workers, Heartbeat(w) PROVE Goal
  BY <1>1, <1>5 DEF Heartbeat, extend_lease, QueueRow
<1>6. ASSUME NEW j \in DOMAIN queue, LeaseExpires(j) PROVE Goal
  BY <1>1, <1>6 DEF LeaseExpires, QueueRow
<1>7. ASSUME NEW h \in Handlers, ApproveEnqueue(h) PROVE Goal
  BY <1>1, <1>3, <1>7, HandlerTypes DEF ApproveEnqueue
<1>8. ASSUME NEW j \in DOMAIN queue, ReplayDeadLetter(j) PROVE Goal
  BY <1>2, <1>8 DEF ReplayDeadLetter, replay_dead_letter, NewRow, Active
<1>9. CASE ControlStep
  BY <1>2, <1>3, <1>7, <1>8, <1>9
  DEF ControlStep, CreateIncident, Approve, Reject, Open, HandlerStep, ApproveResolve,
      ApproveSave, RejectResolve, RejectSave, Resolve, resolve_approval, StaleRequest,
      save_workflow, storeVars
<1> QED
  BY <1>2, <1>4, <1>5, <1>6, <1>9 DEF Next, WorkerNext, WorkerCrash, HandlerCrash, vars, storeVars

\* With no stall a dead row stays so until it is replayed.
LEMMA DeadRowStays ==
  ASSUME TypeOK, DeliveryInv, DeliveryMove, stalls = 0, replays' = replays,
         NEW i \in DOMAIN queue, queue[i].status = "DEAD"
  PROVE  queue'[i].status = "DEAD"
<1>1. replays \in Nat /\ Reclaimed(queue[i]) = queue[i]
  BY TypeParts DEF ControlTypeOK, Reclaimed
<1>2. CASE QuietMove \/ \E w \in Workers : DieMove(w)
  BY <1>2 DEF QuietMove, DieMove
<1>3. ASSUME NEW w \in Workers, NEW j \in DOMAIN queue, ClaimMove(w, j)
      PROVE  queue'[i].status = "DEAD"
  BY <1>1, <1>3 DEF ClaimMove, Pendable
<1>4. ASSUME NEW w \in Workers, ReportMove(w) PROVE queue'[i].status = "DEAD"
  <2>1. Leased(queue[delivery[w].id])
    BY <1>4, KeptRows DEF ReportMove
  <2> QED
    BY <1>4, <2>1 DEF ReportMove, OnlyRow, Leased
<1>5. ASSUME NEW j \in DOMAIN queue, ExpireMove(j) PROVE queue'[i].status = "DEAD"
  BY <1>5 DEF ExpireMove, OnlyRow
<1>6. ASSUME NEW w \in Workers, RenewMove(w) PROVE queue'[i].status = "DEAD"
  BY <1>6 DEF RenewMove, OnlyRow
<1>7. ASSUME NEW j \in DOMAIN queue, ReplayMove(j) PROVE FALSE
  BY <1>1, <1>7, SMT DEF ReplayMove
<1> QED
  BY <1>2, <1>3, <1>4, <1>5, <1>6, <1>7 DEF DeliveryMove

-----------------------------------------------------------------------------
(* Dead letters *)

\* The worker that made row i dead is going to end the workflow.
Ending(w, i) ==
    /\ delivery[w].id = i
    /\ \/ wpc[w] = "dead"
       \/ wpc[w] = "dead_save" /\ VersionMatches(Task(w), state[w])

DeadRowEnds(i) ==
    terminal(workflows[queue[i].task_id]) \/ \E w \in Workers : Ending(w, i)

DeadRowOf(task) == \E i \in DOMAIN queue : queue[i].task_id = task /\ queue[i].status = "DEAD"

DeadLetters ==
    /\ crashes = 0 /\ stalls = 0 =>
        \A i \in DOMAIN queue : queue[i].status = "DEAD" => DeadRowEnds(i)
    /\ stalls = 0 /\ replays = 0 =>
        /\ \A w \in Workers :
                wpc[w] \in {"dead", "dead_save"} => queue[delivery[w].id].status = "DEAD"
        /\ \A task \in Tasks : workflows[task].status = "DEAD_LETTERED" => DeadRowOf(task)

\* A dead row is the only slot of its task, so nobody but its worker touches the workflow.
LEMMA DeadRowAlone ==
  ASSUME TypeOK, CheckpointInv, LifecycleInv, SlotInv, RowsApart, crashes = 0, stalls = 0,
         [Next]_vars, NEW i \in DOMAIN queue, queue[i].status = "DEAD", queue'[i].status = "DEAD",
         NEW task, task = queue[i].task_id
  PROVE  workflows'[task] = workflows[task] \/ terminal(workflows'[task])
<1> SUFFICES ASSUME workflows'[task] # workflows[task] PROVE terminal(workflows'[task])
  OBVIOUS
<1>1. task \in Tasks /\ LocalTypeOK /\ StoreTypeOK
  BY TypeParts, RowType DEF QueueRow
<1>2. <<"row", i>> \in Slots(task, NoCall)
  BY SlotsMember DEF RowSlot
<1>3. IsFiniteSet(Slots(task, NoCall)) /\ Cardinality(Slots(task, NoCall)) <= 1
  BY <1>1, SMT DEF SlotInv, SlotsBounded, Disturbances
<1>4. ASSUME NEW x \in Slots(task, NoCall) PROVE x = <<"row", i>>
  BY <1>2, <1>3, NoTwoOfOne
<1>5. ASSUME NEW w \in Workers, ProcessWrites(w, task) PROVE FALSE
  <2>1. wpc[w] = "save_result" => call[w] # NoCall
    BY <1>1, ModelsAssumption DEF LocalTypeOK, CallChosen, CallPC
  <2>2. WorkerSlot(task, NoCall, w)
    BY <1>5, <2>1 DEF ProcessWrites, SavePC, WorkerSlot, SlotPC, RuntimePC
  <2>3. <<"worker", w>> \in Slots(task, NoCall)
    BY <2>2, SlotsMember
  <2>4. <<"worker", w>> = <<"row", i>>
    BY <1>4, <2>3
  <2> QED
    BY <2>4
<1>6. ASSUME RequestWrites(task) PROVE FALSE
  <2>1. <<"waiting", task>> \in Slots(task, NoCall)
    BY <1>6, SlotsMember DEF RequestWrites
  <2>2. <<"waiting", task>> = <<"row", i>>
    BY <1>4, <2>1
  <2> QED
    BY <2>2
<1>7. ASSUME ReplayWrites(task) PROVE FALSE
  <2>1. PICK j \in DOMAIN queue : ReplayDeadLetter(j) /\ queue[j].task_id = task
    BY <1>7 DEF ReplayWrites
  <2>2. queue[j].status = "DEAD" /\ queue' = [queue EXCEPT ![j] = NewRow(task)]
    BY <2>1 DEF ReplayDeadLetter, replay_dead_letter
  <2>3. j = i
    BY <2>1, <2>2 DEF RowsApart, Undone
  <2> QED
    BY <2>2, <2>3 DEF NewRow
<1>8. ASSUME NEW w \in Workers, EndWrites(w, task) PROVE terminal(workflows'[task])
  BY <1>8 DEF EndWrites, terminal, TerminalStatus
<1> QED
  BY <1>1, <1>5, <1>6, <1>7, <1>8, Writers DEF Written

\* The worker goes on to end the workflow, or finds it over.
LEMMA EndingStep ==
  ASSUME TypeOK, HeldRowTask, [Next]_vars, crashes' = 0, NEW w \in Workers, NEW i, Ending(w, i),
         NEW task, task = queue[i].task_id, workflows'[task] = workflows[task]
  PROVE  Ending(w, i)' \/ terminal(workflows'[task])
<1>1. /\ StoreTypeOK /\ LocalTypeOK /\ crashes \in Nat /\ Task(w) = task /\ Busy(w)
  BY TypeParts DEF BudgetsTypeOK, HeldRowTask, Ending, Busy
<1>2. CASE SameWork(w)
  <2>1. Task(w)' = Task(w) /\ wpc'[w] = wpc[w] /\ state'[w] = state[w] /\ delivery'[w] = delivery[w]
    BY <1>2 DEF SameWork, Task
  <2>2. VersionMatches(Task(w), state[w]) => VersionMatches(Task(w), state[w])'
    BY <1>1, <2>1 DEF VersionMatches
  <2> QED
    BY <2>1, <2>2 DEF Ending
<1>3. CASE WorkerCrash(w)
  BY <1>1, <1>3, SMT DEF WorkerCrash
<1>4. CASE DeadLoad(w)
  <2>1. terminal(workflows[task]) \/ ~terminal(workflows[task])
    OBVIOUS
  <2>2. CASE ~terminal(workflows[task])
    <3>1. wpc'[w] = "dead_save" /\ state'[w] = workflows[task] /\ delivery' = delivery
      BY <1>1, <1>4, <2>2 DEF DeadLoad, Reload, Goto, LocalTypeOK
    <3>2. VersionMatches(Task(w), state[w])'
      BY <1>1, <3>1 DEF VersionMatches, Task
    <3> QED
      BY <3>1, <3>2 DEF Ending
  <2> QED
    BY <2>2
<1>5. CASE DeadSave(w)
  <2>1. workflows'[task].status = "DEAD_LETTERED"
    BY <1>1, <1>5, FinalSave DEF DeadSave, Ending
  <2> QED
    BY <2>1 DEF terminal, TerminalStatus
<1>6. CASE RunOnceStep(w)
  <2>1. ~ProcessStep(w)
    BY <1>1, ProcessHolds DEF Ending, RuntimePC
  <2> QED
    BY <1>4, <1>5, <1>6, <2>1
    DEF RunOnceStep, Ending, Claim, Acknowledge, Enqueue, RetryOrDeadLetter,
        PermanentAcknowledge, PermanentLoad, PermanentSave
<1> QED
  BY <1>1, <1>2, <1>3, <1>6, OwnSteps

\* Every row there is after a step was there before, or is pending.
LEMMA RowBefore ==
  ASSUME TypeOK, CheckpointInv, [Next]_vars, NEW i \in DOMAIN queue'
  PROVE  i \in DOMAIN queue \/ queue'[i].status = "PENDING"
<1>1. StoreTypeOK /\ (SameDomain \/ \E task \in Tasks : Added(task))
  BY TypeParts, QueueGrows DEF CheckpointInv
<1>2. ASSUME NEW task \in Tasks, Added(task)
      PROVE  i \in DOMAIN queue \/ queue'[i].status = "PENDING"
  <2>1. DOMAIN queue' = DOMAIN queue \cup {Len(queue) + 1} /\ queue'[Len(queue) + 1] = NewRow(task)
    BY <1>1, <1>2, AddedRow DEF Added
  <2> QED
    BY <2>1 DEF NewRow
<1> QED
  BY <1>1, <1>2 DEF SameDomain

LEMMA DeadRowsEndNext ==
  ASSUME TypeOK, CheckpointInv, LifecycleInv, DeliveryInv, SlotInv, RowsApart, DeadLetters,
         [Next]_vars, crashes' = 0, stalls' = 0,
         NEW i \in DOMAIN queue', queue'[i].status = "DEAD"
  PROVE  DeadRowEnds(i)'
<1>1. /\ crashes = 0 /\ stalls = 0 /\ i \in DOMAIN queue /\ queue'[i].task_id = queue[i].task_id
      /\ LocalTypeOK /\ HeldRowTask
  BY NextBudgets, RowsKeepTask, RowBefore, TypeParts DEF BudgetsBack, RowsKept, SlotInv
<1>2. PICK task : task = queue[i].task_id
  OBVIOUS
<1>3. CASE queue[i].status = "DEAD"
  <2>1. CASE workflows'[task] = workflows[task]
    <3>1. CASE terminal(workflows[task])
      BY <1>1, <1>2, <2>1, <3>1 DEF DeadRowEnds
    <3>2. CASE ~terminal(workflows[task])
      <4>1. PICK w \in Workers : Ending(w, i)
        BY <1>1, <1>2, <1>3, <3>2 DEF DeadLetters, DeadRowEnds
      <4>2. Ending(w, i)' \/ terminal(workflows'[task])
        BY <1>1, <1>2, <2>1, <4>1, EndingStep
      <4> QED
        BY <1>1, <1>2, <4>2 DEF DeadRowEnds
    <3> QED
      BY <3>1, <3>2
  <2>2. CASE terminal(workflows'[task])
    BY <1>1, <1>2, <2>2 DEF DeadRowEnds
  <2> QED
    BY <1>1, <1>2, <1>3, <2>1, <2>2, DeadRowAlone
<1>4. CASE queue[i].status # "DEAD"
  <2>1. PICK w \in Workers : Reports(w, i)
    BY <1>1, <1>4, RowReports DEF Active
  <2>2. queue'[i].status = "COMPLETED" \/ RetryOrDeadLetter(w)
    <3>1. queue[i] \in QueueRow
      BY <1>1, RowType, TypeParts
    <3> QED
      BY <1>1, <2>1, <3>1
      DEF Reports, Acknowledge, acknowledge, PermanentAcknowledge, QueueRow
  <2>3. RetryOrDeadLetter(w) /\ IsDead(delivery[w])
    BY <1>1, <2>1, <2>2 DEF Reports, Acknowledge, PermanentAcknowledge, RetryOrDeadLetter
  <2>4. wpc'[w] = "dead" /\ delivery'[w].id = i
    BY <1>1, <2>1, <2>3 DEF RetryOrDeadLetter, LeaveProcess, Goto, LocalTypeOK, Reports
  <2>5. Ending(w, i)'
    BY <2>4 DEF Ending
  <2> QED
    BY <2>5 DEF DeadRowEnds
<1> QED
  BY <1>3, <1>4

LEMMA DeadWorkersNext ==
  ASSUME TypeOK, DeliveryInv, DeadLetters, [Next]_vars, stalls' = 0, replays' = 0,
         NEW w \in Workers, wpc'[w] \in {"dead", "dead_save"}
  PROVE  queue'[delivery'[w].id].status = "DEAD"
<1>1. /\ stalls = 0 /\ replays = 0 /\ replays' = replays /\ DeliveryMove
      /\ LocalTypeOK /\ HoldsRow /\ StoreTypeOK
  BY NextBudgets, DeliveryMoves, TypeParts DEF BudgetsBack
<1>2. ASSUME wpc[w] \in {"dead", "dead_save"}, delivery'[w] = delivery[w]
      PROVE  queue'[delivery'[w].id].status = "DEAD"
  BY <1>1, <1>2, DeadRowStays DEF DeadLetters, HoldsRow
<1>3. CASE SameWork(w)
  BY <1>2, <1>3 DEF SameWork
<1>4. CASE RetryOrDeadLetter(w)
  <2>1. wpc[w] # "idle" /\ delivery[w].id \in DOMAIN queue
    BY <1>1, <1>4 DEF RetryOrDeadLetter, HoldsRow
  <2>2. IsDead(delivery[w]) /\ delivery' = delivery
    BY <1>1, <1>4 DEF RetryOrDeadLetter, Finish, LeaveProcess, Goto, LocalTypeOK
  <2>3. queue[delivery[w].id] \in QueueRow
    BY <1>1, <2>1, RowType
  <2> QED
    BY <1>4, <2>1, <2>2, <2>3 DEF RetryOrDeadLetter, retry_or_dead_letter, QueueRow
<1>5. CASE DeadLoad(w)
  BY <1>1, <1>2, <1>5 DEF DeadLoad, Reload, Finish, Goto, LocalTypeOK
<1>6. ASSUME ProcessStep(w) PROVE FALSE
  BY <1>1, <1>6, ProcessHolds DEF KeepPC, RuntimePC
<1>7. ASSUME \/ Acknowledge(w) \/ Enqueue(w) \/ DeadSave(w) \/ PermanentAcknowledge(w)
             \/ PermanentLoad(w) \/ PermanentSave(w) \/ \E i \in DOMAIN queue : Claim(w, i)
      PROVE  FALSE
  BY <1>1, <1>7
  DEF Acknowledge, Enqueue, DeadSave, PermanentAcknowledge, PermanentLoad, PermanentSave, Claim,
      Reload, SaveFinal, Finish, LeaveProcess, Goto, LocalTypeOK
<1>8. CASE RunOnceStep(w)
  BY <1>4, <1>5, <1>6, <1>7, <1>8 DEF RunOnceStep
<1> QED
  BY <1>1, <1>3, <1>8, OwnSteps

LEMMA DeadLetteredNext ==
  ASSUME TypeOK, CheckpointInv, LifecycleInv, DeliveryInv, HeldRowTask, DeadLetters,
         [Next]_vars, stalls' = 0, replays' = 0,
         NEW task \in Tasks, workflows'[task].status = "DEAD_LETTERED"
  PROVE  DeadRowOf(task)'
<1>1. /\ stalls = 0 /\ replays = 0 /\ replays' = replays /\ DeliveryMove /\ RowsKept
      /\ LocalTypeOK /\ HoldsRow /\ StoreTypeOK
  BY NextBudgets, DeliveryMoves, RowsKeepTask, TypeParts DEF BudgetsBack
<1>2. ASSUME NEW i \in DOMAIN queue, queue[i].task_id = task, queue[i].status = "DEAD"
      PROVE  DeadRowOf(task)'
  BY <1>1, <1>2, DeadRowStays DEF DeadRowOf, RowsKept
<1>3. CASE workflows'[task] = workflows[task]
  BY <1>1, <1>2, <1>3 DEF DeadLetters, DeadRowOf
<1>4. ASSUME NEW w \in Workers, EndWrites(w, task) PROVE DeadRowOf(task)'
  <2>1. wpc[w] = "dead_save" /\ Task(w) = task
    BY <1>4 DEF EndWrites, DeadSave
  <2>2. delivery[w].id \in DOMAIN queue /\ queue[delivery[w].id].status = "DEAD"
    BY <1>1, <2>1 DEF HoldsRow, DeadLetters
  <2> QED
    BY <1>2, <2>1, <2>2 DEF HeldRowTask
<1>5. ASSUME NEW w \in Workers, ProcessWrites(w, task), workflows'[task] # workflows[task]
      PROVE  FALSE
  <2>1. Busy(w) /\ WorkerWay(w)
    BY <1>1, <1>5, StepBusy DEF ProcessWrites, LifecycleInv
  <2>2. Ends(w)
    BY <1>5, <2>1, ProcessEnds DEF ProcessWrites, SavePC
  <2> QED
    BY <1>5, <2>2 DEF Ends, ProcessWrites
<1>6. ASSUME RequestWrites(task) \/ ReplayWrites(task) PROVE FALSE
  BY <1>1, <1>6, SMT DEF RequestWrites, ReplayWrites, ReplayDeadLetter
<1> QED
  BY <1>3, <1>4, <1>5, <1>6, Writers DEF Written

LEMMA DeadLettersNext ==
  ASSUME TypeOK, CheckpointInv, LifecycleInv, DeliveryInv, SlotInv, RowsApart, DeadLetters,
         [Next]_vars
  PROVE  DeadLetters'
<1>1. HeldRowTask
  BY DEF SlotInv
<1> QED
  BY <1>1, DeadRowsEndNext, DeadWorkersNext, DeadLetteredNext DEF DeadLetters

-----------------------------------------------------------------------------
(* Work that is not finished *)

\* The checkpoint goes on without a human.
Unfinished(task) == workflows[task].status \in OpenStatus /\ workflows[task].pending_action = NoCall

\* The premise of WorkNotLost.
Regime ==
    /\ crashes = 0 /\ replays = 0
    /\ stalls = 0 \/ \A key \in Key : approvals[key] = "NONE"

\* A worker that will put a row back for the task, or end its workflow.
Carrier(w, task) ==
    /\ Carries(w) /\ Task(w) = task
    /\ wpc[w] \in {"dead_save", "perm_save"} => VersionMatches(task, state[w])

PendingApproved(w) ==
    wpc[w] = "approval" => approvals[action_id(Task(w), state[w].pending_action)] = "APPROVED"

WorkKept ==
    /\ replays = 0 =>
        /\ \A task \in Tasks :
                workflows[task].status \in OpenStatus /\ workflows[task].pending_action # NoCall =>
                    approvals[RowKey(task)] = "APPROVED"
        /\ \A w \in Workers : PendingApproved(w)
    /\ Regime =>
        /\ \A w \in Workers : Parked(w) => ~Unfinished(Task(w))
        /\ \A task \in created :
                Unfinished(task) => ActiveRows(task) # {} \/ \E w \in Workers : Carrier(w, task)

LEMMA RegimeBefore ==
  ASSUME TypeOK, [Next]_vars, Regime'
  PROVE  Regime /\ crashes' = 0 /\ replays' = 0 /\ replays' = replays
<1>1. BudgetsBack /\ ApprovalsForward
  BY NextBudgets, ApprovalsForwardNext
<1> QED
  BY <1>1 DEF Regime, BudgetsBack, ApprovalsForward

LEMMA OpenApprovedNext ==
  ASSUME TypeOK, CheckpointInv, LifecycleInv, WorkKept, [Next]_vars, replays' = 0,
         NEW task \in Tasks,
         workflows'[task].status \in OpenStatus, workflows'[task].pending_action # NoCall
  PROVE  approvals'[RowKey(task)'] = "APPROVED"
<1>1. /\ RowStep(task) /\ ApprovalsForward /\ replays = 0 /\ replays' = replays
      /\ StoreTypeOK /\ TypeOK'
  BY RowMoves, ApprovalsForwardNext, NextBudgets, TypeParts, NextType DEF BudgetsBack
<1>2. PICK c : c = workflows'[task].pending_action
  OBVIOUS
<1>3. c \in Calls /\ <<task, c>> \in Key /\ RowKey(task)' = <<task, c>>
  <2>1. workflows'[task] \in Checkpoint
    BY <1>1 DEF TypeOK, StoreTypeOK
  <2> QED
    BY <1>2, <2>1 DEF Checkpoint, Key, RowKey, action_id
<1>4. workflows[task].pending_action = c /\ approvals[<<task, c>>] = "APPROVED"
  BY <1>1, <1>2, SMT
  DEF RowStep, RowChange, Proceeds, Asks, Releases, Refuses, Concludes, Closes, Reopens,
      WorkKept, RowKey, action_id, OpenStatus, TerminalStatus
<1> QED
  BY <1>1, <1>3, <1>4 DEF ApprovalsForward

\* A worker comes to its pending action only by loading it.
LEMMA EnterApproval ==
  ASSUME LocalTypeOK, NEW w \in Workers, RunOnceStep(w), wpc'[w] = "approval"
  PROVE  Load(w) /\ Resumable(workflows[Task(w)])
<1> USE DEF LocalTypeOK, Goto
<1>1. ASSUME NEW new, \/ Return(w, new) \/ StaleSave(w, new)
                      \/ SaveAndReturn(w, new) \/ SaveAndRaise(w, new)
      PROVE  FALSE
  BY <1>1 DEF Return, StaleSave, LeaveProcess, SaveAndReturn, SaveAndRaise
<1>2. ASSUME NEW new, NEW pc \in {"decide", "create_approval"}, SaveAndGoto(w, new, pc)
      PROVE  FALSE
  BY <1>1, <1>2 DEF SaveAndGoto
<1>3. CASE \/ SaveRunning(w) \/ SaveWaiting(w) \/ ModelFailsRetryably(w)
           \/ BackendFailsRetryably(w) \/ BackendTimesOut(w) \/ DecideComplete(w)
           \/ DecideFail(w) \/ PolicyDenied(w) \/ BackendFailsPermanently(w) \/ RecordResult(w)
           \/ CreateApproval(w)
  BY <1>1, <1>2, <1>3
  DEF SaveRunning, SaveWaiting, ModelFailsRetryably, BackendFailsRetryably, BackendTimesOut,
      DecideComplete, DecideFail, PolicyDenied, BackendFailsPermanently, RecordResult, Fail,
      FailRetryably, CreateApproval
<1>4. ASSUME NEW c \in Calls, DecideTool(w, c) PROVE FALSE
  BY <1>1, <1>4 DEF DecideTool, AfterPolicy
<1>5. CASE \/ ResumeApprovedAction(w) \/ ModelFailsPermanently(w) \/ LookupResult(w)
           \/ SaveToolResult(w) \/ \E r \in Results : BackendSucceeds(w, r)
  BY <1>1, <1>5
  DEF ResumeApprovedAction, ModelFailsPermanently, LeaveProcess, LookupResult, AfterLookup,
      SaveToolResult, BackendSucceeds
<1>6. CASE Load(w)
  BY <1>1, <1>6 DEF Load
<1>7. CASE ReportStep(w) \/ \E i \in DOMAIN queue : Claim(w, i)
  BY <1>7
  DEF Claim, ReportStep, Acknowledge, Enqueue, RetryOrDeadLetter, DeadLoad, DeadSave,
      PermanentAcknowledge, PermanentLoad, PermanentSave, Reload, SaveFinal, Finish,
      LeaveProcess
<1> QED
  BY <1>3, <1>4, <1>5, <1>6, <1>7 DEF RunOnceStep, ProcessStep, ReportStep

LEMMA PendingApprovedNext ==
  ASSUME TypeOK, CheckpointInv, WorkKept, [Next]_vars, replays' = 0,
         NEW w \in Workers, wpc'[w] = "approval"
  PROVE  approvals'[action_id(Task(w), state[w].pending_action)'] = "APPROVED"
<1>1. ApprovalsForward /\ replays = 0 /\ StoreTypeOK /\ LocalTypeOK
  BY ApprovalsForwardNext, NextBudgets, TypeParts DEF BudgetsBack
<1>2. ASSUME NEW task \in Tasks, NEW c \in Calls, approvals[<<task, c>>] = "APPROVED"
      PROVE  approvals'[<<task, c>>] = "APPROVED"
  BY <1>1, <1>2 DEF ApprovalsForward, Key
<1>3. CASE SameWork(w)
  <2>1. Task(w) \in Tasks /\ state[w].pending_action \in Calls
    BY <1>1, <1>3 DEF SameWork, LocalTypeOK, CallChosen, Task, Delivery
  <2> QED
    BY <1>1, <1>2, <1>3, <2>1 DEF SameWork, Task, WorkKept, PendingApproved, action_id
<1>4. CASE RunOnceStep(w)
  <2>1. PICK task : task = Task(w)
    OBVIOUS
  <2>2. Load(w) /\ Resumable(workflows[task]) /\ Busy(w)
    BY <1>1, <1>4, <2>1, EnterApproval, StepBusy DEF ProcessStep
  <2>3. /\ state'[w] = workflows[task] /\ Task(w)' = task /\ task \in Tasks
        /\ workflows[task] \in Checkpoint /\ wpc'[w] = AfterLoad(workflows[task])
    BY <1>1, <2>1, <2>2, HeldTypes DEF Load, Goto, LocalTypeOK, Task, Return
  <2>4. /\ workflows[task].pending_action \in Calls /\ workflows[task].pending_action # NoCall
        /\ workflows[task].status \in OpenStatus
    BY <2>2, <2>3
    DEF AfterLoad, Resumable, terminal, TerminalStatus, Checkpoint, WorkflowStatus, OpenStatus
  <2>5. approvals[<<task, workflows[task].pending_action>>] = "APPROVED"
    BY <1>1, <2>3, <2>4 DEF WorkKept, RowKey, action_id
  <2> QED
    BY <1>2, <2>3, <2>4, <2>5 DEF action_id
<1> QED
  BY <1>1, <1>3, <1>4, OwnSteps

\* A worker comes to rest on its delivery only by asking a human or by leaving process().
LEMMA EnterParked ==
  ASSUME LocalTypeOK, NEW w \in Workers, RunOnceStep(w), Parked(w)'
  PROVE  ProcessStep(w)
<1>1. wpc'[w] \in {"create_approval", "ack"}
  BY DEF Parked
<1>2. CASE ReportStep(w) \/ \E i \in DOMAIN queue : Claim(w, i)
  BY <1>1, <1>2
  DEF Claim, ReportStep, Acknowledge, Enqueue, RetryOrDeadLetter, DeadLoad, DeadSave,
      PermanentAcknowledge, PermanentLoad, PermanentSave, Reload, SaveFinal, Finish,
      LeaveProcess, Goto, LocalTypeOK
<1> QED
  BY <1>2 DEF RunOnceStep, ReportStep

\* A checkpoint that is over or waits is not taken up again behind a parked worker.
LEMMA ParkedKept ==
  ASSUME TypeOK, CheckpointInv, LifecycleInv, DeliveryInv, HeldRowTask, RowsApart, WorkKept,
         [Next]_vars, Regime', NEW w \in Workers, Parked(w), NEW task \in Tasks, task = Task(w),
         wpc'[w] = wpc[w]
  PROVE  ~Unfinished(task)'
<1>1. Regime /\ replays' = replays /\ RowStep(task) /\ ~Unfinished(task) /\ replays \in Nat
  BY RegimeBefore, RowMoves, TypeParts DEF WorkKept, ControlTypeOK
<1>2. CASE workflows'[task] = workflows[task]
  BY <1>1, <1>2 DEF Unfinished
<1>3. CASE stalls = 0 /\ workflows'[task] # workflows[task]
  <2>1. ASSUME NEW v \in Workers, ProcessWrites(v, task) PROVE FALSE
    <3>1. v = w
      BY <1>1, <1>3, <2>1, OneKeeper
      DEF Regime, ProcessWrites, SavePC, KeepPC, RuntimePC, Parked
    <3> QED
      BY <2>1, <3>1 DEF ProcessWrites, SavePC, RuntimePC, Parked
  <2>2. ASSUME NEW v \in Workers, EndWrites(v, task) PROVE ~Unfinished(task)'
    BY <2>2 DEF EndWrites, Unfinished, OpenStatus
  <2>3. ASSUME RequestWrites(task) PROVE ~Unfinished(task)'
    BY <2>3 DEF RequestWrites, Unfinished, OpenStatus
  <2>4. ~ReplayWrites(task)
    BY <1>1, SMT DEF ReplayWrites, ReplayDeadLetter
  <2> QED
    BY <1>3, <2>1, <2>2, <2>3, <2>4, Writers DEF Written
<1>4. CASE (\A key \in Key : approvals[key] = "NONE") /\ workflows'[task] # workflows[task]
  <2>1. RowChange(task, workflows[task], workflows'[task])
    BY <1>1, <1>4, SMT DEF RowStep, Reopens
  <2>2. ASSUME NEW c \in Calls PROVE approvals[action_id(task, c)] = "NONE"
    BY <1>4, <2>2 DEF action_id, Key
  <2>3. workflows[task].pending_action \in Calls \cup {NoCall}
    BY TypeParts DEF StoreTypeOK, Checkpoint
  <2>4. ~Unfinished(task)
    BY <1>1
  <2> QED
    BY <2>1, <2>2, <2>3, <2>4
    DEF RowChange, Proceeds, Asks, Releases, Refuses, Concludes, Closes, Unfinished,
        OpenStatus, TerminalStatus
<1> QED
  BY <1>1, <1>2, <1>3, <1>4 DEF Regime

LEMMA ParkedNext ==
  ASSUME TypeOK, CheckpointInv, LifecycleInv, DeliveryInv, HeldRowTask, RowsApart, WorkKept,
         [Next]_vars, Regime', NEW w \in Workers, Parked(w)'
  PROVE  ~Unfinished(Task(w))'
<1>1. /\ Regime /\ StoreTypeOK /\ LocalTypeOK /\ HoldsRow
      /\ \A v \in Workers : Task(v) \in Tasks
  BY RegimeBefore, TypeParts DEF LocalTypeOK, Delivery, Task
<1>2. wpc'[w] # "idle"
  BY DEF Parked
<1>3. CASE SameWork(w)
  <2>1. Parked(w) /\ Task(w)' = Task(w) /\ wpc'[w] = wpc[w]
    BY <1>3 DEF SameWork, Parked, Task
  <2> QED
    BY <1>1, <2>1, ParkedKept DEF Unfinished
<1>4. CASE RunOnceStep(w)
  <2>1. ProcessStep(w) /\ Busy(w) /\ delivery[w].id \in DOMAIN queue /\ WorkerWay(w)
    BY <1>1, <1>4, EnterParked, StepBusy DEF HoldsRow, LifecycleInv, Busy
  <2>2. Task(w)' = Task(w)
    BY <2>1, ProcessHolds DEF Busy, Task
  <2>3. CASE wpc[w] = "create_approval"
    <3>1. Parked(w) /\ UNCHANGED workflows
      BY <1>1, <2>1, <2>3, ProcessWriter DEF Parked, SavePC
    <3> QED
      BY <1>1, <2>2, <3>1 DEF WorkKept, Unfinished
  <2>4. CASE wpc[w] # "create_approval"
    <3>1. wpc[w] = "approval" => IsApproved(action_id(Task(w), state[w].pending_action))
      BY <1>1 DEF Regime, WorkKept, PendingApproved, IsApproved
    <3>2. Ends(w)
      BY <2>1, <2>4, <3>1, ProcessEnds
    <3> QED
      BY <2>2, <3>2 DEF Ends, Carries, Stopped, Unfinished
  <2> QED
    BY <2>3, <2>4
<1> QED
  BY <1>1, <1>2, <1>3, <1>4, OwnSteps

\* What a worker adds to the queue, or puts back, will be claimed.
LEMMA EnqueuedRow ==
  ASSUME StoreTypeOK, NEW task \in Tasks, enqueue(task)
  PROVE  ActiveRows(task)' # {}
<1>1. CASE ActiveRows(task) = {}
  <2>1. queue' = Append(queue, NewRow(task))
    BY <1>1 DEF enqueue
  <2>2. DOMAIN queue' = DOMAIN queue \cup {Len(queue) + 1} /\ queue'[Len(queue) + 1] = NewRow(task)
    BY <2>1, AddedRow
  <2>3. Len(queue) + 1 \in ActiveRows(task)'
    BY <2>2 DEF ActiveRows, Active, NewRow
  <2> QED
    BY <2>3
<1>2. CASE ActiveRows(task) # {}
  BY <1>2 DEF enqueue, ActiveRows
<1> QED
  BY <1>1, <1>2

LEMMA RetriedActive ==
  ASSUME StoreTypeOK, NEW i \in DOMAIN queue, NEW task, queue[i].task_id = task,
         NEW d, d.id = i, ~IsDead(d), retry_or_dead_letter(d)
  PROVE  ActiveRows(task)' # {}
<1>1. queue[i] \in QueueRow
  BY RowType
<1>2. i \in DOMAIN queue' /\ queue'[i].task_id = task /\ queue'[i].status = "PENDING"
  BY <1>1 DEF retry_or_dead_letter, QueueRow
<1>3. i \in {j \in DOMAIN queue' : queue'[j].task_id = task /\ Active(queue'[j])}
  BY <1>2 DEF Active
<1> QED
  BY <1>3 DEF ActiveRows

\* Whoever carries an unfinished workflow goes on to, or puts a row in the queue.
LEMMA CarrierReport ==
  ASSUME TypeOK, HeldRowTask, NEW task \in Tasks, Unfinished(task), Unfinished(task)',
         NEW w \in Workers, Carrier(w, task), ReportStep(w)
  PROVE  Carrier(w, task)' \/ ActiveRows(task)' # {}
<1>1. /\ StoreTypeOK /\ LocalTypeOK /\ HoldsRow /\ Busy(w) /\ Task(w) = task
  BY TypeParts, StepBusy DEF Carrier
<1>2. CASE Acknowledge(w)
  <2>1. state[w].status = "QUEUED" /\ wpc[w] = "ack"
    BY <1>2 DEF Acknowledge, Carrier, Carries, Parked
  <2>2. wpc'[w] = "enqueue" /\ Task(w)' = task
    BY <1>1, <1>2, <2>1 DEF Acknowledge, LeaveProcess, Goto, LocalTypeOK, Task
  <2> QED
    BY <2>2 DEF Carrier, Carries, Parked
<1>3. CASE Enqueue(w)
  BY <1>1, <1>3, EnqueuedRow DEF Enqueue
<1>4. CASE RetryOrDeadLetter(w) /\ IsDead(delivery[w])
  <2>1. wpc'[w] = "dead" /\ Task(w)' = task
    BY <1>1, <1>4 DEF RetryOrDeadLetter, LeaveProcess, Goto, LocalTypeOK, Task
  <2> QED
    BY <2>1 DEF Carrier, Carries, Parked
<1>5. CASE RetryOrDeadLetter(w) /\ ~IsDead(delivery[w])
  <2>1. delivery[w].id \in DOMAIN queue /\ queue[delivery[w].id].task_id = task
    BY <1>1 DEF HoldsRow, HeldRowTask, Busy
  <2> QED
    BY <1>1, <1>5, <2>1, RetriedActive DEF RetryOrDeadLetter
<1>6. ASSUME NEW pc \in {"dead_save", "perm_save"}, Reload(w, pc)
      PROVE  Carrier(w, task)'
  <2>1. ~terminal(workflows[task])
    BY DEF Unfinished, terminal, TerminalStatus, OpenStatus
  <2>2. wpc'[w] = pc /\ state'[w] = workflows[task] /\ Task(w)' = task /\ UNCHANGED workflows
    BY <1>1, <1>6, <2>1 DEF Reload, Goto, LocalTypeOK, Task, storeVars
  <2> QED
    BY <2>2 DEF Carrier, Carries, Parked, VersionMatches
<1>7. CASE PermanentAcknowledge(w)
  <2>1. wpc'[w] = "perm_load" /\ Task(w)' = task
    BY <1>1, <1>7 DEF PermanentAcknowledge, localVars, Goto, LocalTypeOK, Task
  <2> QED
    BY <2>1 DEF Carrier, Carries, Parked
<1>8. ASSUME NEW status \in {"DEAD_LETTERED", "FAILED"}, SaveFinal(w, status),
             wpc[w] \in {"dead_save", "perm_save"}
      PROVE  FALSE
  <2>1. workflows'[task].status = status
    BY <1>1, <1>8, FinalSave DEF Carrier
  <2> QED
    BY <2>1 DEF Unfinished, OpenStatus
<1> QED
  BY <1>2, <1>3, <1>4, <1>5, <1>6, <1>7, <1>8
  DEF ReportStep, DeadLoad, DeadSave, PermanentLoad, PermanentSave

LEMMA CarrierStep ==
  ASSUME TypeOK, LifecycleInv, HeldRowTask, WorkKept, [Next]_vars, Regime', NEW task \in Tasks,
         Unfinished(task), workflows'[task] = workflows[task],
         NEW w \in Workers, Carrier(w, task)
  PROVE  Carrier(w, task)' \/ ActiveRows(task)' # {}
<1>1. /\ Regime /\ crashes' = 0 /\ crashes \in Nat /\ StoreTypeOK /\ LocalTypeOK
      /\ Unfinished(task)' /\ Task(w) = task /\ wpc[w] # "idle"
  BY RegimeBefore, TypeParts DEF BudgetsTypeOK, Unfinished, Carrier, Carries
<1>2. CASE SameWork(w)
  <2>1. /\ Task(w)' = Task(w) /\ wpc'[w] = wpc[w] /\ state'[w] = state[w]
        /\ VersionMatches(task, state[w]) => VersionMatches(task, state[w])'
    BY <1>2 DEF SameWork, Task, VersionMatches
  <2> QED
    BY <2>1 DEF Carrier, Carries, Parked
<1>3. ~WorkerCrash(w)
  BY <1>1, SMT DEF WorkerCrash
<1>4. CASE ProcessStep(w)
  <2>1. Busy(w) /\ WorkerWay(w)
    BY <1>1 DEF Busy, LifecycleInv
  <2>2. wpc[w] # "create_approval"
    BY DEF Carrier, Carries, Parked
  <2>3. wpc[w] = "approval" => IsApproved(action_id(Task(w), state[w].pending_action))
    BY <1>1 DEF Regime, WorkKept, PendingApproved, IsApproved
  <2>4. Ends(w) /\ Task(w)' = task
    BY <1>1, <1>4, <2>1, <2>2, <2>3, ProcessEnds, ProcessHolds DEF Task
  <2>5. Carries(w)' /\ wpc'[w] \notin {"dead_save", "perm_save"}
    BY <1>1, <2>4 DEF Ends, Stopped, Unfinished, KeepPC, RuntimePC
  <2> QED
    BY <2>4, <2>5 DEF Carrier
<1>5. CASE ReportStep(w)
  BY <1>1, <1>5, CarrierReport
<1>6. ~\E i \in DOMAIN queue : Claim(w, i)
  BY <1>1 DEF Claim
<1> QED
  BY <1>1, <1>2, <1>3, <1>4, <1>5, <1>6, OwnSteps DEF RunOnceStep, ReportStep

LEMMA CreatedBy ==
  ASSUME [Next]_vars, NEW task \in created', task \notin created
  PROVE  CreateIncident(task)
<1>1. CASE ControlStep
  BY <1>1
  DEF ControlStep, CreateIncident, create_workflow, Approve, Reject, Open, HandlerStep,
      ApproveResolve, ApproveSave, ApproveEnqueue, RejectResolve, RejectSave, Resolve,
      resolve_approval, StaleRequest, save_workflow, enqueue, ReplayDeadLetter,
      replay_dead_letter, storeVars
<1> QED
  BY <1>1, WorkersCreateNothing DEF Next, HandlerCrash, vars, storeVars

\* Whoever writes an unfinished checkpoint goes on with it.
LEMMA WriterCarries ==
  ASSUME TypeOK, CheckpointInv, LifecycleInv, [Next]_vars, replays' = replays,
         NEW task \in Tasks, workflows'[task] # workflows[task], Unfinished(task)'
  PROVE  \E w \in Workers : Carrier(w, task)'
<1>1. StoreTypeOK /\ LocalTypeOK /\ replays \in Nat
  BY TypeParts DEF ControlTypeOK
<1>2. ASSUME NEW w \in Workers, ProcessWrites(w, task) PROVE Carrier(w, task)'
  <2>1. Busy(w) /\ WorkerWay(w)
    BY <1>1, <1>2, StepBusy DEF ProcessWrites, LifecycleInv
  <2>2. Ends(w) /\ Task(w)' = task
    BY <1>1, <1>2, <2>1, ProcessEnds, ProcessHolds DEF ProcessWrites, SavePC, Task
  <2>3. Carries(w)' /\ wpc'[w] \notin {"dead_save", "perm_save"}
    BY <1>2, <2>2 DEF ProcessWrites, Ends, Stopped, Unfinished, KeepPC, RuntimePC
  <2> QED
    BY <2>2, <2>3 DEF Carrier
<1>3. ASSUME NEW w \in Workers, EndWrites(w, task) PROVE FALSE
  BY <1>3 DEF EndWrites, Unfinished, OpenStatus
<1>4. ~RequestWrites(task)
  BY DEF RequestWrites, Unfinished, OpenStatus
<1>5. ~ReplayWrites(task)
  BY <1>1, SMT DEF ReplayWrites, ReplayDeadLetter
<1> QED
  BY <1>2, <1>3, <1>4, <1>5, Writers DEF Written

LEMMA CarriedNext ==
  ASSUME TypeOK, CheckpointInv, LifecycleInv, HeldRowTask, WorkKept, [Next]_vars, Regime',
         NEW task \in created', Unfinished(task)'
  PROVE  ActiveRows(task)' # {} \/ \E w \in Workers : Carrier(w, task)'
<1>1. /\ Regime /\ replays' = replays /\ StoreTypeOK /\ LocalTypeOK /\ RowsKept /\ task \in Tasks
  BY RegimeBefore, RowsKeepTask, NextType, TypeParts DEF TypeOK, StoreTypeOK
<1>2. CASE task \notin created
  <2>1. queue' = Append(queue, NewRow(task))
    BY <1>2, CreatedBy DEF CreateIncident, create_workflow
  <2>2. DOMAIN queue' = DOMAIN queue \cup {Len(queue) + 1} /\ queue'[Len(queue) + 1] = NewRow(task)
    BY <1>1, <2>1, AddedRow
  <2>3. Len(queue) + 1 \in ActiveRows(task)'
    BY <2>2 DEF ActiveRows, Active, NewRow
  <2> QED
    BY <2>3
<1>3. CASE workflows'[task] # workflows[task]
  BY <1>1, <1>3, WriterCarries
<1>4. CASE task \in created /\ workflows'[task] = workflows[task]
  <2>1. Unfinished(task)
    BY <1>4 DEF Unfinished
  <2>2. ASSUME NEW w \in Workers, Carrier(w, task)
        PROVE  Carrier(w, task)' \/ ActiveRows(task)' # {}
    BY <1>1, <1>4, <2>1, <2>2, CarrierStep
  <2>3. ASSUME NEW i \in ActiveRows(task)
        PROVE  ActiveRows(task)' # {} \/ \E w \in Workers : Carrier(w, task)'
    <3>1. i \in DOMAIN queue /\ queue[i].task_id = task /\ Active(queue[i])
      BY <2>3 DEF ActiveRows
    <3>2. CASE queue'[i].status = queue[i].status \/ Active(queue'[i])
      <4>1. i \in ActiveRows(task)'
        BY <1>1, <3>1, <3>2 DEF RowsKept, ActiveRows, Active
      <4> QED
        BY <4>1
    <3>3. ASSUME NEW w \in Workers, Reports(w, i) PROVE Carrier(w, task)
      <4>1. wpc[w] \in {"ack", "perm_ack", "retry"} /\ delivery[w].id = i
        BY <3>3 DEF Reports, Acknowledge, PermanentAcknowledge, RetryOrDeadLetter
      <4>2. Task(w) = task
        BY <3>1, <4>1 DEF HeldRowTask
      <4>3. ~Parked(w)
        BY <1>1, <2>1, <4>2 DEF WorkKept
      <4> QED
        BY <4>1, <4>2, <4>3 DEF Carrier, Carries
    <3> QED
      BY <2>2, <3>1, <3>2, <3>3, RowReports
  <2> QED
    BY <1>1, <1>4, <2>1, <2>2, <2>3 DEF WorkKept
<1> QED
  BY <1>2, <1>3, <1>4

LEMMA WorkKeptNext ==
  ASSUME TypeOK, CheckpointInv, LifecycleInv, DeliveryInv, HeldRowTask, RowsApart, WorkKept,
         [Next]_vars
  PROVE  WorkKept'
<1>1. ASSUME replays' = 0, NEW task \in Tasks, workflows'[task].status \in OpenStatus,
             workflows'[task].pending_action # NoCall
      PROVE  approvals'[RowKey(task)'] = "APPROVED"
  BY <1>1, OpenApprovedNext
<1>2. ASSUME replays' = 0, NEW w \in Workers PROVE PendingApproved(w)'
  BY <1>2, PendingApprovedNext DEF PendingApproved
<1>3. ASSUME Regime', NEW w \in Workers, Parked(w)' PROVE ~Unfinished(Task(w))'
  BY <1>3, ParkedNext
<1>4. ASSUME Regime', NEW task \in created', Unfinished(task)'
      PROVE  ActiveRows(task)' # {} \/ \E w \in Workers : Carrier(w, task)'
  BY <1>4, CarriedNext
<1> QED
  BY <1>1, <1>2, <1>3, <1>4 DEF WorkKept

-----------------------------------------------------------------------------
(* Both hold from the start and for ever *)

EndingInv == DeadLetters /\ WorkKept

LEMMA EndingInvInit == Init => EndingInv
<1> SUFFICES ASSUME Init PROVE EndingInv
  OBVIOUS
<1>1. /\ workflows = [task \in Tasks |-> NewWorkflow] /\ queue = <<>> /\ created = {}
      /\ wpc = [w \in Workers |-> "idle"]
  BY DEF Init, StoreInit, WorkerInit, RuntimeInit
<1>2. NewWorkflow.status = "QUEUED" /\ NewWorkflow.pending_action = NoCall
  BY DEF NewWorkflow
<1>3. DeadLetters
  BY <1>1, <1>2 DEF DeadLetters
<1>4. WorkKept
  BY <1>1, <1>2 DEF WorkKept, PendingApproved, Parked
<1> QED
  BY <1>3, <1>4 DEF EndingInv

\* A dead row waits for the one worker that will end its workflow, and every unfinished
\* workflow for a row or a worker that will go on with it (retry_or_dead_letter,
\* acknowledge, enqueue and the saves of run_once).
THEOREM EndingInvHolds == Spec => []EndingInv
<1>1. ASSUME TypeOK, CheckpointInv, LifecycleInv, DeliveryInv, SlotInv, UndisturbedInv,
             EndingInv, [Next]_vars
      PROVE  EndingInv'
  <2>1. RowsApart /\ HeldRowTask /\ DeadLetters /\ WorkKept
    BY <1>1 DEF UndisturbedInv, SlotInv, EndingInv
  <2>2. DeadLetters'
    BY <1>1, <2>1, DeadLettersNext
  <2>3. WorkKept'
    BY <1>1, <2>1, WorkKeptNext
  <2> QED
    BY <2>2, <2>3 DEF EndingInv
<1> QED
  BY <1>1, EndingInvInit, TypeCorrect, CopiesStayFresh, LifecycleInvHolds, DeliveryInvHolds,
     SlotInvHolds, UndisturbedInvHolds, PTL DEF Spec

\* The dead-letter queue and the workflows agree: with no crash and no stall a dead row
\* belongs to a workflow that is over or that a worker is about to end, and with no stall
\* and no replay a dead-lettered workflow has a dead row that an operator can replay.
THEOREM DeadLettersAgreeHolds == Spec => []DeadLettersAgree
<1>1. TypeOK /\ EndingInv => DeadLettersAgree
  <2> SUFFICES ASSUME TypeOK, DeadLetters PROVE DeadLettersAgree
    BY DEF EndingInv
  <2>1. crashes + stalls = 0 => crashes = 0 /\ stalls = 0
    BY TypeParts, SMT DEF BudgetsTypeOK
  <2>2. stalls + replays = 0 => stalls = 0 /\ replays = 0
    BY TypeParts, SMT DEF BudgetsTypeOK, ControlTypeOK
  <2>3. ASSUME crashes + stalls = 0, NEW i \in DOMAIN queue, queue[i].status = "DEAD"
        PROVE  \/ terminal(workflows[queue[i].task_id])
               \/ \E w \in Workers : wpc[w] \in {"dead", "dead_save"} /\ delivery[w].id = i
    BY <2>1, <2>3 DEF DeadLetters, DeadRowEnds, Ending
  <2>4. ASSUME stalls + replays = 0, NEW task \in Tasks, workflows[task].status = "DEAD_LETTERED"
        PROVE  DeadRowOf(task)
    BY <2>2, <2>4 DEF DeadLetters
  <2> QED
    BY <2>3, <2>4 DEF DeadLettersAgree, DeadRowOf
<1> QED
  BY <1>1, TypeCorrect, EndingInvHolds, PTL

\* No work is lost: with no crash and no replay, and with no stall or no approval asked for
\* yet, an unfinished workflow with no action pending has an active row or a worker that
\* will put one back or end the workflow, whatever any worker's copy said when it saved.
THEOREM WorkNotLostHolds == Spec => []WorkNotLost
<1>1. EndingInv => WorkNotLost
  <2> SUFFICES ASSUME WorkKept, Regime, NEW task \in created,
                      workflows[task].status \in {"QUEUED", "RUNNING"},
                      workflows[task].pending_action = NoCall
               PROVE  Carried(task)
    BY DEF EndingInv, WorkNotLost, Regime
  <2>1. ActiveRows(task) # {} \/ \E w \in Workers : Carrier(w, task)
    BY DEF WorkKept, Unfinished, OpenStatus
  <2> QED
    BY <2>1 DEF Carried, Carrier, Carries, Parked
<1> QED
  BY <1>1, EndingInvHolds, PTL
=============================================================================
