--------------------------- MODULE EffectsProofs ---------------------------
(***************************************************************************)
(* How often a row is delivered and how often the infrastructure is        *)
(* touched, for every set of tasks, calls, workers and handlers and        *)
(* whatever crashes, stalls, times out or is replayed (AttemptsBounded,    *)
(* EffectsAccounted).                                                      *)
(*                                                                         *)
(* acknowledge, retry_or_dead_letter and extend_lease name the row only,   *)
(* and retry_or_dead_letter trusts the attempts its caller was delivered,  *)
(* so the first half counts.  The right to deliver a row once more is with *)
(* the row while it may be claimed and with each worker that has yet to    *)
(* report on it: a claim, a report and a replay pass it on, and only a     *)
(* lease that passes under a live worker makes one more.                   *)
(*                                                                         *)
(* The second half counts who can bring a task to its next tool call: its  *)
(* slots.  A slot is a row that will be claimed or replayed, a worker that *)
(* goes on with the task, a checkpoint that waits for a human, or a        *)
(* request that has released it and is going to queue it.  Each step of    *)
(* the runtime passes one slot on; only a crash or a stall can make one    *)
(* more.  A call that is not in the ledger yet has been carried out by a   *)
(* worker that gave its slot for it.                                       *)
(***************************************************************************)
EXTENDS LifecycleProofs, FiniteSetTheorems

\* Where a worker has yet to report on its delivery.
KeepPC == RuntimePC \cup {"ack", "retry", "perm_ack"}

Keeps(w, i) == wpc[w] \in KeepPC /\ delivery[w].id = i

Leased(row) == row.status = "PROCESSING" /\ ~row.expired

Pendable(row) == row.status = "PENDING" \/ (row.status = "PROCESSING" /\ row.expired)

\* The workers that may report on row i, and the row itself unless it is leased.
Claims(i) ==
    {<<"worker", w>> : w \in {v \in Workers : Keeps(v, i)}}
        \cup {x \in {<<"row", i>>} : ~Leased(queue[i])}

ClaimsBounded(i) == IsFiniteSet(Claims(i)) /\ Cardinality(Claims(i)) <= 1 + stalls

\* Row i is claimed again, now or when the lease of a worker that died has passed.
Claimable(i) ==
    \/ Pendable(queue[i])
    \/ queue[i].status = "PROCESSING" /\ \A w \in Workers : ~Keeps(w, i)

\* The workers that may still put row i back, and the row itself when it is claimable.
Tries(i) ==
    {<<"worker", w>> : w \in {v \in Workers : Keeps(v, i) /\ ~IsDead(delivery[v])}}
        \cup {x \in {<<"row", i>>} : Claimable(i)}

TriesBounded(i) ==
    /\ IsFiniteSet(Tries(i))
    /\ queue[i].attempts + Cardinality(Tries(i)) <= MaxQueueAttempts + crashes + stalls

DeliveryInv == \A i \in DOMAIN queue : ClaimsBounded(i) /\ TriesBounded(i)

-----------------------------------------------------------------------------
(* Counting *)

LEMMA Exchange ==
  ASSUME NEW S, IsFiniteSet(S), NEW x \in S, NEW y, NEW T, T \subseteq (S \ {x}) \cup {y}
  PROVE  IsFiniteSet(T) /\ Cardinality(T) \in Nat /\ Cardinality(T) <= Cardinality(S)
<1>1. IsFiniteSet(S \ {x}) /\ Cardinality(S \ {x}) = Cardinality(S) - 1
  BY FS_RemoveElement
<1>2. /\ IsFiniteSet((S \ {x}) \cup {y})
      /\ Cardinality((S \ {x}) \cup {y}) <= Cardinality(S)
      /\ Cardinality((S \ {x}) \cup {y}) \in Nat
  <2>1. IsFiniteSet((S \ {x}) \cup {y})
    BY <1>1, FS_AddElement
  <2>2. Cardinality((S \ {x}) \cup {y}) = IF y \in S \ {x} THEN Cardinality(S \ {x})
                                         ELSE Cardinality(S \ {x}) + 1
    BY <1>1, FS_AddElement
  <2>3. Cardinality(S) \in Nat /\ Cardinality((S \ {x}) \cup {y}) \in Nat
    BY <2>1, FS_CardinalityType
  <2> QED
    BY <1>1, <2>1, <2>2, <2>3, SMT
<1>3. /\ IsFiniteSet(T)
      /\ Cardinality(T) <= Cardinality((S \ {x}) \cup {y})
      /\ Cardinality(T) \in Nat
  BY <1>2, FS_Subset, FS_CardinalityType
<1>4. Cardinality(S) \in Nat
  BY FS_CardinalityType
<1> QED
  BY <1>2, <1>3, <1>4, SMT

LEMMA Shrink ==
  ASSUME NEW S, IsFiniteSet(S), NEW T, T \subseteq S
  PROVE  IsFiniteSet(T) /\ Cardinality(T) \in Nat /\ Cardinality(T) <= Cardinality(S)
  BY FS_Subset, FS_CardinalityType

LEMMA Discard ==
  ASSUME NEW S, IsFiniteSet(S), NEW x \in S, NEW T, T \subseteq S \ {x}
  PROVE  IsFiniteSet(T) /\ Cardinality(T) \in Nat /\ Cardinality(T) <= Cardinality(S) - 1
<1> DEFINE rest == S \ {x}
<1>1. IsFiniteSet(rest) /\ Cardinality(rest) = Cardinality(S) - 1
  BY FS_RemoveElement
<1>2. T \subseteq rest
  OBVIOUS
<1> HIDE DEF rest
<1>3. IsFiniteSet(T) /\ Cardinality(T) \in Nat /\ Cardinality(T) <= Cardinality(rest)
  BY <1>1, <1>2, Shrink
<1>4. Cardinality(S) \in Nat
  BY FS_CardinalityType
<1> QED
  BY <1>1, <1>3, <1>4, SMT

LEMMA Grow ==
  ASSUME NEW S, IsFiniteSet(S), NEW y, NEW T, T \subseteq S \cup {y}
  PROVE  IsFiniteSet(T) /\ Cardinality(T) \in Nat /\ Cardinality(T) <= Cardinality(S) + 1
<1>1. IsFiniteSet(S \cup {y}) /\ Cardinality(S) \in Nat /\ Cardinality(S \cup {y}) \in Nat
  BY FS_AddElement, FS_CardinalityType
<1>2. Cardinality(S \cup {y}) <= Cardinality(S) + 1
  <2>1. Cardinality(S \cup {y}) = IF y \in S THEN Cardinality(S) ELSE Cardinality(S) + 1
    BY FS_AddElement
  <2> QED
    BY <1>1, <2>1, SMT
<1>3. IsFiniteSet(T) /\ Cardinality(T) \in Nat /\ Cardinality(T) <= Cardinality(S \cup {y})
  BY <1>1, Shrink
<1> QED
  BY <1>1, <1>2, <1>3, SMT

LEMMA OneElement ==
  ASSUME NEW y, NEW T, T \subseteq {y}
  PROVE  IsFiniteSet(T) /\ Cardinality(T) \in Nat /\ Cardinality(T) <= 1
<1>1. IsFiniteSet({y}) /\ Cardinality({y}) = 1
  BY FS_Singleton, Zenon
<1>2. IsFiniteSet(T) /\ Cardinality(T) \in Nat /\ Cardinality(T) <= Cardinality({y})
  BY <1>1, Shrink
<1> QED
  BY <1>1, <1>2
-----------------------------------------------------------------------------
(* What a step does to the rows and their holders *)

\* Whether v has yet to report, and on what, stays as it is.
SameHold(v) ==
    /\ wpc'[v] \in KeepPC <=> wpc[v] \in KeepPC
    /\ wpc[v] \in KeepPC => delivery'[v] = delivery[v]

HoldsKept == \A v \in Workers : SameHold(v)

HoldsKeptBut(w) == \A v \in Workers \ {w} : SameHold(v)

SameDomain == DOMAIN queue' = DOMAIN queue

\* No row but i is touched.
OnlyRow(i) == SameDomain /\ \A j \in DOMAIN queue : j # i => queue'[j] = queue[j]

SameBudgets == crashes' = crashes /\ stalls' = stalls

\* Nothing happens between a row and its holder; rows may be added.
QuietMove ==
    /\ HoldsKept
    /\ \A i \in DOMAIN queue : i \in DOMAIN queue' /\ queue'[i] = queue[i]
    /\ \A i \in DOMAIN queue' \ DOMAIN queue :
            queue'[i].status = "PENDING" /\ queue'[i].attempts = 0
    /\ crashes' \in {crashes, crashes + 1} /\ stalls' = stalls

ClaimMove(w, i) ==
    /\ HoldsKeptBut(w) /\ SameDomain /\ SameBudgets
    /\ wpc[w] \notin KeepPC /\ wpc'[w] \in KeepPC
    /\ delivery'[w].id = i /\ delivery'[w].attempts = queue[i].attempts + 1
    /\ Pendable(queue[i])
    /\ Leased(queue'[i]) /\ queue'[i].attempts = queue[i].attempts + 1
    /\ \A j \in DOMAIN queue : j # i => queue'[j] = Reclaimed(queue[j])

ReportMove(w) ==
    LET row == queue[delivery[w].id]
        new == queue'[delivery[w].id]
    IN  /\ HoldsKeptBut(w) /\ OnlyRow(delivery[w].id) /\ SameBudgets
        /\ wpc[w] \in KeepPC /\ wpc'[w] \notin KeepPC
        /\ new.attempts = row.attempts
        /\ \/ new.status = "COMPLETED"
           \/ new.status = "PENDING" /\ ~IsDead(delivery[w])
           \/ new.status = "DEAD"

DieMove(w) ==
    /\ HoldsKeptBut(w) /\ queue' = queue
    /\ wpc[w] \in KeepPC /\ wpc'[w] \notin KeepPC
    /\ crashes' = crashes + 1 /\ stalls' = stalls

ExpireMove(i) ==
    /\ HoldsKept /\ OnlyRow(i)
    /\ queue[i].status = "PROCESSING"
    /\ queue'[i].status = "PROCESSING" /\ queue'[i].attempts = queue[i].attempts
    /\ crashes' = crashes
    /\ \/ stalls' = stalls + 1
       \/ stalls' = stalls /\ \A w \in Workers : ~Keeps(w, i)

RenewMove(w) ==
    LET row == queue[delivery[w].id]
        new == queue'[delivery[w].id]
    IN  /\ HoldsKept /\ OnlyRow(delivery[w].id) /\ SameBudgets
        /\ wpc[w] \in KeepPC
        /\ new.status = row.status /\ new.attempts = row.attempts
        /\ new.expired => row.expired

ReplayMove(i) ==
    /\ HoldsKept /\ OnlyRow(i) /\ SameBudgets
    /\ queue[i].status = "DEAD"
    /\ queue'[i].status = "PENDING" /\ queue'[i].attempts = 0
    /\ replays' = replays + 1

DeliveryMove ==
    \/ QuietMove
    \/ \E w \in Workers, i \in DOMAIN queue : ClaimMove(w, i)
    \/ \E w \in Workers : ReportMove(w)
    \/ \E w \in Workers : DieMove(w)
    \/ \E i \in DOMAIN queue : ExpireMove(i)
    \/ \E w \in Workers : RenewMove(w)
    \/ \E i \in DOMAIN queue : ReplayMove(i)

LEMMA OthersHold ==
  ASSUME NEW w \in Workers, OthersKeep(w)
  PROVE  HoldsKeptBut(w)
  BY DEF OthersKeep, HoldsKeptBut, SameHold

\* A step of process() leaves the queue alone and the worker with its delivery.
LEMMA ProcessHolds ==
  ASSUME LocalTypeOK, NEW w \in Workers, ProcessStep(w)
  PROVE  /\ wpc[w] \in RuntimePC /\ wpc'[w] \in KeepPC
         /\ delivery' = delivery /\ queue' = queue
<1> DEFINE Goal == wpc'[w] \in KeepPC /\ delivery' = delivery /\ queue' = queue
<1> USE DEF LocalTypeOK, KeepPC, RuntimePC, storeVars, Goto
<1>1. ASSUME NEW new, Return(w, new), queue' = queue PROVE Goal
  BY <1>1 DEF Return
<1>2. ASSUME NEW new, StaleSave(w, new) PROVE Goal
  BY <1>2 DEF StaleSave, LeaveProcess
<1>3. ASSUME NEW new, SaveAndReturn(w, new) PROVE Goal
  BY <1>1, <1>2, <1>3 DEF SaveAndReturn, save_workflow
<1>4. ASSUME NEW new, SaveAndRaise(w, new) PROVE Goal
  BY <1>2, <1>4 DEF SaveAndRaise, save_workflow, LeaveProcess
<1>5. ASSUME NEW new, NEW pc \in KeepPC, SaveAndGoto(w, new, pc) PROVE Goal
  BY <1>2, <1>5 DEF SaveAndGoto, save_workflow
<1>6. CASE Load(w)
  BY <1>1, <1>6 DEF Load, AfterLoad
<1>7. CASE SaveRunning(w)
  BY <1>5, <1>7 DEF SaveRunning
<1>8. CASE SaveWaiting(w)
  BY <1>5, <1>8 DEF SaveWaiting
<1>9. CASE \/ ModelFailsRetryably(w) \/ BackendFailsRetryably(w) \/ BackendTimesOut(w)
  BY <1>4, <1>9 DEF ModelFailsRetryably, BackendFailsRetryably, BackendTimesOut, FailRetryably
<1>10. CASE \/ DecideComplete(w) \/ DecideFail(w) \/ PolicyDenied(w)
            \/ BackendFailsPermanently(w) \/ RecordResult(w)
  BY <1>3, <1>10
  DEF DecideComplete, DecideFail, PolicyDenied, BackendFailsPermanently, RecordResult, Fail
<1>11. ASSUME NEW c \in Calls, DecideTool(w, c) PROVE Goal
  BY <1>2, <1>3, <1>11 DEF DecideTool, save_workflow, AfterPolicy
<1>12. CASE ModelFailsPermanently(w)
  BY <1>12 DEF ModelFailsPermanently, LeaveProcess
<1>13. CASE CreateApproval(w)
  BY <1>1, <1>13 DEF CreateApproval, create_approval
<1>14. CASE ResumeApprovedAction(w)
  BY <1>1, <1>14 DEF ResumeApprovedAction
<1>15. CASE LookupResult(w)
  BY <1>15 DEF LookupResult, AfterLookup
<1>16. ASSUME NEW r \in Results, BackendSucceeds(w, r) PROVE Goal
  BY <1>16 DEF BackendSucceeds
<1>17. CASE SaveToolResult(w)
  BY <1>17 DEF SaveToolResult, save_tool_result, localVars
<1>18. wpc[w] \in RuntimePC
  BY DEF ProcessStep, Load, SaveRunning, ModelFailsRetryably, ModelFailsPermanently,
         DecideComplete, DecideFail, DecideTool, PolicyDenied, SaveWaiting, CreateApproval,
         ResumeApprovedAction, LookupResult, BackendSucceeds, BackendFailsRetryably,
         BackendTimesOut, BackendFailsPermanently, SaveToolResult, RecordResult
<1> QED
  BY <1>6, <1>7, <1>8, <1>9, <1>10, <1>11, <1>12, <1>13, <1>14, <1>15, <1>16, <1>17, <1>18
  DEF ProcessStep

LEMMA ReplacedRow ==
  ASSUME StoreTypeOK, NEW i \in DOMAIN queue, NEW row, queue' = [queue EXCEPT ![i] = row]
  PROVE  OnlyRow(i) /\ queue'[i] = row
  BY DEF OnlyRow, SameDomain

LEMMA AcknowledgedRow ==
  ASSUME StoreTypeOK, NEW i \in DOMAIN queue, acknowledge(i)
  PROVE  /\ OnlyRow(i)
         /\ queue'[i].status = "COMPLETED" /\ queue'[i].attempts = queue[i].attempts
<1> DEFINE row == [queue[i] EXCEPT !.status = "COMPLETED", !.expired = FALSE]
<1>1. row.status = "COMPLETED" /\ row.attempts = queue[i].attempts
  BY RowType DEF QueueRow
<1>2. queue' = [queue EXCEPT ![i] = row]
  BY DEF acknowledge
<1> QED
  BY <1>1, <1>2, ReplacedRow

LEMMA RetriedRow ==
  ASSUME StoreTypeOK, NEW d \in Delivery, d.id \in DOMAIN queue, retry_or_dead_letter(d)
  PROVE  /\ OnlyRow(d.id)
         /\ queue'[d.id].status = IF IsDead(d) THEN "DEAD" ELSE "PENDING"
         /\ queue'[d.id].attempts = queue[d.id].attempts
<1> DEFINE row == [queue[d.id] EXCEPT !.status = IF IsDead(d) THEN "DEAD" ELSE "PENDING",
                                      !.delayed = ~IsDead(d),
                                      !.expired = FALSE]
<1>1. /\ row.status = IF IsDead(d) THEN "DEAD" ELSE "PENDING"
      /\ row.attempts = queue[d.id].attempts
  BY RowType DEF QueueRow
<1>2. queue' = [queue EXCEPT ![d.id] = row]
  BY DEF retry_or_dead_letter
<1> QED
  BY <1>1, <1>2, ReplacedRow

LEMMA RenewedRow ==
  ASSUME StoreTypeOK, NEW i \in DOMAIN queue, extend_lease(i)
  PROVE  /\ OnlyRow(i)
         /\ queue'[i].status = queue[i].status /\ queue'[i].attempts = queue[i].attempts
         /\ queue'[i].expired => queue[i].expired
<1> DEFINE row == [queue[i] EXCEPT !.expired = @ /\ queue[i].status # "PROCESSING"]
<1>1. /\ row.status = queue[i].status /\ row.attempts = queue[i].attempts
      /\ row.expired => queue[i].expired
  BY RowType DEF QueueRow
<1>2. queue' = [queue EXCEPT ![i] = row]
  BY DEF extend_lease
<1> QED
  BY <1>1, <1>2, ReplacedRow

LEMMA ExpiredRow ==
  ASSUME StoreTypeOK, NEW i \in DOMAIN queue, LeaseExpires(i)
  PROVE  /\ OnlyRow(i)
         /\ queue[i].status = "PROCESSING"
         /\ queue'[i].status = "PROCESSING" /\ queue'[i].attempts = queue[i].attempts
<1> DEFINE row == [queue[i] EXCEPT !.expired = TRUE]
<1>1. queue[i].status = "PROCESSING"
  BY DEF LeaseExpires
<1>2. row.status = "PROCESSING" /\ row.attempts = queue[i].attempts
  BY <1>1, RowType DEF QueueRow
<1>3. queue' = [queue EXCEPT ![i] = row]
  BY DEF LeaseExpires
<1> QED
  BY <1>1, <1>2, <1>3, ReplacedRow

LEMMA ReplayedRow ==
  ASSUME StoreTypeOK, NEW i \in DOMAIN queue, replay_dead_letter(i)
  PROVE  /\ OnlyRow(i)
         /\ queue[i].status = "DEAD"
         /\ queue'[i].status = "PENDING" /\ queue'[i].attempts = 0
<1>1. NewRow(queue[i].task_id).status = "PENDING" /\ NewRow(queue[i].task_id).attempts = 0
  BY DEF NewRow
<1>2. queue[i].status = "DEAD" /\ queue' = [queue EXCEPT ![i] = NewRow(queue[i].task_id)]
  BY DEF replay_dead_letter
<1> QED
  BY <1>1, <1>2, ReplacedRow

LEMMA AddedRow ==
  ASSUME StoreTypeOK, NEW task \in Tasks, queue' = Append(queue, NewRow(task))
  PROVE  /\ \A i \in DOMAIN queue : i \in DOMAIN queue' /\ queue'[i] = queue[i]
         /\ DOMAIN queue' = DOMAIN queue \cup {Len(queue) + 1}
         /\ Len(queue) + 1 \notin DOMAIN queue
         /\ queue'[Len(queue) + 1] = NewRow(task)
<1>1. /\ Len(queue) \in Nat /\ DOMAIN queue = 1 .. Len(queue)
      /\ queue' \in Seq(QueueRow) /\ Len(queue') = Len(queue) + 1
      /\ \A i \in 1 .. Len(queue) : queue'[i] = queue[i]
      /\ queue'[Len(queue) + 1] = NewRow(task)
  BY NewRowType, AppendProperties, LenProperties DEF StoreTypeOK
<1>2. DOMAIN queue' = 1 .. Len(queue) + 1
  BY <1>1, LenProperties
<1> QED
  BY <1>1, <1>2, SMT

\* The same for both operations that put a row in the queue.
LEMMA RowsAdded ==
  ASSUME StoreTypeOK, NEW task \in Tasks, enqueue(task) \/ create_workflow(task)
  PROVE  /\ \A i \in DOMAIN queue : i \in DOMAIN queue' /\ queue'[i] = queue[i]
         /\ \A i \in DOMAIN queue' \ DOMAIN queue :
                queue'[i].status = "PENDING" /\ queue'[i].attempts = 0
<1>1. NewRow(task).status = "PENDING" /\ NewRow(task).attempts = 0
  BY DEF NewRow
<1>2. CASE queue' = queue
  BY <1>2
<1>3. CASE queue' = Append(queue, NewRow(task))
  BY <1>1, <1>3, AddedRow
<1> QED
  BY <1>2, <1>3 DEF enqueue, create_workflow

LEMMA ClaimedRows ==
  ASSUME StoreTypeOK, NEW i \in DOMAIN queue, claim(i)
  PROVE  /\ SameDomain
         /\ Pendable(queue[i])
         /\ Leased(queue'[i]) /\ queue'[i].attempts = queue[i].attempts + 1
         /\ \A j \in DOMAIN queue : j # i => queue'[j] = Reclaimed(queue[j])
<1> DEFINE rows == [j \in DOMAIN queue |-> Reclaimed(queue[j])]
           claimed == [rows[i] EXCEPT !.status = "PROCESSING", !.attempts = @ + 1,
                                      !.delayed = FALSE, !.expired = FALSE]
<1>1. queue[i] \in QueueRow /\ rows[i] = Reclaimed(queue[i]) /\ rows[i] \in QueueRow
  BY RowType, ReclaimedType
<1>2. rows[i].status = "PENDING" /\ queue' = [rows EXCEPT ![i] = claimed]
  BY DEF claim
<1>3. Pendable(queue[i])
  BY <1>1, <1>2 DEF Pendable, Reclaimed, QueueRow
<1>4. rows[i].attempts = queue[i].attempts
  BY <1>1 DEF Reclaimed, QueueRow
<1>5. DOMAIN rows = DOMAIN queue /\ \A j \in DOMAIN queue : rows[j] = Reclaimed(queue[j])
  OBVIOUS
<1> HIDE DEF rows
<1>6. Leased(claimed) /\ claimed.attempts = queue[i].attempts + 1
  BY <1>1, <1>4, Zenon DEF Leased, QueueRow
<1> HIDE DEF claimed
<1> QED
  BY <1>2, <1>3, <1>5, <1>6 DEF SameDomain

\* Steps that leave the queue alone, and in which w neither takes nor gives up a row.
LEMMA QuietIfSameQueue ==
  ASSUME queue' = queue, HoldsKept, crashes' \in {crashes, crashes + 1}, stalls' = stalls
  PROVE  QuietMove
  BY DEF QuietMove

LEMMA ReportMoves ==
  ASSUME StoreTypeOK, LocalTypeOK, HoldsRow, NEW w \in Workers, ReportStep(w)
  PROVE  DeliveryMove
<1>1. OthersKeep(w)
  BY RunOnceOthersKeep DEF RunOnceStep, ReportStep
<1>2. HoldsKeptBut(w)
  BY <1>1, OthersHold
<1>3. SameBudgets
  BY DEF SameBudgets, Budgets, ReportStep, Acknowledge, Enqueue, RetryOrDeadLetter, DeadLoad,
         Reload, DeadSave, PermanentAcknowledge, PermanentLoad, PermanentSave, SaveFinal
<1>4. wpc[w] # "idle"
  BY DEF ReportStep, Acknowledge, Enqueue, RetryOrDeadLetter, DeadLoad,
         DeadSave, PermanentAcknowledge, PermanentLoad, PermanentSave
<1>5. delivery[w] \in Delivery /\ delivery[w].id \in DOMAIN queue /\ Task(w) \in Tasks
  BY <1>4, HeldTypes DEF HoldsRow, Busy
<1> USE DEF LocalTypeOK, KeepPC, RuntimePC, Goto
<1>6. CASE Acknowledge(w) \/ PermanentAcknowledge(w)
  <2>1. wpc[w] \in KeepPC /\ wpc'[w] \notin KeepPC /\ acknowledge(delivery[w].id)
    BY <1>6 DEF Acknowledge, PermanentAcknowledge, LeaveProcess, Finish
  <2>2. ReportMove(w)
    BY <1>2, <1>3, <1>5, <2>1, AcknowledgedRow DEF ReportMove
  <2> QED
    BY <2>2 DEF DeliveryMove
<1>7. CASE RetryOrDeadLetter(w)
  <2>1. wpc[w] \in KeepPC /\ wpc'[w] \notin KeepPC /\ retry_or_dead_letter(delivery[w])
    BY <1>7 DEF RetryOrDeadLetter, LeaveProcess, Finish
  <2>2. ReportMove(w)
    BY <1>2, <1>3, <1>5, <2>1, RetriedRow DEF ReportMove
  <2> QED
    BY <2>2 DEF DeliveryMove
<1>8. CASE Enqueue(w) \/ DeadLoad(w) \/ DeadSave(w) \/ PermanentLoad(w) \/ PermanentSave(w)
  <2>1. wpc[w] \notin KeepPC /\ wpc'[w] \notin KeepPC
    BY <1>8 DEF Enqueue, DeadLoad, DeadSave, PermanentLoad, PermanentSave, Reload, SaveFinal,
                Finish
  <2>2. HoldsKept
    BY <1>2, <2>1 DEF HoldsKept, HoldsKeptBut, SameHold
  <2>3. CASE Enqueue(w)
    BY <1>3, <1>5, <2>2, <2>3, RowsAdded DEF Enqueue, QuietMove, DeliveryMove, SameBudgets
  <2>4. CASE DeadLoad(w) \/ DeadSave(w) \/ PermanentLoad(w) \/ PermanentSave(w)
    <3>1. queue' = queue
      BY <2>4
      DEF DeadLoad, DeadSave, PermanentLoad, PermanentSave, Reload, SaveFinal, save_workflow,
          storeVars
    <3> QED
      BY <1>3, <2>2, <3>1, QuietIfSameQueue DEF SameBudgets, DeliveryMove
  <2> QED
    BY <1>8, <2>3, <2>4
<1> QED
  BY <1>6, <1>7, <1>8 DEF ReportStep

LEMMA WorkerMoves ==
  ASSUME TypeOK, WorkerNext
  PROVE  DeliveryMove
<1>1. StoreTypeOK /\ LocalTypeOK /\ HoldsRow
  BY TypeParts
<1>2. ASSUME NEW w \in Workers, NEW i \in DOMAIN queue, Claim(w, i) PROVE DeliveryMove
  <2>1. HoldsKeptBut(w)
    BY <1>1, <1>2, RunOnceOthersKeep, OthersHold DEF RunOnceStep
  <2>2. /\ wpc[w] \notin KeepPC /\ wpc'[w] \in KeepPC
        /\ delivery'[w].id = i /\ delivery'[w].attempts = queue[i].attempts + 1
    BY <1>1, <1>2 DEF Claim, Goto, LocalTypeOK, KeepPC, RuntimePC
  <2>3. claim(i) /\ SameBudgets
    BY <1>2 DEF Claim, SameBudgets, Budgets
  <2>4. ClaimMove(w, i)
    BY <1>1, <2>1, <2>2, <2>3, ClaimedRows DEF ClaimMove
  <2> QED
    BY <2>4 DEF DeliveryMove
<1>3. ASSUME NEW w \in Workers, ProcessStep(w) /\ UNCHANGED <<crashes, stalls>>
      PROVE  DeliveryMove
  <2>1. HoldsKeptBut(w)
    BY <1>1, <1>3, RunOnceOthersKeep, OthersHold DEF RunOnceStep
  <2>2. /\ wpc[w] \in RuntimePC /\ wpc'[w] \in KeepPC
        /\ delivery' = delivery /\ queue' = queue
    BY <1>1, <1>3, ProcessHolds
  <2>3. HoldsKept
    BY <2>1, <2>2 DEF HoldsKept, HoldsKeptBut, SameHold, KeepPC
  <2> QED
    BY <1>3, <2>2, <2>3, QuietIfSameQueue DEF DeliveryMove
<1>4. ASSUME NEW w \in Workers, Heartbeat(w) PROVE DeliveryMove
  <2>1. wpc[w] \in KeepPC /\ delivery[w].id \in DOMAIN queue
    BY <1>1, <1>4 DEF Heartbeat, Suspended, KeepPC, RuntimePC, HoldsRow
  <2>2. HoldsKept /\ SameBudgets
    BY <1>4
    DEF Heartbeat, workerVars, runtimeVars, localVars, HoldsKept, SameHold, SameBudgets
  <2>3. RenewMove(w)
    BY <1>1, <1>4, <2>1, <2>2, RenewedRow DEF Heartbeat, RenewMove
  <2> QED
    BY <2>3 DEF DeliveryMove
<1>5. ASSUME NEW w \in Workers, WorkerCrash(w) PROVE DeliveryMove
  <2>1. /\ \A v \in Workers \ {w} : wpc'[v] = wpc[v] /\ delivery'[v] = delivery[v]
        /\ wpc'[w] \notin KeepPC
        /\ queue' = queue /\ crashes' = crashes + 1 /\ stalls' = stalls
    BY <1>1, <1>5
    DEF WorkerCrash, Finish, Goto, LocalTypeOK, KeepPC, RuntimePC, storeVars
  <2>2. HoldsKeptBut(w)
    BY <2>1 DEF HoldsKeptBut, SameHold
  <2>3. CASE wpc[w] \in KeepPC
    BY <2>1, <2>2, <2>3 DEF DieMove, DeliveryMove
  <2>4. CASE wpc[w] \notin KeepPC
    <3>1. HoldsKept
      BY <2>1, <2>2, <2>4 DEF HoldsKept, HoldsKeptBut, SameHold
    <3> QED
      BY <2>1, <3>1, QuietIfSameQueue DEF DeliveryMove
  <2> QED
    BY <2>3, <2>4
<1>6. ASSUME NEW i \in DOMAIN queue, LeaseExpires(i) PROVE DeliveryMove
  <2>1. HoldsKept /\ crashes' = crashes
    BY <1>6 DEF LeaseExpires, runtimeVars, localVars, HoldsKept, SameHold
  <2>2. stalls' = stalls + 1 \/ (stalls' = stalls /\ \A w \in Workers : ~Keeps(w, i))
    BY <1>6 DEF LeaseExpires, Held, Keeps, KeepPC, RuntimePC
  <2>3. ExpireMove(i)
    BY <1>1, <1>6, <2>1, <2>2, ExpiredRow DEF ExpireMove
  <2> QED
    BY <2>3 DEF DeliveryMove
<1>7. ASSUME NEW w \in Workers, ReportStep(w) PROVE DeliveryMove
  BY <1>1, <1>7, ReportMoves
<1> QED
  BY <1>2, <1>3, <1>4, <1>5, <1>6, <1>7 DEF WorkerNext, RunOnceStep, ReportStep

LEMMA DeliveryMoves ==
  ASSUME TypeOK, [Next]_vars
  PROVE  DeliveryMove
<1>1. StoreTypeOK
  BY TypeParts
<1>2. ASSUME UNCHANGED <<wpc, delivery, crashes, stalls>>
      PROVE  HoldsKept /\ SameBudgets
  BY <1>2 DEF HoldsKept, SameHold, SameBudgets
<1>3. CASE ControlStep /\ UNCHANGED workerVars
  <2>1. HoldsKept /\ SameBudgets
    BY <1>2, <1>3 DEF workerVars, runtimeVars, localVars
  <2>2. ASSUME NEW task \in Tasks, CreateIncident(task) PROVE DeliveryMove
    BY <1>1, <2>1, <2>2, RowsAdded DEF CreateIncident, QuietMove, DeliveryMove, SameBudgets
  <2>3. ASSUME NEW h \in Handlers, ApproveEnqueue(h) PROVE DeliveryMove
    <3>1. htask[h] \in Tasks
      BY DEF TypeOK, ControlTypeOK
    <3> QED
      BY <1>1, <2>1, <2>3, <3>1, RowsAdded
      DEF ApproveEnqueue, QuietMove, DeliveryMove, SameBudgets
  <2>4. ASSUME NEW i \in DOMAIN queue, ReplayDeadLetter(i) PROVE DeliveryMove
    <3>1. ReplayMove(i)
      BY <1>1, <2>1, <2>4, ReplayedRow DEF ReplayDeadLetter, ReplayMove
    <3> QED
      BY <3>1 DEF DeliveryMove
  <2>5. CASE queue' = queue
    BY <2>1, <2>5, QuietIfSameQueue DEF SameBudgets, DeliveryMove
  <2>6. ASSUME NEW h \in Handlers, NEW task \in Tasks, Approve(h, task) \/ Reject(h, task)
        PROVE  queue' = queue
    BY <2>6 DEF Approve, Reject, Open, storeVars
  <2>7. ASSUME NEW h \in Handlers,
               ApproveResolve(h) \/ ApproveSave(h) \/ RejectResolve(h) \/ RejectSave(h)
        PROVE  queue' = queue
    BY <2>7
    DEF ApproveResolve, ApproveSave, RejectResolve, RejectSave, Resolve, resolve_approval,
        save_workflow, StaleRequest, storeVars
  <2> QED
    BY <1>3, <2>2, <2>3, <2>4, <2>5, <2>6, <2>7 DEF ControlStep, HandlerStep
<1>4. ASSUME NEW h \in Handlers, HandlerCrash(h) PROVE DeliveryMove
  <2>1. HoldsKept /\ queue' = queue /\ crashes' = crashes + 1 /\ stalls' = stalls
    BY <1>4 DEF HandlerCrash, storeVars, runtimeVars, localVars, HoldsKept, SameHold
  <2> QED
    BY <2>1, QuietIfSameQueue DEF DeliveryMove
<1>5. CASE UNCHANGED vars
  <2>1. HoldsKept /\ SameBudgets /\ queue' = queue
    BY <1>2, <1>5 DEF vars, storeVars, workerVars, runtimeVars, localVars
  <2> QED
    BY <2>1, QuietIfSameQueue DEF SameBudgets, DeliveryMove
<1> QED
  BY <1>3, <1>4, <1>5, WorkerMoves DEF Next

-----------------------------------------------------------------------------
(* Who holds a row *)

LEMMA ClaimsMember ==
  ASSUME NEW i
  PROVE  /\ \A w \in Workers : <<"worker", w>> \in Claims(i) <=> Keeps(w, i)
         /\ <<"row", i>> \in Claims(i) <=> ~Leased(queue[i])
         /\ \A x \in Claims(i) : x = <<"row", i>> \/ \E w \in Workers : x = <<"worker", w>>
  BY DEF Claims

LEMMA TriesMember ==
  ASSUME NEW i
  PROVE  /\ \A w \in Workers :
                <<"worker", w>> \in Tries(i) <=> Keeps(w, i) /\ ~IsDead(delivery[w])
         /\ <<"row", i>> \in Tries(i) <=> Claimable(i)
         /\ \A x \in Tries(i) : x = <<"row", i>> \/ \E w \in Workers : x = <<"worker", w>>
  BY DEF Tries

\* No claim on row i is new but those in Y.
LEMMA ClaimsStep ==
  ASSUME NEW i, NEW Y,
         \A w \in Workers : Keeps(w, i)' => Keeps(w, i) \/ <<"worker", w>> \in Y,
         ~Leased(queue'[i]) => ~Leased(queue[i]) \/ <<"row", i>> \in Y
  PROVE  Claims(i)' \subseteq Claims(i) \cup Y
  BY DEF Claims

LEMMA TriesStep ==
  ASSUME NEW i, NEW Y,
         \A w \in Workers : Keeps(w, i)' /\ ~IsDead(delivery'[w]) =>
            (Keeps(w, i) /\ ~IsDead(delivery[w])) \/ <<"worker", w>> \in Y,
         Claimable(i)' => Claimable(i) \/ <<"row", i>> \in Y
  PROVE  Tries(i)' \subseteq Tries(i) \cup Y
  BY DEF Tries

\* What a step does to the claims and the tries of a row it does not touch: nothing.
LEMMA UntouchedRow ==
  ASSUME NEW i, \A v \in Workers : Keeps(v, i)' <=> Keeps(v, i),
         \A v \in Workers : Keeps(v, i) => delivery'[v] = delivery[v],
         queue'[i] \in {queue[i], Reclaimed(queue[i])}, queue[i] \in QueueRow
  PROVE  Claims(i)' \subseteq Claims(i) /\ Tries(i)' \subseteq Tries(i)
<1>1. /\ ~Leased(queue'[i]) => ~Leased(queue[i])
      /\ Claimable(i)' => Claimable(i)
  BY DEF Leased, Claimable, Pendable, Reclaimed, QueueRow
<1>2. Claims(i)' \subseteq Claims(i) \cup {}
  BY <1>1, ClaimsStep
<1>3. Tries(i)' \subseteq Tries(i) \cup {}
  BY <1>1, TriesStep
<1> QED
  BY <1>2, <1>3

\* The same for a step of w about another row.
LEMMA OtherRow ==
  ASSUME NEW w \in Workers, NEW i \in DOMAIN queue, HoldsKeptBut(w), StoreTypeOK,
         ~Keeps(w, i), ~Keeps(w, i)', queue'[i] \in {queue[i], Reclaimed(queue[i])}
  PROVE  Claims(i)' \subseteq Claims(i) /\ Tries(i)' \subseteq Tries(i)
<1>1. \A v \in Workers : Keeps(v, i)' <=> Keeps(v, i)
  BY DEF HoldsKeptBut, SameHold, Keeps
<1>2. \A v \in Workers : Keeps(v, i) => delivery'[v] = delivery[v]
  BY DEF HoldsKeptBut, SameHold, Keeps
<1> QED
  BY <1>1, <1>2, RowType, UntouchedRow

\* And for a step that changes no holder.
LEMMA HoldersUntouched ==
  ASSUME NEW i, HoldsKept
  PROVE  /\ \A v \in Workers : Keeps(v, i)' <=> Keeps(v, i)
         /\ \A v \in Workers : Keeps(v, i) => delivery'[v] = delivery[v]
  BY DEF HoldsKept, SameHold, Keeps

LEMMA QuietRow ==
  ASSUME NEW i \in DOMAIN queue, HoldsKept, StoreTypeOK, queue'[i] = queue[i]
  PROVE  Claims(i)' \subseteq Claims(i) /\ Tries(i)' \subseteq Tries(i)
  BY HoldersUntouched, RowType, UntouchedRow

\* A row that is added is nobody's yet.
LEMMA FreshRow ==
  ASSUME HoldsRow, HoldsKept, NEW i, i \notin DOMAIN queue
  PROVE  Claims(i)' \subseteq {<<"row", i>>} /\ Tries(i)' \subseteq {<<"row", i>>}
<1>1. \A w \in Workers : ~Keeps(w, i)
  BY DEF HoldsRow, Keeps, KeepPC, RuntimePC
<1>2. \A w \in Workers : ~Keeps(w, i)'
  BY <1>1, HoldersUntouched
<1> QED
  BY <1>2 DEF Claims, Tries

-----------------------------------------------------------------------------
(* The bounds hold step by step *)

BudgetsGrow ==
    /\ {crashes, stalls, crashes', stalls'} \subseteq Nat
    /\ crashes <= crashes' /\ stalls <= stalls'

LEMMA MoveBudgets ==
  ASSUME BudgetsTypeOK, DeliveryMove
  PROVE  BudgetsGrow
<1>1. crashes' \in {crashes, crashes + 1} /\ stalls' \in {stalls, stalls + 1}
  BY DEF DeliveryMove, QuietMove, ClaimMove, ReportMove, DieMove, ExpireMove, RenewMove,
         ReplayMove, SameBudgets
<1> QED
  BY <1>1, SMT DEF BudgetsTypeOK, BudgetsGrow

LEMMA CountTypes ==
  ASSUME NEW i, ClaimsBounded(i), TriesBounded(i)
  PROVE  Cardinality(Claims(i)) \in Nat /\ Cardinality(Tries(i)) \in Nat
  BY FS_CardinalityType DEF ClaimsBounded, TriesBounded

\* A row that gains no claim and no try.
LEMMA BoundsKept ==
  ASSUME StoreTypeOK, StoreTypeOK', BudgetsGrow, NEW i \in DOMAIN queue, i \in DOMAIN queue',
         ClaimsBounded(i), TriesBounded(i),
         Claims(i)' \subseteq Claims(i), Tries(i)' \subseteq Tries(i),
         queue'[i].attempts = queue[i].attempts
  PROVE  ClaimsBounded(i)' /\ TriesBounded(i)'
<1>1. /\ IsFiniteSet(Claims(i)') /\ IsFiniteSet(Tries(i)')
      /\ Cardinality(Claims(i)') \in Nat /\ Cardinality(Tries(i)') \in Nat
      /\ Cardinality(Claims(i)') <= Cardinality(Claims(i))
      /\ Cardinality(Tries(i)') <= Cardinality(Tries(i))
  BY Shrink DEF ClaimsBounded, TriesBounded
<1>2. queue[i].attempts \in Nat
  BY RowType DEF QueueRow
<1>3. Cardinality(Claims(i)) \in Nat /\ Cardinality(Tries(i)) \in Nat
  BY CountTypes
<1>4. MaxQueueAttempts \in Nat
  BY SQLiteStoreAssumption
<1>5. Cardinality(Claims(i)') <= 1 + stalls'
  BY <1>1, <1>3, SMT DEF ClaimsBounded, BudgetsGrow
<1>6. queue'[i].attempts + Cardinality(Tries(i)') <= MaxQueueAttempts + crashes' + stalls'
  BY <1>1, <1>2, <1>3, <1>4, SMT DEF TriesBounded, BudgetsGrow
<1> QED
  BY <1>1, <1>5, <1>6 DEF ClaimsBounded, TriesBounded

LEMMA FreshBounds ==
  ASSUME HoldsRow, HoldsKept, BudgetsGrow, NEW i \in DOMAIN queue', i \notin DOMAIN queue,
         queue'[i].attempts = 0
  PROVE  ClaimsBounded(i)' /\ TriesBounded(i)'
<1>1. Claims(i)' \subseteq {<<"row", i>>} /\ Tries(i)' \subseteq {<<"row", i>>}
  BY FreshRow
<1>2. /\ IsFiniteSet(Claims(i)') /\ IsFiniteSet(Tries(i)')
      /\ Cardinality(Claims(i)') \in Nat /\ Cardinality(Tries(i)') \in Nat
      /\ Cardinality(Claims(i)') <= 1 /\ Cardinality(Tries(i)') <= 1
  BY <1>1, OneElement
<1>3. MaxQueueAttempts \in Nat \ {0}
  BY SQLiteStoreAssumption
<1>4. Cardinality(Claims(i)') <= 1 + stalls'
  BY <1>2, SMT DEF BudgetsGrow
<1>5. queue'[i].attempts + Cardinality(Tries(i)') <= MaxQueueAttempts + crashes' + stalls'
  BY <1>2, <1>3, SMT DEF BudgetsGrow
<1> QED
  BY <1>2, <1>4, <1>5 DEF ClaimsBounded, TriesBounded

\* The claim on a row goes from the row to the worker that takes it; so does the try,
\* unless the worker got the last attempt.
LEMMA ClaimBounds ==
  ASSUME StoreTypeOK, StoreTypeOK', BudgetsGrow, NEW w \in Workers, NEW i \in DOMAIN queue,
         ClaimMove(w, i), ClaimsBounded(i), TriesBounded(i)
  PROVE  ClaimsBounded(i)' /\ TriesBounded(i)'
<1>1. /\ queue[i].attempts \in Nat /\ MaxQueueAttempts \in Nat \ {0}
      /\ Cardinality(Claims(i)) \in Nat /\ Cardinality(Tries(i)) \in Nat
      /\ stalls \in Nat /\ crashes \in Nat /\ stalls' = stalls /\ crashes' = crashes
  BY RowType, CountTypes, SQLiteStoreAssumption DEF QueueRow, BudgetsGrow, ClaimMove, SameBudgets
<1>2. /\ <<"row", i>> \in Claims(i) /\ <<"row", i>> \in Tries(i)
      /\ <<"row", i>> \notin Claims(i)' /\ <<"row", i>> \notin Tries(i)'
  <2>1. ~Leased(queue[i]) /\ Claimable(i)
    BY RowType DEF ClaimMove, Pendable, Leased, Claimable, QueueRow
  <2>2. Leased(queue'[i]) /\ Keeps(w, i)'
    BY DEF ClaimMove, Keeps
  <2>3. ~Claimable(i)'
    BY <2>2 DEF Claimable, Pendable, Leased
  <2> QED
    BY <2>1, <2>2, <2>3, ClaimsMember, TriesMember DEF Claims, Tries
<1>3. \A v \in Workers \ {w} : Keeps(v, i)' => Keeps(v, i) /\ delivery'[v] = delivery[v]
  BY DEF ClaimMove, HoldsKeptBut, SameHold, Keeps
<1>4. Claims(i)' \subseteq (Claims(i) \ {<<"row", i>>}) \cup {<<"worker", w>>}
  <2>1. Claims(i)' \subseteq Claims(i) \cup {<<"worker", w>>}
    BY <1>2, <1>3, ClaimsStep, ClaimsMember DEF ClaimMove
  <2> QED
    BY <1>2, <2>1
<1>5. /\ IsFiniteSet(Claims(i)') /\ Cardinality(Claims(i)') \in Nat
      /\ Cardinality(Claims(i)') <= Cardinality(Claims(i))
  BY <1>2, <1>4, Exchange DEF ClaimsBounded
<1>6. ClaimsBounded(i)'
  BY <1>1, <1>5, SMT DEF ClaimsBounded
<1>7. CASE IsDead(delivery[w])'
  <2>1. Tries(i)' \subseteq Tries(i) \cup {}
    BY <1>2, <1>3, <1>7, TriesStep, TriesMember DEF ClaimMove, Claimable, Pendable, Leased
  <2>2. Tries(i)' \subseteq Tries(i) \ {<<"row", i>>}
    BY <1>2, <2>1
  <2>3. /\ IsFiniteSet(Tries(i)') /\ Cardinality(Tries(i)') \in Nat
        /\ Cardinality(Tries(i)') <= Cardinality(Tries(i)) - 1
    BY <1>2, <2>2, Discard DEF TriesBounded
  <2>4. queue'[i].attempts = queue[i].attempts + 1
    BY DEF ClaimMove
  <2>5. queue'[i].attempts + Cardinality(Tries(i)') <= MaxQueueAttempts + crashes' + stalls'
    BY <1>1, <2>3, <2>4, SMT DEF TriesBounded
  <2> QED
    BY <1>6, <2>3, <2>5 DEF TriesBounded
<1>8. CASE ~IsDead(delivery[w])'
  <2>1. Tries(i)' \subseteq Claims(i)'
    BY <1>2 DEF Tries, Claims
  <2>2. /\ IsFiniteSet(Tries(i)') /\ Cardinality(Tries(i)') \in Nat
        /\ Cardinality(Tries(i)') <= Cardinality(Claims(i)')
    BY <1>5, <2>1, Shrink
  <2>3. queue'[i].attempts < MaxQueueAttempts
    BY <1>1, <1>8, SMT DEF ClaimMove, IsDead
  <2>4. queue'[i].attempts = queue[i].attempts + 1
    BY DEF ClaimMove
  <2>5. queue'[i].attempts + Cardinality(Tries(i)') <= MaxQueueAttempts + crashes' + stalls'
    BY <1>1, <1>5, <1>6, <2>2, <2>3, <2>4, SMT DEF ClaimsBounded
  <2> QED
    BY <1>6, <2>2, <2>5 DEF TriesBounded
<1> QED
  BY <1>6, <1>7, <1>8

\* A report gives the claim and the try of its worker back to the row, or drops them.
LEMMA ReportBounds ==
  ASSUME StoreTypeOK, StoreTypeOK', BudgetsGrow, NEW w \in Workers, NEW i \in DOMAIN queue,
         delivery[w].id = i, i \in DOMAIN queue', ReportMove(w),
         ClaimsBounded(i), TriesBounded(i)
  PROVE  ClaimsBounded(i)' /\ TriesBounded(i)'
<1>1. /\ queue[i].attempts \in Nat /\ queue'[i].attempts = queue[i].attempts
      /\ Cardinality(Claims(i)) \in Nat /\ Cardinality(Tries(i)) \in Nat
      /\ stalls \in Nat /\ crashes \in Nat /\ stalls' = stalls /\ crashes' = crashes
      /\ MaxQueueAttempts \in Nat
  BY RowType, CountTypes, SQLiteStoreAssumption
  DEF QueueRow, BudgetsGrow, ReportMove, SameBudgets
<1>2. /\ Keeps(w, i) /\ ~Keeps(w, i)'
      /\ \A v \in Workers : Keeps(v, i)' => Keeps(v, i) /\ delivery'[v] = delivery[v]
  BY DEF ReportMove, Keeps, HoldsKeptBut, SameHold
<1>3. Claims(i)' \subseteq (Claims(i) \ {<<"worker", w>>}) \cup {<<"row", i>>}
  <2>1. Claims(i)' \subseteq Claims(i) \cup {<<"row", i>>}
    BY <1>2, ClaimsStep
  <2>2. <<"worker", w>> \notin Claims(i)'
    BY <1>2 DEF Claims
  <2> QED
    BY <2>1, <2>2
<1>4. /\ IsFiniteSet(Claims(i)') /\ Cardinality(Claims(i)') \in Nat
      /\ Cardinality(Claims(i)') <= Cardinality(Claims(i))
  BY <1>2, <1>3, ClaimsMember, Exchange DEF ClaimsBounded
<1>5. /\ IsFiniteSet(Tries(i)') /\ Cardinality(Tries(i)') \in Nat
      /\ Cardinality(Tries(i)') <= Cardinality(Tries(i))
  <2>1. CASE ~IsDead(delivery[w])
    <3>1. Tries(i)' \subseteq Tries(i) \cup {<<"row", i>>}
      BY <1>2, TriesStep
    <3>2. <<"worker", w>> \notin Tries(i)'
      BY <1>2 DEF Tries
    <3>3. Tries(i)' \subseteq (Tries(i) \ {<<"worker", w>>}) \cup {<<"row", i>>}
      BY <3>1, <3>2
    <3> QED
      BY <1>2, <2>1, <3>3, TriesMember, Exchange DEF TriesBounded
  <2>2. CASE IsDead(delivery[w])
    <3>1. ~Claimable(i)'
      BY <2>2 DEF ReportMove, Claimable, Pendable
    <3>2. Tries(i)' \subseteq Tries(i) \cup {}
      BY <1>2, <3>1, TriesStep
    <3> QED
      BY <3>2, Shrink DEF TriesBounded
  <2> QED
    BY <2>1, <2>2
<1>6. Cardinality(Claims(i)') <= 1 + stalls'
  BY <1>1, <1>4, SMT DEF ClaimsBounded
<1>7. queue'[i].attempts + Cardinality(Tries(i)') <= MaxQueueAttempts + crashes' + stalls'
  BY <1>1, <1>5, SMT DEF TriesBounded
<1> QED
  BY <1>4, <1>5, <1>6, <1>7 DEF ClaimsBounded, TriesBounded

\* What a worker that dies held is claimable once its lease has passed.
LEMMA DieBounds ==
  ASSUME StoreTypeOK, StoreTypeOK', BudgetsGrow, NEW w \in Workers, NEW i \in DOMAIN queue,
         delivery[w].id = i, i \in DOMAIN queue', DieMove(w),
         ClaimsBounded(i), TriesBounded(i)
  PROVE  ClaimsBounded(i)' /\ TriesBounded(i)'
<1>1. /\ queue[i].attempts \in Nat /\ queue'[i].attempts = queue[i].attempts
      /\ Cardinality(Claims(i)) \in Nat /\ Cardinality(Tries(i)) \in Nat
      /\ stalls \in Nat /\ crashes \in Nat /\ stalls' = stalls /\ crashes' = crashes + 1
      /\ MaxQueueAttempts \in Nat
  BY RowType, CountTypes, SQLiteStoreAssumption DEF QueueRow, BudgetsGrow, DieMove
<1>2. \A v \in Workers : Keeps(v, i)' => Keeps(v, i) /\ delivery'[v] = delivery[v]
  BY DEF DieMove, Keeps, HoldsKeptBut, SameHold
<1>3. Claims(i)' \subseteq Claims(i) \cup {}
  BY <1>2, ClaimsStep DEF DieMove
<1>4. Tries(i)' \subseteq Tries(i) \cup {<<"row", i>>}
  BY <1>2, TriesStep
<1>5. /\ IsFiniteSet(Claims(i)') /\ Cardinality(Claims(i)') \in Nat
      /\ Cardinality(Claims(i)') <= Cardinality(Claims(i))
  BY <1>3, Shrink DEF ClaimsBounded
<1>6. /\ IsFiniteSet(Tries(i)') /\ Cardinality(Tries(i)') \in Nat
      /\ Cardinality(Tries(i)') <= Cardinality(Tries(i)) + 1
  BY <1>4, Grow DEF TriesBounded
<1>7. Cardinality(Claims(i)') <= 1 + stalls'
  BY <1>1, <1>5, SMT DEF ClaimsBounded
<1>8. queue'[i].attempts + Cardinality(Tries(i)') <= MaxQueueAttempts + crashes' + stalls'
  BY <1>1, <1>6, SMT DEF TriesBounded
<1> QED
  BY <1>5, <1>6, <1>7, <1>8 DEF ClaimsBounded, TriesBounded

\* A lease that passes frees the row, and costs a stall unless nobody is at work on it.
LEMMA ExpireBounds ==
  ASSUME StoreTypeOK, StoreTypeOK', BudgetsGrow, NEW i \in DOMAIN queue, i \in DOMAIN queue',
         ExpireMove(i), ClaimsBounded(i), TriesBounded(i)
  PROVE  ClaimsBounded(i)' /\ TriesBounded(i)'
<1>1. /\ queue[i].attempts \in Nat /\ queue'[i].attempts = queue[i].attempts
      /\ Cardinality(Claims(i)) \in Nat /\ Cardinality(Tries(i)) \in Nat
      /\ stalls \in Nat /\ crashes \in Nat /\ crashes' = crashes
      /\ MaxQueueAttempts \in Nat
  BY RowType, CountTypes, SQLiteStoreAssumption DEF QueueRow, BudgetsGrow, ExpireMove
<1>2. /\ \A v \in Workers : Keeps(v, i)' <=> Keeps(v, i)
      /\ \A v \in Workers : Keeps(v, i) => delivery'[v] = delivery[v]
  BY HoldersUntouched DEF ExpireMove
<1>3. CASE stalls' = stalls + 1
  <2>1. Claims(i)' \subseteq Claims(i) \cup {<<"row", i>>}
    BY <1>2, ClaimsStep
  <2>2. Tries(i)' \subseteq Tries(i) \cup {<<"row", i>>}
    BY <1>2, TriesStep
  <2>3. /\ IsFiniteSet(Claims(i)') /\ Cardinality(Claims(i)') \in Nat
        /\ Cardinality(Claims(i)') <= Cardinality(Claims(i)) + 1
    BY <2>1, Grow DEF ClaimsBounded
  <2>4. /\ IsFiniteSet(Tries(i)') /\ Cardinality(Tries(i)') \in Nat
        /\ Cardinality(Tries(i)') <= Cardinality(Tries(i)) + 1
    BY <2>2, Grow DEF TriesBounded
  <2>5. Cardinality(Claims(i)') <= 1 + stalls'
    BY <1>1, <1>3, <2>3, SMT DEF ClaimsBounded
  <2>6. queue'[i].attempts + Cardinality(Tries(i)') <= MaxQueueAttempts + crashes' + stalls'
    BY <1>1, <1>3, <2>4, SMT DEF TriesBounded
  <2> QED
    BY <2>3, <2>4, <2>5, <2>6 DEF ClaimsBounded, TriesBounded
<1>4. CASE stalls' = stalls /\ \A w \in Workers : ~Keeps(w, i)
  <2>1. Claims(i)' \subseteq {<<"row", i>>}
    BY <1>2, <1>4 DEF Claims
  <2>2. Claimable(i)
    BY <1>4 DEF ExpireMove, Claimable
  <2>3. Tries(i)' \subseteq Tries(i) \cup {}
    BY <1>2, <2>2, TriesStep
  <2>4. /\ IsFiniteSet(Claims(i)') /\ Cardinality(Claims(i)') \in Nat
        /\ Cardinality(Claims(i)') <= 1
    BY <2>1, OneElement
  <2>5. /\ IsFiniteSet(Tries(i)') /\ Cardinality(Tries(i)') \in Nat
        /\ Cardinality(Tries(i)') <= Cardinality(Tries(i))
    BY <2>3, Shrink DEF TriesBounded
  <2>6. Cardinality(Claims(i)') <= 1 + stalls'
    BY <1>1, <1>4, <2>4, SMT
  <2>7. queue'[i].attempts + Cardinality(Tries(i)') <= MaxQueueAttempts + crashes' + stalls'
    BY <1>1, <1>4, <2>5, SMT DEF TriesBounded
  <2> QED
    BY <2>4, <2>5, <2>6, <2>7 DEF ClaimsBounded, TriesBounded
<1> QED
  BY <1>3, <1>4 DEF ExpireMove

LEMMA RenewBounds ==
  ASSUME StoreTypeOK, StoreTypeOK', BudgetsGrow, NEW w \in Workers, NEW i \in DOMAIN queue,
         delivery[w].id = i, i \in DOMAIN queue', RenewMove(w),
         ClaimsBounded(i), TriesBounded(i)
  PROVE  ClaimsBounded(i)' /\ TriesBounded(i)'
<1>1. /\ \A v \in Workers : Keeps(v, i)' <=> Keeps(v, i)
      /\ \A v \in Workers : Keeps(v, i) => delivery'[v] = delivery[v]
  BY HoldersUntouched DEF RenewMove
<1>2. /\ ~Leased(queue'[i]) => ~Leased(queue[i])
      /\ Claimable(i)' => Claimable(i)
  BY <1>1 DEF RenewMove, Leased, Claimable, Pendable
<1>3. Claims(i)' \subseteq Claims(i) \cup {} /\ Tries(i)' \subseteq Tries(i) \cup {}
  BY <1>1, <1>2, ClaimsStep, TriesStep
<1>4. queue'[i].attempts = queue[i].attempts
  BY DEF RenewMove
<1> QED
  BY <1>3, <1>4, BoundsKept

\* A replayed row starts from zero, with the workers that still hold it.
LEMMA ReplayBounds ==
  ASSUME StoreTypeOK, StoreTypeOK', BudgetsGrow, NEW i \in DOMAIN queue, i \in DOMAIN queue',
         ReplayMove(i), ClaimsBounded(i)
  PROVE  ClaimsBounded(i)' /\ TriesBounded(i)'
<1>1. \A v \in Workers : Keeps(v, i)' <=> Keeps(v, i)
  BY HoldersUntouched DEF ReplayMove
<1>2. ~Leased(queue[i])
  BY DEF ReplayMove, Leased
<1>3. Claims(i)' \subseteq Claims(i) \cup {}
  BY <1>1, <1>2, ClaimsStep
<1>4. Tries(i)' \subseteq Claims(i)
  BY <1>1, <1>2 DEF Tries, Claims
<1>5. /\ IsFiniteSet(Claims(i)') /\ Cardinality(Claims(i)') \in Nat
      /\ Cardinality(Claims(i)') <= Cardinality(Claims(i))
      /\ IsFiniteSet(Tries(i)') /\ Cardinality(Tries(i)') \in Nat
      /\ Cardinality(Tries(i)') <= Cardinality(Claims(i))
  BY <1>3, <1>4, Shrink DEF ClaimsBounded
<1>6. /\ queue'[i].attempts = 0 /\ MaxQueueAttempts \in Nat \ {0}
      /\ Cardinality(Claims(i)) \in Nat
      /\ stalls \in Nat /\ crashes \in Nat /\ stalls' = stalls /\ crashes' = crashes
  BY FS_CardinalityType, SQLiteStoreAssumption
  DEF ClaimsBounded, BudgetsGrow, ReplayMove, SameBudgets
<1>7. Cardinality(Claims(i)') <= 1 + stalls'
  BY <1>5, <1>6, SMT DEF ClaimsBounded
<1>8. queue'[i].attempts + Cardinality(Tries(i)') <= MaxQueueAttempts + crashes' + stalls'
  BY <1>5, <1>6, SMT DEF ClaimsBounded
<1> QED
  BY <1>5, <1>7, <1>8 DEF ClaimsBounded, TriesBounded

LEMMA DeliveryInvNext ==
  ASSUME TypeOK, TypeOK', DeliveryInv, [Next]_vars
  PROVE  DeliveryInv'
<1>1. StoreTypeOK /\ StoreTypeOK' /\ HoldsRow /\ BudgetsTypeOK /\ DeliveryMove
  BY TypeParts, DeliveryMoves DEF TypeOK
<1>2. BudgetsGrow
  BY <1>1, MoveBudgets
<1> SUFFICES ASSUME NEW i \in DOMAIN queue'
             PROVE  ClaimsBounded(i)' /\ TriesBounded(i)'
  BY DEF DeliveryInv
<1> USE DEF DeliveryInv
<1>3. ASSUME i \in DOMAIN queue, Claims(i)' \subseteq Claims(i), Tries(i)' \subseteq Tries(i),
             queue'[i].attempts = queue[i].attempts
      PROVE  ClaimsBounded(i)' /\ TriesBounded(i)'
  BY <1>1, <1>2, <1>3, BoundsKept
<1>4. CASE QuietMove
  <2>1. CASE i \in DOMAIN queue
    BY <1>1, <1>3, <1>4, <2>1, QuietRow DEF QuietMove
  <2>2. CASE i \notin DOMAIN queue
    BY <1>1, <1>2, <1>4, <2>2, FreshBounds DEF QuietMove
  <2> QED
    BY <2>1, <2>2
<1>5. ASSUME NEW w \in Workers, NEW j \in DOMAIN queue, ClaimMove(w, j)
      PROVE  ClaimsBounded(i)' /\ TriesBounded(i)'
  <2>1. i \in DOMAIN queue
    BY <1>5 DEF ClaimMove, SameDomain
  <2>2. CASE i = j
    BY <1>1, <1>2, <1>5, <2>2, ClaimBounds
  <2>3. CASE i # j
    <3>1. ~Keeps(w, i) /\ ~Keeps(w, i)' /\ queue'[i] = Reclaimed(queue[i]) /\ HoldsKeptBut(w)
      BY <1>5, <2>1, <2>3 DEF ClaimMove, Keeps
    <3>2. queue'[i].attempts = queue[i].attempts
      BY <1>1, <2>1, <3>1, RowType DEF Reclaimed, QueueRow
    <3> QED
      BY <1>1, <1>3, <2>1, <3>1, <3>2, OtherRow
  <2> QED
    BY <2>2, <2>3
<1>6. ASSUME NEW w \in Workers, ReportMove(w) \/ DieMove(w)
      PROVE  ClaimsBounded(i)' /\ TriesBounded(i)'
  <2>1. i \in DOMAIN queue /\ HoldsKeptBut(w) /\ ~Keeps(w, i)'
    BY <1>6 DEF ReportMove, DieMove, OnlyRow, SameDomain, Keeps
  <2>2. CASE delivery[w].id = i
    BY <1>1, <1>2, <1>6, <2>1, <2>2, ReportBounds, DieBounds
  <2>3. CASE delivery[w].id # i
    <3>1. queue'[i] = queue[i] /\ ~Keeps(w, i)
      BY <1>6, <2>1, <2>3 DEF ReportMove, DieMove, OnlyRow, Keeps
    <3> QED
      BY <1>1, <1>3, <2>1, <3>1, OtherRow
  <2> QED
    BY <2>2, <2>3
<1>7. ASSUME NEW j \in DOMAIN queue, ExpireMove(j) \/ ReplayMove(j)
      PROVE  ClaimsBounded(i)' /\ TriesBounded(i)'
  <2>1. i \in DOMAIN queue /\ HoldsKept /\ (i # j => queue'[i] = queue[i])
    BY <1>7 DEF ExpireMove, ReplayMove, OnlyRow, SameDomain
  <2>2. CASE i = j
    BY <1>1, <1>2, <1>7, <2>1, <2>2, ExpireBounds, ReplayBounds
  <2>3. CASE i # j
    BY <1>1, <1>3, <2>1, <2>3, QuietRow
  <2> QED
    BY <2>2, <2>3
<1>8. ASSUME NEW w \in Workers, RenewMove(w)
      PROVE  ClaimsBounded(i)' /\ TriesBounded(i)'
  <2>1. i \in DOMAIN queue /\ HoldsKept /\ (delivery[w].id # i => queue'[i] = queue[i])
    BY <1>8 DEF RenewMove, OnlyRow, SameDomain
  <2>2. CASE delivery[w].id = i
    BY <1>1, <1>2, <1>8, <2>1, <2>2, RenewBounds
  <2>3. CASE delivery[w].id # i
    BY <1>1, <1>3, <2>1, <2>3, QuietRow
  <2> QED
    BY <2>2, <2>3
<1> QED
  BY <1>1, <1>4, <1>5, <1>6, <1>7, <1>8 DEF DeliveryMove

LEMMA DeliveryInvInit == Init => DeliveryInv
<1> SUFFICES ASSUME Init PROVE DeliveryInv
  OBVIOUS
<1>1. DOMAIN queue = {}
  BY DEF Init, StoreInit
<1> QED
  BY <1>1 DEF DeliveryInv

\* A row has at most one worker that may report on it for every lease that passed under
\* a live worker, plus one (claim, acknowledge, retry_or_dead_letter): with no stall,
\* nobody but its holder can acknowledge or retry a leased row.
THEOREM DeliveryInvHolds == Spec => []DeliveryInv
<1>1. Init => DeliveryInv
  BY DeliveryInvInit
<1>2. TypeOK /\ TypeOK' /\ DeliveryInv /\ [Next]_vars => DeliveryInv'
  BY DeliveryInvNext
<1> QED
  BY <1>1, <1>2, TypeCorrect, PTL DEF Spec

\* No row is delivered more than max_attempts times plus once for every crash and
\* stall, although retry_or_dead_letter never looks at the row's own count.
THEOREM AttemptsBoundedHolds == Spec => []AttemptsBounded
<1>1. TypeOK /\ DeliveryInv => AttemptsBounded
  <2> SUFFICES ASSUME TypeOK, DeliveryInv, NEW i \in DOMAIN queue
               PROVE  queue[i].attempts <= MaxQueueAttempts + crashes + stalls
    BY DEF AttemptsBounded
  <2>1. TriesBounded(i) /\ Cardinality(Tries(i)) \in Nat
    BY FS_CardinalityType DEF DeliveryInv, TriesBounded
  <2>2. /\ queue[i].attempts \in Nat /\ MaxQueueAttempts \in Nat
        /\ crashes \in Nat /\ stalls \in Nat
    BY TypeParts, RowType, SQLiteStoreAssumption DEF QueueRow, BudgetsTypeOK
  <2> QED
    BY <2>1, <2>2, SMT DEF TriesBounded
<1> QED
  BY <1>1, DeliveryInvHolds, TypeCorrect, PTL

-----------------------------------------------------------------------------
(* The slots of a task *)


\* Where a worker is going to act on its task, put its row back, or queue a new one.
SlotPC == (RuntimePC \ {"create_approval"}) \cup {"retry", "perm_ack", "enqueue"}

\* With a call c, a worker that has carried c out and not recorded it has no slot.
WorkerSlot(task, c, w) ==
    /\ Task(w) = task
    /\ wpc[w] \in SlotPC \/ (wpc[w] = "ack" /\ state[w].status = "QUEUED")
    /\ ~(wpc[w] = "save_result" /\ call[w] = c)

RowSlot(task, i) == queue[i].task_id = task /\ (queue[i].status = "DEAD" \/ Claimable(i))

RequestSlot(task, h) == hpc[h] = "approve_enqueue" /\ htask[h] = task

Waiting(task) == workflows[task].status = "WAITING_FOR_APPROVAL"

Slots(task, c) ==
    {<<"worker", w>> : w \in {v \in Workers : WorkerSlot(task, c, v)}}
        \cup {<<"row", i>> : i \in {j \in DOMAIN queue : RowSlot(task, j)}}
        \cup {<<"request", h>> : h \in {g \in Handlers : RequestSlot(task, g)}}
        \cup {x \in {<<"waiting", task>>} : Waiting(task)}

\* The workers about to carry c out.
Actors(task, c) ==
    {<<"worker", w>> : w \in {v \in Workers : wpc[v] = "backend" /\ CurrentKey(v) = <<task, c>>}}

Disturbances == crashes + stalls

SlotsBounded(task) ==
    IsFiniteSet(Slots(task, NoCall)) /\ Cardinality(Slots(task, NoCall)) <= 1 + Disturbances

\* Who may still carry c out: whoever has a slot until c is in the ledger, and then
\* those that looked before it was.
Candidates(task, c) ==
    IF tool_results[<<task, c>>] = NoResult THEN Slots(task, c) ELSE Actors(task, c)

EffectsBounded(task, c) ==
    /\ IsFiniteSet(Candidates(task, c))
    /\ effects[<<task, c>>] + Cardinality(Candidates(task, c)) <= 1 + Disturbances + timeouts

\* A delivery is for the task of its row.
HeldRowTask == \A w \in Workers : wpc[w] # "idle" => queue[delivery[w].id].task_id = Task(w)

AskingWaits ==
    \A w \in Workers : wpc[w] = "create_approval" => state[w].status = "WAITING_FOR_APPROVAL"

EffectsOnCreated == \A task \in Tasks \ created, c \in Calls : effects[<<task, c>>] = 0

SlotInv ==
    /\ HeldRowTask
    /\ AskingWaits
    /\ EffectsOnCreated
    /\ \A task \in Tasks : SlotsBounded(task)
    /\ \A task \in Tasks, c \in Calls : EffectsBounded(task, c)

-----------------------------------------------------------------------------
(* Passing a slot on *)

\* No slot of the task but those in Y is new, and those in X are gone.
LEMMA SlotsStep ==
  ASSUME NEW task, NEW c, NEW X, NEW Y,
         \A w \in Workers : WorkerSlot(task, c, w)' =>
            <<"worker", w>> \in Y \/ (WorkerSlot(task, c, w) /\ <<"worker", w>> \notin X),
         \A i \in DOMAIN queue' : RowSlot(task, i)' =>
            \/ <<"row", i>> \in Y
            \/ i \in DOMAIN queue /\ RowSlot(task, i) /\ <<"row", i>> \notin X,
         \A h \in Handlers : RequestSlot(task, h)' =>
            <<"request", h>> \in Y \/ (RequestSlot(task, h) /\ <<"request", h>> \notin X),
         Waiting(task)' =>
            <<"waiting", task>> \in Y \/ (Waiting(task) /\ <<"waiting", task>> \notin X)
  PROVE  Slots(task, c)' \subseteq (Slots(task, c) \ X) \cup Y
<1> SUFFICES ASSUME NEW x \in Slots(task, c)', x \notin Y
             PROVE  x \in Slots(task, c) /\ x \notin X
  OBVIOUS
<1>1. CASE \E w \in Workers : x = <<"worker", w>> /\ WorkerSlot(task, c, w)'
  BY <1>1 DEF Slots
<1>2. CASE \E i \in DOMAIN queue' : x = <<"row", i>> /\ RowSlot(task, i)'
  BY <1>2 DEF Slots
<1>3. CASE \E h \in Handlers : x = <<"request", h>> /\ RequestSlot(task, h)'
  BY <1>3 DEF Slots
<1>4. CASE x = <<"waiting", task>> /\ Waiting(task)'
  BY <1>4 DEF Slots
<1> QED
  BY <1>1, <1>2, <1>3, <1>4 DEF Slots

LEMMA SlotsMember ==
  ASSUME NEW task, NEW c
  PROVE  /\ \A w \in Workers : WorkerSlot(task, c, w) => <<"worker", w>> \in Slots(task, c)
         /\ \A i \in DOMAIN queue : RowSlot(task, i) => <<"row", i>> \in Slots(task, c)
         /\ \A h \in Handlers : RequestSlot(task, h) => <<"request", h>> \in Slots(task, c)
         /\ Waiting(task) => <<"waiting", task>> \in Slots(task, c)
  BY DEF Slots

SlotsKept(task, c) == Slots(task, c)' \subseteq Slots(task, c)

SlotPassed(task, c) ==
    \E x \in Slots(task, c) : \E y :
        Slots(task, c)' \subseteq (Slots(task, c) \ {x}) \cup {y}

SlotMade(task, c) == \E y : Slots(task, c)' \subseteq Slots(task, c) \cup {y}

\* One slot x goes and at most y comes: what SlotsStep says when x and y are tokens.
LEMMA SlotsSwap ==
  ASSUME NEW task, NEW c, NEW x, NEW y,
         \A w \in Workers : WorkerSlot(task, c, w)' =>
            <<"worker", w>> = y \/ (WorkerSlot(task, c, w) /\ <<"worker", w>> # x),
         \A i \in DOMAIN queue' : RowSlot(task, i)' =>
            <<"row", i>> = y \/ (i \in DOMAIN queue /\ RowSlot(task, i) /\ <<"row", i>> # x),
         \A h \in Handlers : RequestSlot(task, h)' =>
            <<"request", h>> = y \/ (RequestSlot(task, h) /\ <<"request", h>> # x),
         Waiting(task)' => <<"waiting", task>> = y \/ (Waiting(task) /\ <<"waiting", task>> # x)
  PROVE  Slots(task, c)' \subseteq (Slots(task, c) \ {x}) \cup {y}
<1> DEFINE X == {x}
           Y == {y}
<1>1. /\ \A w \in Workers : WorkerSlot(task, c, w)' =>
            <<"worker", w>> \in Y \/ (WorkerSlot(task, c, w) /\ <<"worker", w>> \notin X)
      /\ \A i \in DOMAIN queue' : RowSlot(task, i)' =>
            \/ <<"row", i>> \in Y
            \/ i \in DOMAIN queue /\ RowSlot(task, i) /\ <<"row", i>> \notin X
      /\ \A h \in Handlers : RequestSlot(task, h)' =>
            <<"request", h>> \in Y \/ (RequestSlot(task, h) /\ <<"request", h>> \notin X)
      /\ Waiting(task)' =>
            <<"waiting", task>> \in Y \/ (Waiting(task) /\ <<"waiting", task>> \notin X)
  OBVIOUS
<1> HIDE DEF X, Y
<1>2. Slots(task, c)' \subseteq (Slots(task, c) \ X) \cup Y
  BY <1>1, SlotsStep
<1> QED
  BY <1>2 DEF X, Y

\* One slot x goes and none comes.
LEMMA SlotsDrop ==
  ASSUME NEW task, NEW c, NEW x,
         \A w \in Workers : WorkerSlot(task, c, w)' =>
            WorkerSlot(task, c, w) /\ <<"worker", w>> # x,
         \A i \in DOMAIN queue' : RowSlot(task, i)' =>
            i \in DOMAIN queue /\ RowSlot(task, i) /\ <<"row", i>> # x,
         \A h \in Handlers : RequestSlot(task, h)' =>
            RequestSlot(task, h) /\ <<"request", h>> # x,
         Waiting(task)' => Waiting(task) /\ <<"waiting", task>> # x
  PROVE  Slots(task, c)' \subseteq Slots(task, c) \ {x}
<1> DEFINE X == {x}
           Y == {}
<1>1. /\ \A w \in Workers : WorkerSlot(task, c, w)' =>
            <<"worker", w>> \in Y \/ (WorkerSlot(task, c, w) /\ <<"worker", w>> \notin X)
      /\ \A i \in DOMAIN queue' : RowSlot(task, i)' =>
            \/ <<"row", i>> \in Y
            \/ i \in DOMAIN queue /\ RowSlot(task, i) /\ <<"row", i>> \notin X
      /\ \A h \in Handlers : RequestSlot(task, h)' =>
            <<"request", h>> \in Y \/ (RequestSlot(task, h) /\ <<"request", h>> \notin X)
      /\ Waiting(task)' =>
            <<"waiting", task>> \in Y \/ (Waiting(task) /\ <<"waiting", task>> \notin X)
  OBVIOUS
<1> HIDE DEF X, Y
<1>2. Slots(task, c)' \subseteq (Slots(task, c) \ X) \cup Y
  BY <1>1, SlotsStep
<1> QED
  BY <1>2 DEF X, Y

\* Nothing but slots that were there.
LEMMA SlotsKeptStep ==
  ASSUME NEW task, NEW c,
         \A w \in Workers : WorkerSlot(task, c, w)' => WorkerSlot(task, c, w),
         \A i \in DOMAIN queue' : RowSlot(task, i)' => i \in DOMAIN queue /\ RowSlot(task, i),
         \A h \in Handlers : RequestSlot(task, h)' => RequestSlot(task, h),
         Waiting(task)' => Waiting(task)
  PROVE  SlotsKept(task, c)
<1>1. Slots(task, c)' \subseteq (Slots(task, c) \ {}) \cup {}
  BY SlotsStep
<1> QED
  BY <1>1 DEF SlotsKept

\* Rows are slots as before when nothing happens between them and their holders.
LEMMA RowsSlotKept ==
  ASSUME StoreTypeOK, HoldsKept, NEW task, NEW i \in DOMAIN queue,
         queue'[i] \in {queue[i], Reclaimed(queue[i])}
  PROVE  RowSlot(task, i)' => RowSlot(task, i)
<1>1. \A v \in Workers : Keeps(v, i)' <=> Keeps(v, i)
  BY HoldersUntouched
<1> QED
  BY <1>1, RowType DEF RowSlot, Claimable, Pendable, Reclaimed, QueueRow

\* The same for the rows a step of w is not about.
LEMMA OtherRowSlotKept ==
  ASSUME StoreTypeOK, NEW w \in Workers, HoldsKeptBut(w), NEW task, NEW i \in DOMAIN queue,
         ~Keeps(w, i), ~Keeps(w, i)', queue'[i] \in {queue[i], Reclaimed(queue[i])}
  PROVE  RowSlot(task, i)' => RowSlot(task, i)
<1>1. \A v \in Workers : Keeps(v, i)' <=> Keeps(v, i)
  BY DEF HoldsKeptBut, SameHold, Keeps
<1> QED
  BY <1>1, RowType DEF RowSlot, Claimable, Pendable, Reclaimed, QueueRow

LEMMA OtherWorkersSlot ==
  ASSUME NEW w \in Workers, OthersKeep(w), NEW task, NEW c
  PROVE  \A v \in Workers \ {w} : WorkerSlot(task, c, v)' <=> WorkerSlot(task, c, v)
  BY DEF OthersKeep, WorkerSlot, Task

LEMMA RequestsSlot ==
  ASSUME UNCHANGED handlerVars, NEW task
  PROVE  \A h \in Handlers : RequestSlot(task, h)' <=> RequestSlot(task, h)
  BY DEF handlerVars, RequestSlot

-----------------------------------------------------------------------------
(* A step of process() *)

NoNewWait == \A task \in Tasks : Waiting(task)' => Waiting(task)

LEMMA SaveNoNewWait ==
  ASSUME StoreTypeOK, NEW task \in Tasks, NEW new \in Checkpoint,
         new.status # "WAITING_FOR_APPROVAL", save_workflow(task, new)
  PROVE  NoNewWait
<1>1. Saved(new).status = new.status
  BY DEF Saved, Checkpoint
<1> QED
  BY <1>1 DEF save_workflow, StoreTypeOK, NoNewWait, Waiting

\* A worker goes on with a checkpoint that is open.
OpenCopy(w) == wpc[w] \in RuntimePC \ {"load", "create_approval"} => state[w].status \in OpenStatus

\* Only SaveWaiting makes a workflow wait.
LEMMA ProcessWaits ==
  ASSUME NEW w \in Workers, Busy(w), OpenCopy(w), ProcessStep(w)
  PROVE  \/ NoNewWait
         \/ /\ wpc[w] = "pend" /\ wpc'[w] = "create_approval"
            /\ \A task \in Tasks \ {Task(w)} : Waiting(task)' => Waiting(task)
<1>1. Task(w) \in Tasks /\ state[w] \in Checkpoint /\ StoreTypeOK /\ LocalTypeOK
  BY HeldTypes DEF Busy
<1>2. ASSUME UNCHANGED workflows PROVE NoNewWait
  BY <1>2 DEF NoNewWait, Waiting
<1>3. ASSUME NEW new \in Checkpoint, new.status # "WAITING_FOR_APPROVAL", NEW pc,
             \/ SaveAndReturn(w, new) \/ SaveAndRaise(w, new) \/ SaveAndGoto(w, new, pc)
             \/ StaleSave(w, new)
      PROVE  NoNewWait
  BY <1>1, <1>2, <1>3, SaveNoNewWait
  DEF SaveAndReturn, SaveAndRaise, SaveAndGoto, StaleSave, storeVars
<1>4. ASSUME NEW s \in WorkflowStatus, s # "WAITING_FOR_APPROVAL"
      PROVE  /\ [state[w] EXCEPT !.status = s] \in Checkpoint
             /\ [state[w] EXCEPT !.status = s].status # "WAITING_FOR_APPROVAL"
  BY <1>1, <1>4, StatusType DEF Checkpoint
<1>5. CASE SaveRunning(w)
  BY <1>3, <1>4, <1>5 DEF SaveRunning, WorkflowStatus
<1>6. CASE \/ ModelFailsRetryably(w) \/ BackendFailsRetryably(w) \/ BackendTimesOut(w)
           \/ DecideFail(w) \/ PolicyDenied(w) \/ BackendFailsPermanently(w)
           \/ DecideComplete(w)
  BY <1>3, <1>4, <1>6
  DEF ModelFailsRetryably, BackendFailsRetryably, BackendTimesOut, FailRetryably, DecideFail,
      PolicyDenied, BackendFailsPermanently, Fail, DecideComplete, WorkflowStatus
<1>7. ASSUME NEW c \in Calls, DecideTool(w, c) PROVE NoNewWait
  <2>1. Requested(state[w], c) \in Checkpoint
    BY <1>1, RequestedType
  <2>2. Requested(state[w], c).status # "WAITING_FOR_APPROVAL"
    BY <1>1, <1>7, RequestedFields DEF DecideTool, OpenCopy, OpenStatus, RuntimePC
  <2>3. /\ [Requested(state[w], c) EXCEPT !.status = "LOOP_STOPPED"] \in Checkpoint
        /\ [Requested(state[w], c) EXCEPT !.status = "LOOP_STOPPED"].status = "LOOP_STOPPED"
    BY <2>1, StatusFields DEF WorkflowStatus
  <2> QED
    BY <1>1, <1>3, <1>7, <2>1, <2>2, <2>3, SaveNoNewWait DEF DecideTool
<1>8. CASE RecordResult(w)
  <2> DEFINE new == Completed(state[w], call[w].tool, result[w])
  <2>1. new \in Checkpoint
    BY <1>1, HeldTypes, CompletedType
  <2>2. new.status = "QUEUED"
    BY <1>1, <2>1 DEF Completed, Checkpoint
  <2> HIDE DEF new
  <2>3. SaveAndReturn(w, new)
    BY <1>8 DEF RecordResult, new
  <2> QED
    BY <1>3, <2>1, <2>2, <2>3
<1>9. CASE SaveWaiting(w)
  <2>1. CASE StaleSave(w, [state[w] EXCEPT !.status = "WAITING_FOR_APPROVAL",
                                           !.pending_action = call[w]])
    BY <1>2, <2>1 DEF StaleSave, storeVars
  <2>2. CASE /\ save_workflow(Task(w), [state[w] EXCEPT !.status = "WAITING_FOR_APPROVAL",
                                                         !.pending_action = call[w]])
             /\ Goto(w, "create_approval")
    BY <1>1, <1>9, <2>2
    DEF SaveWaiting, save_workflow, Goto, LocalTypeOK, StoreTypeOK, Waiting
  <2> QED
    BY <1>9, <2>1, <2>2 DEF SaveWaiting, SaveAndGoto
<1>10. CASE UNCHANGED workflows
  BY <1>2, <1>10
<1> QED
  BY <1>5, <1>6, <1>7, <1>8, <1>9, <1>10
  DEF ProcessStep, Load, ModelFailsPermanently, CreateApproval, create_approval,
      ResumeApprovedAction, LookupResult, BackendSucceeds, SaveToolResult, save_tool_result,
      storeVars

\* What a step of process() does to the slot of its worker.
LEMMA ProcessWorkerSlot ==
  ASSUME NEW w \in Workers, Busy(w), AskingWaits, ProcessStep(w), NEW task, NEW c,
         WorkerSlot(task, c, w)'
  PROVE  WorkerSlot(task, c, w) \/ (wpc[w] = "save_result" /\ call[w] = c /\ Task(w) = task)
<1>1. wpc[w] \in RuntimePC /\ delivery' = delivery
  BY ProcessHolds DEF Busy
<1>2. Task(w) = task
  BY <1>1 DEF WorkerSlot, Task
<1>3. ASSUME wpc[w] = "create_approval" PROVE FALSE
  <2>1. CreateApproval(w)
    BY <1>3
    DEF ProcessStep, Load, SaveRunning, ModelFailsRetryably, ModelFailsPermanently,
        DecideComplete, DecideFail, DecideTool, PolicyDenied, SaveWaiting,
        ResumeApprovedAction, LookupResult, BackendSucceeds, BackendFailsRetryably,
        BackendTimesOut, BackendFailsPermanently, SaveToolResult, RecordResult
  <2>2. Return(w, state[w]) /\ state[w].status = "WAITING_FOR_APPROVAL"
    BY <1>3, <2>1 DEF CreateApproval, AskingWaits
  <2>3. wpc'[w] = "ack" /\ state'[w] = [NewWorkflow EXCEPT !.status = state[w].status]
    BY <2>2 DEF Return, Goto, Busy, LocalTypeOK
  <2>4. state'[w].status = "WAITING_FOR_APPROVAL"
    BY <2>2, <2>3 DEF NewWorkflow
  <2> QED
    BY <2>3, <2>4 DEF WorkerSlot, SlotPC, RuntimePC
<1> QED
  BY <1>1, <1>2, <1>3 DEF WorkerSlot, SlotPC

LEMMA ProcessSlots ==
  ASSUME NEW w \in Workers, Busy(w), WorkerWay(w), AskingWaits, ProcessStep(w),
         UNCHANGED handlerVars, OthersKeep(w), NEW task \in Tasks, NEW c,
         ~(wpc[w] = "save_result" /\ call[w] = c /\ Task(w) = task)
  PROVE  SlotsKept(task, c) \/ SlotPassed(task, c)
<1>1. /\ wpc[w] \in RuntimePC /\ wpc'[w] \in KeepPC /\ delivery' = delivery /\ queue' = queue
      /\ StoreTypeOK
  BY ProcessHolds DEF Busy
<1>2. HoldsKept
  BY <1>1, OthersHold DEF HoldsKept, HoldsKeptBut, SameHold, KeepPC
<1>3. \A i \in DOMAIN queue' : RowSlot(task, i)' => i \in DOMAIN queue /\ RowSlot(task, i)
  BY <1>1, <1>2, RowsSlotKept
<1>4. \A v \in Workers : WorkerSlot(task, c, v)' => WorkerSlot(task, c, v)
  BY OtherWorkersSlot, ProcessWorkerSlot
<1>5. \A h \in Handlers : RequestSlot(task, h)' => RequestSlot(task, h)
  BY RequestsSlot
<1>6. CASE Waiting(task)' => Waiting(task)
  BY <1>3, <1>4, <1>5, <1>6, SlotsKeptStep
<1>7. CASE wpc[w] = "pend" /\ wpc'[w] = "create_approval" /\ Task(w) = task
  <2> DEFINE x == <<"worker", w>>
             y == <<"waiting", task>>
  <2>1. x \in Slots(task, c)
    BY <1>7, SlotsMember DEF WorkerSlot, SlotPC, RuntimePC
  <2>2. ~WorkerSlot(task, c, w)'
    BY <1>7 DEF WorkerSlot, SlotPC
  <2>3. \A v \in Workers : WorkerSlot(task, c, v)' => WorkerSlot(task, c, v) /\ <<"worker", v>> # x
    BY <1>4, <2>2
  <2>4. \A i \in DOMAIN queue' : RowSlot(task, i)' =>
            i \in DOMAIN queue /\ RowSlot(task, i) /\ <<"row", i>> # x
    BY <1>3
  <2>5. \A h \in Handlers : RequestSlot(task, h)' => RequestSlot(task, h) /\ <<"request", h>> # x
    BY <1>5
  <2>6. <<"waiting", task>> = y
    OBVIOUS
  <2> HIDE DEF x, y
  <2>7. Slots(task, c)' \subseteq (Slots(task, c) \ {x}) \cup {y}
    BY <2>3, <2>4, <2>5, <2>6, SlotsSwap
  <2> QED
    BY <2>1, <2>7 DEF SlotPassed
<1> QED
  BY <1>6, <1>7, ProcessWaits DEF NoNewWait, WorkerWay, OpenCopy

\* A worker whose call was answered gives its slot for the effect.
LEMMA BackendSlots ==
  ASSUME NEW w \in Workers, Busy(w), NEW r \in Results, BackendSucceeds(w, r),
         UNCHANGED handlerVars, OthersKeep(w), NEW task \in Tasks, NEW c,
         Task(w) = task, call[w] = c
  PROVE  /\ <<"worker", w>> \in Slots(task, c)
         /\ Slots(task, c)' \subseteq Slots(task, c) \ {<<"worker", w>>}
<1>1. /\ wpc[w] = "backend" /\ wpc'[w] = "save_result" /\ call' = call /\ delivery' = delivery
      /\ queue' = queue /\ workflows' = workflows /\ StoreTypeOK
  BY DEF BackendSucceeds, Goto, storeVars, Busy, LocalTypeOK
<1>2. HoldsKept
  BY <1>1, OthersHold DEF HoldsKept, HoldsKeptBut, SameHold, KeepPC, RuntimePC
<1>3. \A i \in DOMAIN queue' : RowSlot(task, i)' =>
          i \in DOMAIN queue /\ RowSlot(task, i) /\ <<"row", i>> # <<"worker", w>>
  BY <1>1, <1>2, RowsSlotKept
<1>4. WorkerSlot(task, c, w) /\ ~WorkerSlot(task, c, w)'
  BY <1>1 DEF WorkerSlot, SlotPC, RuntimePC
<1>5. \A v \in Workers : WorkerSlot(task, c, v)' =>
          WorkerSlot(task, c, v) /\ <<"worker", v>> # <<"worker", w>>
  BY <1>4, OtherWorkersSlot
<1>6. \A h \in Handlers : RequestSlot(task, h)' =>
          RequestSlot(task, h) /\ <<"request", h>> # <<"worker", w>>
  BY RequestsSlot
<1>7. Waiting(task)' => Waiting(task) /\ <<"waiting", task>> # <<"worker", w>>
  BY <1>1 DEF Waiting
<1>8. Slots(task, c)' \subseteq Slots(task, c) \ {<<"worker", w>>}
  BY <1>3, <1>5, <1>6, <1>7, SlotsDrop
<1>9. <<"worker", w>> \in Slots(task, c)
  BY <1>4, SlotsMember
<1> QED
  BY <1>8, <1>9

-----------------------------------------------------------------------------
(* A step of w about one row of the queue *)

\* No row but r changes its slot or its holder.
RowsBut(w, r) ==
    /\ DOMAIN queue' \subseteq DOMAIN queue \cup {r}
    /\ \A i \in DOMAIN queue :
        i # r => /\ ~Keeps(w, i) /\ ~Keeps(w, i)'
                 /\ queue'[i] \in {queue[i], Reclaimed(queue[i])}

LEMMA RowSlots ==
  ASSUME StoreTypeOK, NEW w \in Workers, OthersKeep(w), UNCHANGED handlerVars,
         NEW task \in Tasks, NEW c, Waiting(task)' => Waiting(task), NEW r, RowsBut(w, r),
         \/ /\ WorkerSlot(task, c, w)' => WorkerSlot(task, c, w)
            /\ r \in DOMAIN queue' /\ RowSlot(task, r)' =>
                    r \in DOMAIN queue /\ RowSlot(task, r)
         \/ WorkerSlot(task, c, w) /\ ~WorkerSlot(task, c, w)'
         \/ /\ r \in DOMAIN queue /\ RowSlot(task, r)
            /\ r \in DOMAIN queue' => ~RowSlot(task, r)'
  PROVE  SlotsKept(task, c) \/ SlotPassed(task, c)
<1> DEFINE x == <<"worker", w>>
           y == <<"row", r>>
<1>1. \A v \in Workers : v # w => (WorkerSlot(task, c, v)' => WorkerSlot(task, c, v))
  BY OtherWorkersSlot
<1>2. \A h \in Handlers : RequestSlot(task, h)' => RequestSlot(task, h)
  BY RequestsSlot
<1>3. ASSUME NEW i \in DOMAIN queue', i # r, RowSlot(task, i)'
      PROVE  i \in DOMAIN queue /\ RowSlot(task, i)
  <2>1. i \in DOMAIN queue /\ HoldsKeptBut(w)
    BY <1>3, OthersHold DEF RowsBut
  <2> QED
    BY <1>3, <2>1, OtherRowSlotKept DEF RowsBut
<1>4. CASE /\ WorkerSlot(task, c, w)' => WorkerSlot(task, c, w)
           /\ r \in DOMAIN queue' /\ RowSlot(task, r)' =>
                    r \in DOMAIN queue /\ RowSlot(task, r)
  <2>1. SlotsKept(task, c)
    BY <1>1, <1>2, <1>3, <1>4, SlotsKeptStep
  <2> QED
    BY <2>1
<1>5. CASE WorkerSlot(task, c, w) /\ ~WorkerSlot(task, c, w)'
  <2>1. \A v \in Workers : WorkerSlot(task, c, v)' => WorkerSlot(task, c, v) /\ <<"worker", v>> # x
    BY <1>1, <1>5
  <2>2. \A i \in DOMAIN queue' : RowSlot(task, i)' =>
            <<"row", i>> = y \/ (i \in DOMAIN queue /\ RowSlot(task, i) /\ <<"row", i>> # x)
    BY <1>3
  <2>3. \A h \in Handlers : RequestSlot(task, h)' => RequestSlot(task, h) /\ <<"request", h>> # x
    BY <1>2
  <2>4. <<"waiting", task>> # x
    OBVIOUS
  <2>5. x \in Slots(task, c)
    BY <1>5, SlotsMember
  <2> HIDE DEF x, y
  <2>6. Slots(task, c)' \subseteq (Slots(task, c) \ {x}) \cup {y}
    BY <2>1, <2>2, <2>3, <2>4, SlotsSwap
  <2> QED
    BY <2>5, <2>6 DEF SlotPassed
<1>6. CASE /\ r \in DOMAIN queue /\ RowSlot(task, r)
           /\ r \in DOMAIN queue' => ~RowSlot(task, r)'
  <2>1. \A v \in Workers : WorkerSlot(task, c, v)' =>
            <<"worker", v>> = x \/ (WorkerSlot(task, c, v) /\ <<"worker", v>> # y)
    BY <1>1
  <2>2. \A i \in DOMAIN queue' : RowSlot(task, i)' =>
            i \in DOMAIN queue /\ RowSlot(task, i) /\ <<"row", i>> # y
    BY <1>3, <1>6
  <2>3. \A h \in Handlers : RequestSlot(task, h)' => RequestSlot(task, h) /\ <<"request", h>> # y
    BY <1>2
  <2>4. <<"waiting", task>> # y
    OBVIOUS
  <2>5. y \in Slots(task, c)
    BY <1>6, SlotsMember
  <2> HIDE DEF x, y
  <2>6. Slots(task, c)' \subseteq (Slots(task, c) \ {y}) \cup {x}
    BY <2>1, <2>2, <2>3, <2>4, SlotsSwap
  <2> QED
    BY <2>5, <2>6 DEF SlotPassed
<1> QED
  BY <1>4, <1>5, <1>6

LEMMA ClaimSlots ==
  ASSUME StoreTypeOK, LocalTypeOK, NEW w \in Workers, NEW i \in DOMAIN queue, Claim(w, i),
         OthersKeep(w), UNCHANGED handlerVars, NEW task \in Tasks, NEW c
  PROVE  SlotsKept(task, c) \/ SlotPassed(task, c)
<1>1. /\ SameDomain /\ Pendable(queue[i]) /\ Leased(queue'[i])
      /\ \A j \in DOMAIN queue : j # i => queue'[j] = Reclaimed(queue[j])
  BY ClaimedRows DEF Claim
<1>2. /\ wpc[w] \notin KeepPC /\ wpc'[w] = "load" /\ delivery'[w].id = i
      /\ delivery'[w].task_id = queue[i].task_id
  BY DEF Claim, Goto, LocalTypeOK, KeepPC, RuntimePC
<1>3. RowsBut(w, i)
  BY <1>1, <1>2 DEF RowsBut, SameDomain, Keeps
<1>4. ~RowSlot(task, i)'
  <2>1. Keeps(w, i)'
    BY <1>2 DEF Keeps, KeepPC, RuntimePC
  <2> QED
    BY <1>1, <2>1 DEF RowSlot, Claimable, Leased, Pendable
<1>5. Waiting(task)' => Waiting(task)
  BY DEF Claim, claim, Waiting
<1>6. CASE queue[i].task_id = task
  <2>1. RowSlot(task, i)
    BY <1>1, <1>6 DEF RowSlot, Claimable
  <2> QED
    BY <1>3, <1>4, <1>5, <2>1, RowSlots
<1>7. CASE queue[i].task_id # task
  <2>1. ~WorkerSlot(task, c, w)'
    BY <1>2, <1>7 DEF WorkerSlot, Task
  <2> QED
    BY <1>3, <1>4, <1>5, <2>1, RowSlots
<1> QED
  BY <1>6, <1>7

\* Nor do the saves that follow process().
LEMMA ReloadWaits ==
  ASSUME NEW w \in Workers, Busy(w),
         DeadLoad(w) \/ DeadSave(w) \/ PermanentLoad(w) \/ PermanentSave(w)
  PROVE  NoNewWait
<1>1. ASSUME UNCHANGED workflows PROVE NoNewWait
  BY <1>1 DEF NoNewWait, Waiting
<1>2. ASSUME NEW status \in {"DEAD_LETTERED", "FAILED"}, SaveFinal(w, status)
      PROVE  NoNewWait
  <2> DEFINE new == [state[w] EXCEPT !.status = status]
  <2>1. Task(w) \in Tasks /\ state[w] \in Checkpoint /\ StoreTypeOK
    BY HeldTypes DEF Busy
  <2>2. new \in Checkpoint /\ new.status # "WAITING_FOR_APPROVAL"
    BY <2>1, StatusFields DEF WorkflowStatus
  <2>3. save_workflow(Task(w), new) \/ UNCHANGED workflows
    BY <1>2 DEF SaveFinal, storeVars
  <2> HIDE DEF new
  <2> QED
    BY <1>1, <2>1, <2>2, <2>3, SaveNoNewWait
<1> QED
  BY <1>1, <1>2 DEF DeadLoad, DeadSave, PermanentLoad, PermanentSave, Reload, storeVars

LEMMA ReloadSlots ==
  ASSUME StoreTypeOK, LocalTypeOK, NEW w \in Workers,
         DeadLoad(w) \/ DeadSave(w) \/ PermanentLoad(w) \/ PermanentSave(w), Busy(w),
         OthersKeep(w), UNCHANGED handlerVars, NEW task \in Tasks, NEW c
  PROVE  SlotsKept(task, c)
<1>1. /\ wpc[w] \notin KeepPC /\ wpc'[w] \notin KeepPC /\ queue' = queue
      /\ wpc'[w] \notin SlotPC /\ wpc'[w] # "ack"
  BY DEF DeadLoad, DeadSave, PermanentLoad, PermanentSave, Reload, SaveFinal, Finish, Goto,
         save_workflow, storeVars, LocalTypeOK, KeepPC, RuntimePC, SlotPC
<1>2. HoldsKept
  BY <1>1, OthersHold DEF HoldsKept, HoldsKeptBut, SameHold
<1>3. \A i \in DOMAIN queue' : RowSlot(task, i)' => i \in DOMAIN queue /\ RowSlot(task, i)
  BY <1>1, <1>2, RowsSlotKept
<1>4. \A v \in Workers : WorkerSlot(task, c, v)' => WorkerSlot(task, c, v)
  <2>1. ~WorkerSlot(task, c, w)'
    BY <1>1 DEF WorkerSlot
  <2> QED
    BY <2>1, OtherWorkersSlot
<1>5. \A h \in Handlers : RequestSlot(task, h)' => RequestSlot(task, h)
  BY RequestsSlot
<1>6. Waiting(task)' => Waiting(task)
  BY ReloadWaits DEF NoNewWait
<1> QED
  BY <1>3, <1>4, <1>5, <1>6, SlotsKeptStep

LEMMA ReportSlots ==
  ASSUME NEW w \in Workers, Busy(w), HoldsRow, HeldRowTask, ReportStep(w),
         OthersKeep(w), UNCHANGED handlerVars, NEW task \in Tasks, NEW c
  PROVE  SlotsKept(task, c) \/ SlotPassed(task, c)
<1>0. PICK r : r = delivery[w].id
  OBVIOUS
<1>1. /\ StoreTypeOK /\ LocalTypeOK /\ delivery[w] \in Delivery /\ Task(w) \in Tasks
      /\ r \in DOMAIN queue /\ queue[r].task_id = Task(w) /\ HoldsKeptBut(w)
  BY <1>0, HeldTypes, OthersHold DEF Busy, HoldsRow, HeldRowTask
<1>2. CASE Acknowledge(w) \/ PermanentAcknowledge(w)
  <2>1. acknowledge(r) /\ UNCHANGED workflows
    BY <1>0, <1>2 DEF Acknowledge, PermanentAcknowledge, acknowledge
  <2>2. OnlyRow(r) /\ queue'[r].status = "COMPLETED"
    BY <1>1, <2>1, AcknowledgedRow
  <2>3. wpc[w] \in KeepPC /\ wpc'[w] \in {"enqueue", "idle", "perm_load"}
    BY <1>1, <1>2
    DEF Acknowledge, PermanentAcknowledge, LeaveProcess, Finish, Goto, LocalTypeOK, KeepPC
  <2>4. RowsBut(w, r)
    BY <1>0, <2>2, <2>3 DEF RowsBut, OnlyRow, SameDomain, Keeps, KeepPC, RuntimePC
  <2>5. ~RowSlot(task, r)'
    BY <2>2 DEF RowSlot, Claimable, Pendable
  <2>6. WorkerSlot(task, c, w)' => WorkerSlot(task, c, w)
    BY <1>1, <1>2, <2>3
    DEF Acknowledge, PermanentAcknowledge, LeaveProcess, Finish, Goto, LocalTypeOK,
        WorkerSlot, SlotPC, RuntimePC, Task, localVars
  <2> QED
    BY <1>1, <2>1, <2>4, <2>5, <2>6, RowSlots DEF Waiting
<1>3. CASE Enqueue(w)
  <2>1. /\ enqueue(Task(w)) /\ UNCHANGED workflows /\ wpc[w] = "enqueue" /\ wpc'[w] = "idle"
    BY <1>1, <1>3 DEF Enqueue, enqueue, Finish, Goto, LocalTypeOK
  <2>2. /\ \A i \in DOMAIN queue : i \in DOMAIN queue' /\ queue'[i] = queue[i]
        /\ \A i \in DOMAIN queue : ~Keeps(w, i) /\ ~Keeps(w, i)'
        /\ ~WorkerSlot(task, c, w)'
    BY <1>1, <2>1, RowsAdded DEF Keeps, KeepPC, RuntimePC, WorkerSlot, SlotPC
  <2>3. CASE queue' = queue
    <3>1. RowsBut(w, 0)
      BY <2>2, <2>3 DEF RowsBut
    <3>2. 0 \notin DOMAIN queue
      BY <1>1, LenProperties, SMT DEF StoreTypeOK
    <3> QED
      BY <1>1, <2>1, <2>2, <2>3, <3>1, <3>2, RowSlots DEF Waiting
  <2>4. CASE queue' = Append(queue, NewRow(Task(w)))
    <3>1. PICK n : /\ DOMAIN queue' = DOMAIN queue \cup {n}
                   /\ n \notin DOMAIN queue /\ queue'[n] = NewRow(Task(w))
      BY <1>1, <2>4, AddedRow
    <3>2. RowsBut(w, n)
      BY <2>2, <3>1 DEF RowsBut
    <3>3. CASE Task(w) = task
      <4>1. WorkerSlot(task, c, w)
        BY <2>1, <3>3 DEF WorkerSlot, SlotPC
      <4> QED
        BY <1>1, <2>1, <2>2, <3>2, <4>1, RowSlots DEF Waiting
    <3>4. CASE Task(w) # task
      <4>1. ~RowSlot(task, n)'
        BY <3>1, <3>4 DEF RowSlot, NewRow
      <4> QED
        BY <1>1, <2>1, <2>2, <3>2, <4>1, RowSlots DEF Waiting
    <3> QED
      BY <3>3, <3>4
  <2> QED
    BY <2>1, <2>3, <2>4 DEF enqueue
<1>4. CASE RetryOrDeadLetter(w)
  <2>1. /\ retry_or_dead_letter(delivery[w]) /\ UNCHANGED workflows
        /\ wpc[w] = "retry" /\ wpc'[w] \in {"dead", "idle"}
    BY <1>1, <1>4
    DEF RetryOrDeadLetter, retry_or_dead_letter, LeaveProcess, Finish, Goto, LocalTypeOK
  <2>2. OnlyRow(r)
    BY <1>0, <1>1, <2>1, RetriedRow
  <2>3. RowsBut(w, r)
    BY <1>0, <2>1, <2>2 DEF RowsBut, OnlyRow, SameDomain, Keeps, KeepPC, RuntimePC
  <2>4. ~WorkerSlot(task, c, w)'
    BY <2>1 DEF WorkerSlot, SlotPC, RuntimePC
  <2>5. CASE Task(w) = task
    <3>1. WorkerSlot(task, c, w)
      BY <2>1, <2>5 DEF WorkerSlot, SlotPC
    <3> QED
      BY <1>1, <2>1, <2>3, <2>4, <3>1, RowSlots DEF Waiting
  <2>6. CASE Task(w) # task
    <3>1. queue'[r].task_id = queue[r].task_id
      BY <1>0, <1>1, <2>1, RetryType DEF RowsKept
    <3>2. ~RowSlot(task, r)'
      BY <1>1, <2>6, <3>1 DEF RowSlot
    <3> QED
      BY <1>1, <2>1, <2>3, <2>4, <3>2, RowSlots DEF Waiting
  <2> QED
    BY <2>5, <2>6
<1>5. CASE DeadLoad(w) \/ DeadSave(w) \/ PermanentLoad(w) \/ PermanentSave(w)
  BY <1>1, <1>5, ReloadSlots
<1> QED
  BY <1>2, <1>3, <1>4, <1>5 DEF ReportStep

-----------------------------------------------------------------------------
(* Crashes, leases and requests *)

\* A slot stays, is passed on, or is one more because something was disturbed.
SlotMove(task, c) ==
    \/ SlotsKept(task, c)
    \/ SlotPassed(task, c)
    \/ SlotMade(task, c) /\ Disturbances' = Disturbances + 1

LEMMA CrashSlots ==
  ASSUME StoreTypeOK, LocalTypeOK, BudgetsTypeOK, NEW w \in Workers, WorkerCrash(w),
         UNCHANGED handlerVars, NEW task \in Tasks, NEW c
  PROVE  SlotMove(task, c)
<1>0. PICK r : r = delivery[w].id
  OBVIOUS
<1>1. /\ OthersKeep(w) /\ wpc'[w] = "idle" /\ queue' = queue /\ workflows' = workflows
      /\ crashes' = crashes + 1 /\ stalls' = stalls
  BY DEF WorkerCrash, Finish, Goto, LocalTypeOK, OthersKeep, storeVars
<1>2. HoldsKeptBut(w)
  BY <1>1, OthersHold
<1>3. Disturbances' = Disturbances + 1
  BY <1>1, SMT DEF Disturbances, BudgetsTypeOK
<1> DEFINE y == <<"row", r>>
           x == <<"worker", w>>
<1>4. \A v \in Workers : WorkerSlot(task, c, v)' => WorkerSlot(task, c, v) /\ <<"worker", v>> # x
  <2>1. ~WorkerSlot(task, c, w)'
    BY <1>1 DEF WorkerSlot, SlotPC, RuntimePC
  <2> QED
    BY <1>1, <2>1, OtherWorkersSlot
<1>5. \A i \in DOMAIN queue' : RowSlot(task, i)' =>
          <<"row", i>> = y \/ (i \in DOMAIN queue /\ RowSlot(task, i) /\ <<"row", i>> # x)
  <2> SUFFICES ASSUME NEW i \in DOMAIN queue, RowSlot(task, i)', i # r
               PROVE  RowSlot(task, i)
    BY <1>1
  <2>1. ~Keeps(w, i) /\ ~Keeps(w, i)'
    BY <1>0, <1>1 DEF Keeps, KeepPC, RuntimePC
  <2> QED
    BY <1>1, <1>2, <2>1, OtherRowSlotKept
<1>6. \A h \in Handlers : RequestSlot(task, h)' => RequestSlot(task, h) /\ <<"request", h>> # x
  BY RequestsSlot
<1>7. Waiting(task)' => Waiting(task) /\ <<"waiting", task>> # x
  BY <1>1 DEF Waiting
<1> HIDE DEF x, y
<1>8. Slots(task, c)' \subseteq (Slots(task, c) \ {x}) \cup {y}
  BY <1>4, <1>5, <1>6, <1>7, SlotsSwap
<1> QED
  BY <1>3, <1>8 DEF SlotMove, SlotMade

\* A lease that passes makes a slot only when its holder is alive.
LEMMA ExpireSlots ==
  ASSUME StoreTypeOK, BudgetsTypeOK, NEW r \in DOMAIN queue, LeaseExpires(r),
         UNCHANGED handlerVars, NEW task \in Tasks, NEW c
  PROVE  SlotMove(task, c)
<1>1. /\ OnlyRow(r) /\ queue[r].status = "PROCESSING"
      /\ queue'[r].status = "PROCESSING" /\ queue'[r].task_id = queue[r].task_id
  BY ExpiredRow, LeaseExpiresType DEF StoreStepOK, RowsKept
<1>2. /\ workflows' = workflows /\ UNCHANGED <<wpc, delivery, state, call>>
      /\ crashes' = crashes /\ HoldsKept
  BY DEF LeaseExpires, runtimeVars, localVars, HoldsKept, SameHold
<1>3. \A v \in Workers : WorkerSlot(task, c, v)' <=> WorkerSlot(task, c, v)
  BY <1>2 DEF WorkerSlot, Task
<1>4. \A h \in Handlers : RequestSlot(task, h)' <=> RequestSlot(task, h)
  BY RequestsSlot
<1>5. Waiting(task)' <=> Waiting(task)
  BY <1>2 DEF Waiting
<1>6. \A i \in DOMAIN queue' :
          i \in DOMAIN queue /\ (i # r /\ RowSlot(task, i)' => RowSlot(task, i))
  BY <1>1, <1>2, RowsSlotKept DEF OnlyRow, SameDomain
<1>7. CASE Held(r)
  <2>1. Disturbances' = Disturbances + 1
    BY <1>2, <1>7, SMT DEF LeaseExpires, Disturbances, BudgetsTypeOK
  <2> DEFINE y == <<"row", r>>
             x == <<"none", r>>
  <2>2. /\ \A v \in Workers : WorkerSlot(task, c, v)' => WorkerSlot(task, c, v) /\ <<"worker", v>> # x
        /\ \A i \in DOMAIN queue' : RowSlot(task, i)' =>
              <<"row", i>> = y \/ (i \in DOMAIN queue /\ RowSlot(task, i) /\ <<"row", i>> # x)
        /\ \A h \in Handlers : RequestSlot(task, h)' => RequestSlot(task, h) /\ <<"request", h>> # x
        /\ Waiting(task)' => Waiting(task) /\ <<"waiting", task>> # x
    BY <1>3, <1>4, <1>5, <1>6
  <2> HIDE DEF x, y
  <2>3. Slots(task, c)' \subseteq (Slots(task, c) \ {x}) \cup {y}
    BY <2>2, SlotsSwap
  <2> QED
    BY <2>1, <2>3 DEF SlotMove, SlotMade
<1>8. CASE ~Held(r)
  <2>1. Claimable(r)
    BY <1>1, <1>8 DEF Claimable, Held, Keeps, KeepPC, RuntimePC
  <2>2. RowSlot(task, r)' => RowSlot(task, r)
    BY <1>1, <2>1 DEF RowSlot
  <2>3. SlotsKept(task, c)
    BY <1>3, <1>4, <1>5, <1>6, <2>2, SlotsKeptStep
  <2> QED
    BY <2>3 DEF SlotMove
<1> QED
  BY <1>7, <1>8

LEMMA HeartbeatSlots ==
  ASSUME StoreTypeOK, HoldsRow, NEW w \in Workers, Heartbeat(w),
         UNCHANGED handlerVars, NEW task \in Tasks, NEW c
  PROVE  SlotMove(task, c)
<1>0. PICK r : r = delivery[w].id
  OBVIOUS
<1>1. r \in DOMAIN queue /\ Keeps(w, r)
  BY <1>0 DEF Heartbeat, Suspended, HoldsRow, Keeps, KeepPC, RuntimePC
<1>2. /\ OnlyRow(r) /\ queue'[r].status = queue[r].status
      /\ queue'[r].expired => queue[r].expired
      /\ queue'[r].task_id = queue[r].task_id
  BY <1>0, <1>1, RenewedRow, ExtendLeaseType DEF Heartbeat, RowsKept
<1>3. UNCHANGED <<wpc, delivery, state, call>> /\ HoldsKept /\ workflows' = workflows
  BY DEF Heartbeat, workerVars, runtimeVars, localVars, HoldsKept, SameHold, extend_lease
<1>4. RowSlot(task, r)' => RowSlot(task, r)
  BY <1>1, <1>2, <1>3 DEF RowSlot, Claimable, Pendable, Keeps
<1>5. \A i \in DOMAIN queue' : RowSlot(task, i)' => i \in DOMAIN queue /\ RowSlot(task, i)
  BY <1>2, <1>3, <1>4, RowsSlotKept DEF OnlyRow, SameDomain
<1>6. /\ \A v \in Workers : WorkerSlot(task, c, v)' => WorkerSlot(task, c, v)
      /\ Waiting(task)' => Waiting(task)
  BY <1>3 DEF WorkerSlot, Task, Waiting
<1>7. \A h \in Handlers : RequestSlot(task, h)' => RequestSlot(task, h)
  BY RequestsSlot
<1>8. SlotsKept(task, c)
  BY <1>5, <1>6, <1>7, SlotsKeptStep
<1> QED
  BY <1>8 DEF SlotMove

WorkersStay == UNCHANGED <<wpc, delivery, state, call>>

LEMMA WorkersStaySlots ==
  ASSUME WorkersStay, NEW task, NEW c
  PROVE  HoldsKept /\ \A w \in Workers : WorkerSlot(task, c, w)' <=> WorkerSlot(task, c, w)
  BY DEF WorkersStay, HoldsKept, SameHold, WorkerSlot, Task

\* The row of a new incident, or of a released one, goes to the end of the queue.
LEMMA AppendSlots ==
  ASSUME StoreTypeOK, WorkersStay, NEW other \in Tasks, NEW task \in Tasks,
         queue' = Append(queue, NewRow(other))
  PROVE  \E n : \A i \in DOMAIN queue' : RowSlot(task, i)' =>
            (i = n /\ task = other) \/ (i \in DOMAIN queue /\ RowSlot(task, i))
<1>1. PICK n : /\ DOMAIN queue' = DOMAIN queue \cup {n}
               /\ n \notin DOMAIN queue /\ queue'[n] = NewRow(other)
               /\ \A i \in DOMAIN queue : queue'[i] = queue[i]
  BY AddedRow
<1>2. RowSlot(task, n)' => task = other
  BY <1>1 DEF RowSlot, NewRow
<1>3. \A i \in DOMAIN queue : RowSlot(task, i)' => RowSlot(task, i)
  BY <1>1, WorkersStaySlots, RowsSlotKept
<1> QED
  BY <1>1, <1>2, <1>3

\* Requests that neither release nor queue a task.
LEMMA RequestKept ==
  ASSUME StoreTypeOK, WorkersStay, NEW task \in Tasks, NEW c, queue' = queue,
         \A g \in Handlers : RequestSlot(task, g)' => RequestSlot(task, g),
         Waiting(task)' => Waiting(task)
  PROVE  SlotsKept(task, c)
<1>1. HoldsKept /\ \A w \in Workers : WorkerSlot(task, c, w)' <=> WorkerSlot(task, c, w)
  BY WorkersStaySlots
<1>2. \A i \in DOMAIN queue' : RowSlot(task, i)' => i \in DOMAIN queue /\ RowSlot(task, i)
  BY <1>1, RowsSlotKept
<1> QED
  BY <1>1, <1>2, SlotsKeptStep

LEMMA ApproveSaveSlots ==
  ASSUME StoreTypeOK, ControlTypeOK, WorkersStay, NEW h \in Handlers, ApproveSave(h),
         HandlerWay(h), FreshCopy(hstate[h], htask[h]), NEW task \in Tasks, NEW c
  PROVE  SlotsKept(task, c) \/ SlotPassed(task, c)
<1>1. CASE StaleRequest(h)
  <2>1. queue' = queue /\ workflows' = workflows
    BY <1>1 DEF StaleRequest, storeVars
  <2>2. \A g \in Handlers : RequestSlot(task, g)' => RequestSlot(task, g)
    BY <1>1 DEF StaleRequest, Respond, ControlTypeOK, RequestSlot
  <2> QED
    BY <2>1, <2>2, RequestKept DEF Waiting
<1>2. CASE /\ save_workflow(htask[h], [hstate[h] EXCEPT !.status = "QUEUED"])
           /\ HGoto(h, "approve_enqueue")
  <2> DEFINE new == [hstate[h] EXCEPT !.status = "QUEUED"]
  <2>1. /\ htask[h] \in Tasks /\ new \in Checkpoint /\ new.status = "QUEUED"
        /\ new.version = hstate[h].version
    BY HandlerTypes, StatusFields DEF WorkflowStatus
  <2>2. save_workflow(htask[h], new)
    BY <1>2
  <2> HIDE DEF new
  <2>3. NoNewWait /\ queue' = queue
    BY <2>1, <2>2, SaveNoNewWait DEF save_workflow
  <2>4. \A g \in Handlers :
            RequestSlot(task, g)' => g = h \/ RequestSlot(task, g)
    BY <1>2 DEF HGoto, ControlTypeOK, RequestSlot
  <2>5. CASE htask[h] # task
    <3>1. \A g \in Handlers : RequestSlot(task, g)' => RequestSlot(task, g)
      BY <1>2, <2>4, <2>5 DEF HGoto, RequestSlot
    <3> QED
      BY <2>3, <3>1, RequestKept DEF NoNewWait
  <2>6. CASE htask[h] = task
    <3> DEFINE x == <<"waiting", task>>
               y == <<"request", h>>
    <3>1. Waiting(task)
      BY <1>2, <2>1, <2>2, <2>6
      DEF ApproveSave, HandlerWay, HandlerPC, FreshCopy, save_workflow, VersionMatches, Waiting
    <3>2. ~Waiting(task)'
      <4>1. Saved(new).status = "QUEUED"
        BY <2>1 DEF Saved, Checkpoint
      <4> QED
        BY <2>2, <2>6, <4>1 DEF save_workflow, StoreTypeOK, Waiting
    <3>3. \A v \in Workers : WorkerSlot(task, c, v)' => WorkerSlot(task, c, v) /\ <<"worker", v>> # x
      BY WorkersStaySlots
    <3>4. \A i \in DOMAIN queue' : RowSlot(task, i)' =>
              i \in DOMAIN queue /\ RowSlot(task, i) /\ <<"row", i>> # x
      BY <2>3, WorkersStaySlots, RowsSlotKept
    <3>5. \A g \in Handlers : RequestSlot(task, g)' =>
              <<"request", g>> = y \/ (RequestSlot(task, g) /\ <<"request", g>> # x)
      BY <2>4
    <3>6. x \in Slots(task, c)
      BY <3>1, SlotsMember
    <3> HIDE DEF x, y
    <3>7. Slots(task, c)' \subseteq (Slots(task, c) \ {x}) \cup {y}
      BY <3>2, <3>3, <3>4, <3>5, SlotsSwap
    <3> QED
      BY <3>6, <3>7 DEF SlotPassed
  <2> QED
    BY <2>5, <2>6
<1> QED
  BY <1>1, <1>2 DEF ApproveSave

LEMMA RejectSaveSlots ==
  ASSUME StoreTypeOK, ControlTypeOK, WorkersStay, NEW h \in Handlers, RejectSave(h),
         NEW task \in Tasks, NEW c
  PROVE  SlotsKept(task, c)
<1>1. CASE StaleRequest(h)
  BY <1>1, RequestKept
  DEF StaleRequest, Respond, storeVars, ControlTypeOK, RequestSlot, Waiting
<1>2. CASE /\ save_workflow(htask[h], [hstate[h] EXCEPT !.status = "HUMAN_REJECTED",
                                                         !.pending_action = NoCall])
           /\ Respond(h)
  <2> DEFINE new == [hstate[h] EXCEPT !.status = "HUMAN_REJECTED", !.pending_action = NoCall]
  <2>1. htask[h] \in Tasks /\ new \in Checkpoint
    BY HandlerTypes, PendingType DEF WorkflowStatus
  <2>2. new.status = "HUMAN_REJECTED"
    BY <2>1, HandlerTypes DEF Checkpoint
  <2>3. save_workflow(htask[h], new)
    BY <1>2
  <2> HIDE DEF new
  <2>4. NoNewWait /\ queue' = queue
    BY <2>1, <2>2, <2>3, SaveNoNewWait DEF save_workflow
  <2>5. \A g \in Handlers : RequestSlot(task, g)' => RequestSlot(task, g)
    BY <1>2 DEF Respond, ControlTypeOK, RequestSlot
  <2> QED
    BY <2>4, <2>5, RequestKept DEF NoNewWait
<1> QED
  BY <1>1, <1>2 DEF RejectSave

LEMMA ApproveEnqueueSlots ==
  ASSUME StoreTypeOK, ControlTypeOK, WorkersStay, NEW h \in Handlers, ApproveEnqueue(h),
         NEW task \in Tasks, NEW c
  PROVE  SlotsKept(task, c) \/ SlotPassed(task, c)
<1>1. /\ enqueue(htask[h]) /\ workflows' = workflows /\ hpc[h] = "approve_enqueue"
      /\ htask[h] \in Tasks
  BY HandlerTypes DEF ApproveEnqueue, enqueue
<1>2. \A g \in Handlers : RequestSlot(task, g)' => g # h /\ RequestSlot(task, g)
  BY DEF ApproveEnqueue, Respond, ControlTypeOK, RequestSlot
<1>3. CASE queue' = queue
  BY <1>1, <1>2, <1>3, RequestKept DEF Waiting
<1>4. CASE queue' = Append(queue, NewRow(htask[h]))
  <2>1. PICK n : \A i \in DOMAIN queue' : RowSlot(task, i)' =>
                    (i = n /\ task = htask[h]) \/ (i \in DOMAIN queue /\ RowSlot(task, i))
    BY <1>1, <1>4, AppendSlots
  <2>2. CASE task # htask[h]
    <3>1. SlotsKept(task, c)
      BY <1>1, <1>2, <2>1, <2>2, WorkersStaySlots, SlotsKeptStep DEF Waiting
    <3> QED
      BY <3>1
  <2>3. CASE task = htask[h]
    <3> DEFINE x == <<"request", h>>
               y == <<"row", n>>
    <3>1. \A v \in Workers : WorkerSlot(task, c, v)' => WorkerSlot(task, c, v) /\ <<"worker", v>> # x
      BY WorkersStaySlots
    <3>2. \A i \in DOMAIN queue' : RowSlot(task, i)' =>
              <<"row", i>> = y \/ (i \in DOMAIN queue /\ RowSlot(task, i) /\ <<"row", i>> # x)
      BY <2>1
    <3>3. \A g \in Handlers : RequestSlot(task, g)' => RequestSlot(task, g) /\ <<"request", g>> # x
      BY <1>2
    <3>4. Waiting(task)' => Waiting(task) /\ <<"waiting", task>> # x
      BY <1>1 DEF Waiting
    <3>5. x \in Slots(task, c)
      BY <1>1, <2>3, SlotsMember DEF RequestSlot
    <3> HIDE DEF x, y
    <3>6. Slots(task, c)' \subseteq (Slots(task, c) \ {x}) \cup {y}
      BY <3>1, <3>2, <3>3, <3>4, SlotsSwap
    <3> QED
      BY <3>5, <3>6 DEF SlotPassed
  <2> QED
    BY <2>2, <2>3
<1> QED
  BY <1>1, <1>3, <1>4 DEF enqueue

LEMMA ReplaySlots ==
  ASSUME StoreTypeOK, WorkersStay, NEW r \in DOMAIN queue, ReplayDeadLetter(r),
         NEW task \in Tasks, NEW c
  PROVE  SlotsKept(task, c)
<1>1. /\ OnlyRow(r) /\ queue[r].status = "DEAD"
      /\ queue'[r].task_id = queue[r].task_id
  BY ReplayedRow, ReplayType DEF ReplayDeadLetter, RowsKept
<1>2. HoldsKept /\ \A w \in Workers : WorkerSlot(task, c, w)' <=> WorkerSlot(task, c, w)
  BY WorkersStaySlots
<1>3. \A i \in DOMAIN queue' : RowSlot(task, i)' => i \in DOMAIN queue /\ RowSlot(task, i)
  <2>1. RowSlot(task, r)' => RowSlot(task, r)
    BY <1>1 DEF RowSlot
  <2> QED
    BY <1>1, <1>2, <2>1, RowsSlotKept DEF OnlyRow, SameDomain
<1>4. \A h \in Handlers : RequestSlot(task, h)' <=> RequestSlot(task, h)
  BY DEF ReplayDeadLetter, RequestSlot
<1>5. Waiting(task)' => Waiting(task)
  <2> DEFINE t == queue[r].task_id
             new == [workflows[t] EXCEPT !.status = "QUEUED"]
  <2>1. t \in Tasks
    BY RowType DEF QueueRow
  <2>2. new \in Checkpoint /\ new.status = "QUEUED"
    BY <2>1, StatusFields DEF StoreTypeOK, WorkflowStatus
  <2>3. workflows' = [workflows EXCEPT ![t] = Saved(new)]
    BY DEF ReplayDeadLetter, replay_dead_letter
  <2> HIDE DEF new, t
  <2>4. Saved(new).status = "QUEUED"
    BY <2>2 DEF Saved, Checkpoint
  <2> QED
    BY <2>3, <2>4 DEF Waiting, StoreTypeOK
<1> QED
  BY <1>2, <1>3, <1>4, <1>5, SlotsKeptStep

LEMMA ControlSlots ==
  ASSUME TypeOK, CheckpointInv, LifecycleInv, NEW task \in Tasks, NEW c,
         \/ ControlStep /\ UNCHANGED workerVars
         \/ \E h \in Handlers : HandlerCrash(h),
         ~CreateIncident(task)
  PROVE  SlotsKept(task, c) \/ SlotPassed(task, c)
<1>1. StoreTypeOK /\ ControlTypeOK /\ WorkersStay
  BY TypeParts DEF workerVars, runtimeVars, localVars, HandlerCrash, WorkersStay
<1>2. ASSUME NEW other \in Tasks, CreateIncident(other), other # task PROVE SlotsKept(task, c)
  <2>1. queue' = Append(queue, NewRow(other)) /\ UNCHANGED handlerVars
    BY <1>2 DEF CreateIncident, create_workflow
  <2>2. \A i \in DOMAIN queue' : RowSlot(task, i)' => i \in DOMAIN queue /\ RowSlot(task, i)
    BY <1>1, <1>2, <2>1, AppendSlots
  <2>3. Waiting(task)' => Waiting(task)
    BY <1>1, <1>2 DEF CreateIncident, create_workflow, Waiting, StoreTypeOK
  <2> QED
    BY <1>1, <2>1, <2>2, <2>3, WorkersStaySlots, RequestsSlot, SlotsKeptStep
<1>3. ASSUME UNCHANGED workflows, queue' = queue,
             \A g \in Handlers : RequestSlot(task, g)' => RequestSlot(task, g)
      PROVE  SlotsKept(task, c)
  BY <1>1, <1>3, RequestKept DEF Waiting
<1>4. ASSUME NEW h \in Handlers, NEW other \in Tasks, Approve(h, other) \/ Reject(h, other)
      PROVE  SlotsKept(task, c)
  BY <1>1, <1>3, <1>4 DEF Approve, Reject, Open, storeVars, ControlTypeOK, RequestSlot
<1>5. ASSUME NEW h \in Handlers, Respond(h), UNCHANGED storeVars PROVE SlotsKept(task, c)
  BY <1>1, <1>3, <1>5 DEF Respond, storeVars, ControlTypeOK, RequestSlot
<1>6. ASSUME NEW h \in Handlers, ApproveResolve(h) \/ RejectResolve(h) PROVE SlotsKept(task, c)
  <2>1. ASSUME NEW resolution, NEW pc \in {"approve_save", "reject_save"},
               resolve_approval(PendingKey(h), resolution), HGoto(h, pc)
        PROVE  SlotsKept(task, c)
    BY <1>1, <1>3, <2>1 DEF resolve_approval, HGoto, ControlTypeOK, RequestSlot
  <2> QED
    BY <1>5, <1>6, <2>1 DEF ApproveResolve, RejectResolve, Resolve
<1>7. ASSUME NEW h \in Handlers, RejectSave(h) PROVE SlotsKept(task, c)
  BY <1>1, <1>7, RejectSaveSlots
<1>8. ASSUME NEW h \in Handlers, ApproveSave(h) PROVE SlotsKept(task, c) \/ SlotPassed(task, c)
  <2>1. HandlerWay(h) /\ FreshCopy(hstate[h], htask[h])
    BY <1>8 DEF CheckpointInv, CopiesFresh, LifecycleInv, ApproveSave
  <2> QED
    BY <1>1, <1>8, <2>1, ApproveSaveSlots
<1>9. ASSUME NEW h \in Handlers, ApproveEnqueue(h)
      PROVE  SlotsKept(task, c) \/ SlotPassed(task, c)
  BY <1>1, <1>9, ApproveEnqueueSlots
<1>10. ASSUME NEW i \in DOMAIN queue, ReplayDeadLetter(i) PROVE SlotsKept(task, c)
  BY <1>1, <1>10, ReplaySlots
<1>11. ASSUME NEW h \in Handlers, HandlerCrash(h) PROVE SlotsKept(task, c)
  BY <1>5, <1>11 DEF HandlerCrash
<1> QED
  BY <1>2, <1>4, <1>6, <1>7, <1>8, <1>9, <1>10, <1>11 DEF ControlStep, HandlerStep

\* A new incident has one slot, its first row.
LEMMA CreatedSlots ==
  ASSUME TypeOK, CheckpointInv, NEW task \in Tasks, NEW c, CreateIncident(task),
         UNCHANGED workerVars
  PROVE  \E y : Slots(task, c)' \subseteq {y}
<1>1. /\ StoreTypeOK /\ WorkersStay /\ queue' = Append(queue, NewRow(task))
      /\ task \notin created /\ UNCHANGED handlerVars
  BY TypeParts
  DEF workerVars, runtimeVars, localVars, WorkersStay, CreateIncident, create_workflow
<1>2. PICK n : \A i \in DOMAIN queue' : RowSlot(task, i)' =>
                    i = n \/ (i \in DOMAIN queue /\ RowSlot(task, i))
  BY <1>1, AppendSlots
<1>3. /\ \A w \in Workers : ~WorkerSlot(task, c, w)
      /\ \A i \in DOMAIN queue : ~RowSlot(task, i)
      /\ \A h \in Handlers : ~RequestSlot(task, h)
  BY <1>1 DEF CheckpointInv, OnlyCreated, WorkerSlot, SlotPC, RuntimePC, RowSlot, RequestSlot
<1>4. ~Waiting(task)'
  BY <1>1 DEF CreateIncident, create_workflow, StoreTypeOK, Waiting, NewWorkflow
<1>5. /\ \A w \in Workers : ~WorkerSlot(task, c, w)'
      /\ \A h \in Handlers : ~RequestSlot(task, h)'
  BY <1>1, <1>3, WorkersStaySlots, RequestsSlot
<1>6. \A i \in DOMAIN queue' : RowSlot(task, i)' => i = n
  BY <1>2, <1>3
<1>7. Slots(task, c)' \subseteq {<<"row", n>>}
  BY <1>4, <1>5, <1>6 DEF Slots
<1> QED
  BY <1>7

\* The result of the call c of the task is put in the ledger.
Recorded(task, c) ==
    \E w \in Workers : SaveToolResult(w) /\ Task(w) = task /\ call[w] = c

LEMMA StepBusy ==
  ASSUME StoreTypeOK, LocalTypeOK, NEW w \in Workers, ProcessStep(w) \/ ReportStep(w)
  PROVE  Busy(w)
  BY ProcessHolds
  DEF Busy, RuntimePC, ReportStep, Acknowledge, Enqueue, RetryOrDeadLetter, DeadLoad,
      DeadSave, PermanentAcknowledge, PermanentLoad, PermanentSave

LEMMA SlotMoves ==
  ASSUME TypeOK, CheckpointInv, LifecycleInv, HeldRowTask, AskingWaits, [Next]_vars,
         NEW task \in Tasks, NEW c, ~CreateIncident(task), ~Recorded(task, c)
  PROVE  SlotMove(task, c)
<1>1. StoreTypeOK /\ LocalTypeOK /\ HoldsRow /\ BudgetsTypeOK
  BY TypeParts
<1>2. ASSUME NEW w \in Workers, RunOnceStep(w), UNCHANGED handlerVars PROVE SlotMove(task, c)
  <2>1. OthersKeep(w)
    BY <1>1, <1>2, RunOnceOthersKeep
  <2>2. ASSUME NEW i \in DOMAIN queue, Claim(w, i) PROVE SlotMove(task, c)
    BY <1>1, <1>2, <2>1, <2>2, ClaimSlots DEF SlotMove
  <2>3. CASE ProcessStep(w)
    <3>1. Busy(w) /\ WorkerWay(w)
      BY <1>1, <2>3, StepBusy DEF LifecycleInv
    <3>2. ~(wpc[w] = "save_result" /\ call[w] = c /\ Task(w) = task)
      BY <2>3
      DEF Recorded, ProcessStep, Load, SaveRunning, ModelFailsRetryably, ModelFailsPermanently,
          DecideComplete, DecideFail, DecideTool, PolicyDenied, SaveWaiting, CreateApproval,
          ResumeApprovedAction, LookupResult, BackendSucceeds, BackendFailsRetryably,
          BackendTimesOut, BackendFailsPermanently, RecordResult
    <3> QED
      BY <1>2, <2>1, <2>3, <3>1, <3>2, ProcessSlots DEF SlotMove
  <2>4. CASE ReportStep(w)
    BY <1>1, <1>2, <2>1, <2>4, StepBusy, ReportSlots DEF SlotMove
  <2> QED
    BY <1>2, <2>2, <2>3, <2>4 DEF RunOnceStep, ReportStep
<1>3. CASE WorkerNext /\ UNCHANGED handlerVars
  BY <1>1, <1>2, <1>3, HeartbeatSlots, CrashSlots, ExpireSlots DEF WorkerNext
<1>4. CASE (ControlStep /\ UNCHANGED workerVars) \/ (\E h \in Handlers : HandlerCrash(h))
  BY <1>4, ControlSlots DEF SlotMove
<1>5. CASE UNCHANGED vars
  <2>1. WorkersStay /\ queue' = queue /\ Waiting(task)' = Waiting(task) /\ UNCHANGED handlerVars
    BY <1>5
    DEF vars, storeVars, workerVars, runtimeVars, localVars, WorkersStay, Waiting
  <2> QED
    BY <1>1, <2>1, RequestsSlot, RequestKept DEF SlotMove
<1> QED
  BY <1>3, <1>4, <1>5 DEF Next

-----------------------------------------------------------------------------
(* The bounds hold step by step *)

\* One more slot needs one more disturbance.
LEMMA SlotMoveCounts ==
  ASSUME NEW task, NEW c, SlotMove(task, c), IsFiniteSet(Slots(task, c)),
         BudgetsGrow, NEW extra \in Nat, NEW base \in Nat,
         extra + Cardinality(Slots(task, c)) <= base + Disturbances
  PROVE  /\ IsFiniteSet(Slots(task, c)') /\ Cardinality(Slots(task, c)') \in Nat
         /\ extra + Cardinality(Slots(task, c)') <= base + Disturbances'
<1>1. /\ Cardinality(Slots(task, c)) \in Nat
      /\ Disturbances \in Nat /\ Disturbances' \in Nat /\ Disturbances <= Disturbances'
  BY FS_CardinalityType, SMT DEF BudgetsGrow, Disturbances
<1>2. CASE SlotsKept(task, c) \/ SlotPassed(task, c)
  <2>1. /\ IsFiniteSet(Slots(task, c)') /\ Cardinality(Slots(task, c)') \in Nat
        /\ Cardinality(Slots(task, c)') <= Cardinality(Slots(task, c))
    BY <1>2, Shrink, Exchange DEF SlotsKept, SlotPassed
  <2>2. extra + Cardinality(Slots(task, c)') <= base + Disturbances'
    BY <1>1, <2>1, SMT
  <2> QED
    BY <2>1, <2>2
<1>3. CASE SlotMade(task, c) /\ Disturbances' = Disturbances + 1
  <2>1. /\ IsFiniteSet(Slots(task, c)') /\ Cardinality(Slots(task, c)') \in Nat
        /\ Cardinality(Slots(task, c)') <= Cardinality(Slots(task, c)) + 1
    BY <1>3, Grow DEF SlotMade
  <2>2. extra + Cardinality(Slots(task, c)') <= base + Disturbances'
    BY <1>1, <1>3, <2>1, SMT
  <2> QED
    BY <2>1, <2>2
<1> QED
  BY <1>2, <1>3 DEF SlotMove

-----------------------------------------------------------------------------
(* The ledger and the backend *)

\* What a step does to the ledger and to the infrastructure.
Untouched == UNCHANGED <<tool_results, effects, timeouts>>

LedgerStep ==
    \/ Untouched
    \/ \E w \in Workers : SaveToolResult(w) /\ UNCHANGED <<effects, timeouts>>
    \/ \E w \in Workers, r \in Results :
            BackendSucceeds(w, r) /\ UNCHANGED <<tool_results, timeouts, handlerVars>>
    \/ \E w \in Workers :
            /\ wpc[w] = "backend" /\ Effect(CurrentKey(w))
            /\ timeouts' = timeouts + 1 /\ UNCHANGED tool_results

LEMMA LedgerSteps ==
  ASSUME [Next]_vars
  PROVE  LedgerStep
<1>1. ASSUME NEW w \in Workers, ProcessStep(w), UNCHANGED handlerVars PROVE LedgerStep
  <2>1. CASE \/ Load(w) \/ SaveRunning(w) \/ ModelFailsRetryably(w) \/ ModelFailsPermanently(w)
             \/ DecideComplete(w) \/ DecideFail(w) \/ PolicyDenied(w) \/ SaveWaiting(w)
             \/ CreateApproval(w) \/ ResumeApprovedAction(w) \/ LookupResult(w)
             \/ BackendFailsRetryably(w) \/ BackendFailsPermanently(w) \/ RecordResult(w)
    BY <2>1
    DEF Load, SaveRunning, ModelFailsRetryably, ModelFailsPermanently, DecideComplete,
        DecideFail, PolicyDenied, SaveWaiting, CreateApproval, create_approval,
        ResumeApprovedAction, LookupResult, BackendFailsRetryably, BackendFailsPermanently,
        RecordResult, SaveAndReturn, SaveAndGoto, SaveAndRaise, StaleSave, save_workflow,
        Fail, FailRetryably, storeVars, LedgerStep, Untouched
  <2>2. ASSUME NEW c \in Calls, DecideTool(w, c) PROVE LedgerStep
    BY <2>2
    DEF DecideTool, SaveAndReturn, StaleSave, save_workflow, storeVars, LedgerStep, Untouched
  <2>3. ASSUME NEW r \in Results, BackendSucceeds(w, r) PROVE LedgerStep
    <3>1. UNCHANGED <<tool_results, timeouts, handlerVars>>
      BY <1>1, <2>3 DEF BackendSucceeds, storeVars
    <3> QED
      BY <2>3, <3>1 DEF LedgerStep
  <2>4. CASE BackendTimesOut(w)
    BY <2>4
    DEF BackendTimesOut, FailRetryably, SaveAndRaise, StaleSave, save_workflow, storeVars,
        LedgerStep
  <2>5. CASE SaveToolResult(w)
    BY <2>5 DEF SaveToolResult, LedgerStep
  <2> QED
    BY <1>1, <2>1, <2>2, <2>3, <2>4, <2>5 DEF ProcessStep
<1>2. ASSUME NEW w \in Workers, ReportStep(w) \/ \E i \in DOMAIN queue : Claim(w, i)
      PROVE  LedgerStep
  BY <1>2
  DEF Claim, claim, ReportStep, Acknowledge, Enqueue, RetryOrDeadLetter, DeadLoad, DeadSave,
      PermanentAcknowledge, PermanentLoad, PermanentSave, Reload, SaveFinal, storeVars, Budgets,
      acknowledge, enqueue, retry_or_dead_letter, save_workflow, LedgerStep, Untouched
<1>3. ASSUME NEW w \in Workers, Heartbeat(w) \/ WorkerCrash(w) PROVE LedgerStep
  BY <1>3
  DEF Heartbeat, extend_lease, WorkerCrash, storeVars, workerVars, runtimeVars, LedgerStep,
      Untouched
<1>4. ASSUME NEW i \in DOMAIN queue, LeaseExpires(i) PROVE LedgerStep
  BY <1>4 DEF LeaseExpires, runtimeVars, LedgerStep, Untouched
<1>5. CASE \/ ControlStep /\ UNCHANGED workerVars
           \/ \E h \in Handlers : HandlerCrash(h)
  <2>1. UNCHANGED <<effects, timeouts>>
    BY <1>5 DEF workerVars, runtimeVars, HandlerCrash
  <2>2. UNCHANGED tool_results
    BY <1>5
    DEF ControlStep, CreateIncident, create_workflow, Approve, Reject, Open, HandlerStep,
        ApproveResolve, ApproveSave, ApproveEnqueue, RejectResolve, RejectSave, Resolve,
        resolve_approval, StaleRequest, save_workflow, enqueue, ReplayDeadLetter,
        replay_dead_letter, HandlerCrash, storeVars
  <2> QED
    BY <2>1, <2>2 DEF LedgerStep, Untouched
<1>6. CASE UNCHANGED vars
  BY <1>6 DEF vars, storeVars, workerVars, runtimeVars, LedgerStep, Untouched
<1> QED
  BY <1>1, <1>2, <1>3, <1>4, <1>5, <1>6 DEF Next, WorkerNext, RunOnceStep, ReportStep

\* Where and on what a worker is, in a step that is not its own.
SameWork(v) ==
    wpc'[v] = wpc[v] /\ delivery'[v] = delivery[v] /\ state'[v] = state[v]
    /\ call'[v] = call[v] /\ result'[v] = result[v]

\* Only a step of its own takes a worker anywhere but out.
LEMMA OwnSteps ==
  ASSUME LocalTypeOK, [Next]_vars, NEW v \in Workers
  PROVE  \/ RunOnceStep(v) /\ UNCHANGED handlerVars
         \/ SameWork(v)
         \/ wpc'[v] = "idle" /\ WorkerCrash(v)
<1>1. ASSUME NEW w \in Workers, RunOnceStep(w), UNCHANGED handlerVars
      PROVE  (RunOnceStep(v) /\ UNCHANGED handlerVars) \/ SameWork(v)
  BY <1>1, RunOnceOthersKeep DEF OthersKeep, SameWork
<1>2. ASSUME NEW w \in Workers, WorkerCrash(w)
      PROVE  SameWork(v) \/ (wpc'[v] = "idle" /\ WorkerCrash(v))
  BY <1>2 DEF WorkerCrash, Finish, Goto, LocalTypeOK, SameWork
<1>3. ASSUME UNCHANGED <<wpc, delivery, state, call, result>> PROVE SameWork(v)
  BY <1>3 DEF SameWork
<1>4. ASSUME NEW w \in Workers, Heartbeat(w) PROVE SameWork(v)
  BY <1>3, <1>4 DEF Heartbeat, workerVars, runtimeVars, localVars
<1>5. ASSUME NEW i \in DOMAIN queue, LeaseExpires(i) PROVE SameWork(v)
  BY <1>3, <1>5 DEF LeaseExpires, runtimeVars, localVars
<1>6. ASSUME \/ ControlStep /\ UNCHANGED workerVars
             \/ \E h \in Handlers : HandlerCrash(h)
             \/ UNCHANGED vars
      PROVE  SameWork(v)
  BY <1>3, <1>6 DEF workerVars, runtimeVars, localVars, HandlerCrash, vars
<1> QED
  BY <1>1, <1>2, <1>4, <1>5, <1>6 DEF Next, WorkerNext

\* The ways into and through the gateway.
LEMMA EnterTool ==
  ASSUME LocalTypeOK, NEW w \in Workers, RunOnceStep(w),
         wpc'[w] \in {"backend", "save_result", "record"}
  PROVE  LookupResult(w) \/ SaveToolResult(w) \/ \E r \in Results : BackendSucceeds(w, r)
<1> USE DEF LocalTypeOK, Goto
<1>1. ASSUME NEW new, \/ Return(w, new) \/ StaleSave(w, new)
                      \/ SaveAndReturn(w, new) \/ SaveAndRaise(w, new)
      PROVE  FALSE
  BY <1>1 DEF Return, StaleSave, LeaveProcess, SaveAndReturn, SaveAndRaise
<1>2. ASSUME NEW new, NEW pc \in {"decide", "create_approval"}, SaveAndGoto(w, new, pc)
      PROVE  FALSE
  BY <1>1, <1>2 DEF SaveAndGoto
<1>3. CASE \/ SaveRunning(w) \/ SaveWaiting(w) \/ ModelFailsRetryably(w)
           \/ BackendFailsRetryably(w) \/ BackendTimesOut(w) \/ DecideComplete(w)
           \/ DecideFail(w) \/ PolicyDenied(w) \/ BackendFailsPermanently(w) \/ RecordResult(w)
           \/ CreateApproval(w)
  BY <1>1, <1>2, <1>3
  DEF SaveRunning, SaveWaiting, ModelFailsRetryably, BackendFailsRetryably, BackendTimesOut,
      DecideComplete, DecideFail, PolicyDenied, BackendFailsPermanently, RecordResult, Fail,
      FailRetryably, CreateApproval
<1>4. ASSUME NEW c \in Calls, DecideTool(w, c) PROVE FALSE
  BY <1>1, <1>4 DEF DecideTool, AfterPolicy
<1>5. CASE Load(w) \/ ResumeApprovedAction(w) \/ ModelFailsPermanently(w)
  BY <1>1, <1>5
  DEF Load, AfterLoad, ResumeApprovedAction, ModelFailsPermanently, LeaveProcess
<1>6. CASE ReportStep(w) \/ \E i \in DOMAIN queue : Claim(w, i)
  BY <1>6
  DEF Claim, ReportStep, Acknowledge, Enqueue, RetryOrDeadLetter, DeadLoad, DeadSave,
      PermanentAcknowledge, PermanentLoad, PermanentSave, Reload, SaveFinal, Finish,
      LeaveProcess
<1> QED
  BY <1>3, <1>4, <1>5, <1>6 DEF RunOnceStep, ProcessStep, ReportStep

\* A worker gets to the backend only by way of an empty ledger.
LEMMA EnterBackend ==
  ASSUME LocalTypeOK, NEW w \in Workers, RunOnceStep(w), wpc'[w] = "backend"
  PROVE  /\ LookupResult(w)
         /\ tool_results[CurrentKey(w)] = NoResult
         /\ CurrentKey(w)' = CurrentKey(w)
<1>1. LookupResult(w)
  BY EnterTool DEF SaveToolResult, BackendSucceeds, Goto, LocalTypeOK
<1> QED
  BY <1>1 DEF LookupResult, AfterLookup, CurrentKey, Task, Goto, LocalTypeOK

\* Only a step of its own takes a worker past the loading of its checkpoint.
OnItsOwn(v) == RunOnceStep(v) \/ SameWork(v) \/ wpc'[v] \notin RuntimePC \ {"load"}

LEMMA OwnWays ==
  ASSUME LocalTypeOK, [Next]_vars
  PROVE  \A v \in Workers : OnItsOwn(v)
  BY OwnSteps DEF OnItsOwn, RuntimePC

\* Nobody comes to the backend for a call in the ledger, or in the step that puts it there.
LEMMA ActorsStep ==
  ASSUME LocalTypeOK, \A v \in Workers : OnItsOwn(v), NEW task, NEW c,
         \/ tool_results[<<task, c>>] # NoResult
         \/ tool_results'[<<task, c>>] # tool_results[<<task, c>>]
  PROVE  Actors(task, c)' \subseteq Actors(task, c)
<1> SUFFICES ASSUME NEW v \in Workers, wpc'[v] = "backend", CurrentKey(v)' = <<task, c>>
             PROVE  wpc[v] = "backend" /\ CurrentKey(v) = <<task, c>>
  BY DEF Actors
<1>1. ~RunOnceStep(v)
  BY EnterBackend DEF LookupResult, storeVars
<1>2. SameWork(v)
  BY <1>1 DEF OnItsOwn, RuntimePC
<1> QED
  BY <1>2 DEF SameWork, CurrentKey, Task

-----------------------------------------------------------------------------
(* Slots are bounded *)

LEMMA WorkersCreateNothing ==
  ASSUME WorkerNext
  PROVE  UNCHANGED created
<1>1. ASSUME NEW w \in Workers, RunOnceStep(w) PROVE UNCHANGED created
  <2>1. ASSUME NEW c \in Calls, DecideTool(w, c) PROVE UNCHANGED created
    BY <2>1 DEF DecideTool, SaveAndReturn, StaleSave, save_workflow, storeVars
  <2>2. CASE ProcessStep(w)
    BY <2>1, <2>2
    DEF ProcessStep, Load, SaveRunning, ModelFailsRetryably, ModelFailsPermanently,
        DecideComplete, DecideFail, PolicyDenied, SaveWaiting, CreateApproval, create_approval,
        ResumeApprovedAction, LookupResult, BackendSucceeds, BackendFailsRetryably,
        BackendTimesOut, BackendFailsPermanently, SaveToolResult, save_tool_result,
        RecordResult, SaveAndReturn, SaveAndGoto, SaveAndRaise, StaleSave, save_workflow,
        Fail, FailRetryably, storeVars
  <2>3. CASE ~ProcessStep(w)
    BY <1>1, <2>3
    DEF RunOnceStep, Claim, claim, Acknowledge, Enqueue, RetryOrDeadLetter, DeadLoad, DeadSave,
        PermanentAcknowledge, PermanentLoad, PermanentSave, Reload, SaveFinal, storeVars,
        acknowledge, enqueue, retry_or_dead_letter, save_workflow
  <2> QED
    BY <2>2, <2>3
<1> QED
  BY <1>1
  DEF WorkerNext, Heartbeat, extend_lease, WorkerCrash, LeaseExpires, storeVars
LEMMA CreatedApart ==
  ASSUME [Next]_vars, NEW task \in Tasks, CreateIncident(task)
  PROVE  UNCHANGED workerVars
<1>1. created' # created
  BY DEF CreateIncident, create_workflow
<1> QED
  BY <1>1, WorkersCreateNothing DEF Next, HandlerCrash, vars, storeVars

LEMMA CreatedGrows ==
  ASSUME [Next]_vars
  PROVE  created \subseteq created'
<1>1. CASE ControlStep
  BY <1>1
  DEF ControlStep, CreateIncident, create_workflow, Approve, Reject, Open, HandlerStep,
      ApproveResolve, ApproveSave, ApproveEnqueue, RejectResolve, RejectSave, Resolve,
      resolve_approval, StaleRequest, save_workflow, enqueue, ReplayDeadLetter,
      replay_dead_letter, storeVars
<1> QED
  BY <1>1, WorkersCreateNothing DEF Next, HandlerCrash, vars, storeVars

LEMMA SlotsBoundedNext ==
  ASSUME TypeOK, CheckpointInv, LifecycleInv, HeldRowTask, AskingWaits, [Next]_vars,
         BudgetsGrow, NEW task \in Tasks, SlotsBounded(task)
  PROVE  SlotsBounded(task)'
<1>1. CASE CreateIncident(task)
  <2>1. PICK y : Slots(task, NoCall)' \subseteq {y}
    BY <1>1, CreatedApart, CreatedSlots
  <2>2. /\ IsFiniteSet(Slots(task, NoCall)') /\ Cardinality(Slots(task, NoCall)') \in Nat
        /\ Cardinality(Slots(task, NoCall)') <= 1
    BY <2>1, OneElement
  <2>3. Disturbances' \in Nat
    BY SMT DEF BudgetsGrow, Disturbances
  <2>4. Cardinality(Slots(task, NoCall)') <= 1 + Disturbances'
    BY <2>2, <2>3, SMT
  <2> QED
    BY <2>2, <2>4 DEF SlotsBounded
<1>2. CASE ~CreateIncident(task)
  <2>1. ~Recorded(task, NoCall)
    BY ModelsAssumption
    DEF Recorded, SaveToolResult, TypeOK, CallChosen, CallPC
  <2>2. SlotMove(task, NoCall)
    BY <1>2, <2>1, SlotMoves
  <2>3. IsFiniteSet(Slots(task, NoCall))
    BY DEF SlotsBounded
  <2>4. 0 + Cardinality(Slots(task, NoCall)) <= 1 + Disturbances
    <3>1. Cardinality(Slots(task, NoCall)) \in Nat
      BY <2>3, FS_CardinalityType
    <3> QED
      BY <3>1, SMT DEF SlotsBounded
  <2>5. /\ IsFiniteSet(Slots(task, NoCall)') /\ Cardinality(Slots(task, NoCall)') \in Nat
        /\ 0 + Cardinality(Slots(task, NoCall)') <= 1 + Disturbances'
    BY <2>2, <2>3, <2>4, SlotMoveCounts
  <2>6. Cardinality(Slots(task, NoCall)') <= 1 + Disturbances'
    BY <2>5, SMT
  <2> QED
    BY <2>5, <2>6 DEF SlotsBounded
<1> QED
  BY <1>1, <1>2

-----------------------------------------------------------------------------
(* Effects are bounded *)

\* What a step does to one call: nothing but perhaps record it, or one effect.
KeyQuiet(key) ==
    effects'[key] = effects[key] /\ timeouts' \in {timeouts, timeouts + 1}

KeyDone(key) ==
    /\ effects'[key] = effects[key] + 1 /\ timeouts' = timeouts /\ tool_results' = tool_results
    /\ UNCHANGED handlerVars
    /\ \E w \in Workers, r \in Results : BackendSucceeds(w, r) /\ CurrentKey(w) = key

KeyTimedOut(key) ==
    effects'[key] = effects[key] + 1 /\ timeouts' = timeouts + 1 /\ tool_results' = tool_results

LEMMA KeyStep ==
  ASSUME EffectsTypeOK, LedgerStep, NEW key \in Key
  PROVE  KeyQuiet(key) \/ KeyDone(key) \/ KeyTimedOut(key)
<1>2. ASSUME NEW k, Effect(k)
      PROVE  effects'[key] = IF key = k THEN effects[key] + 1 ELSE effects[key]
  BY <1>2 DEF Effect, EffectsTypeOK
<1>3. CASE Untouched \/ UNCHANGED <<effects, timeouts>>
  BY <1>3 DEF Untouched, KeyQuiet
<1>4. ASSUME NEW w \in Workers, NEW r \in Results, BackendSucceeds(w, r),
             UNCHANGED <<tool_results, timeouts, handlerVars>>
      PROVE  KeyQuiet(key) \/ KeyDone(key)
  <2>1. Effect(CurrentKey(w))
    BY <1>4 DEF BackendSucceeds
  <2> QED
    BY <1>2, <1>4, <2>1 DEF KeyQuiet, KeyDone
<1>5. ASSUME NEW w \in Workers, Effect(CurrentKey(w)), timeouts' = timeouts + 1,
             UNCHANGED tool_results
      PROVE  KeyQuiet(key) \/ KeyTimedOut(key)
  BY <1>2, <1>5 DEF KeyQuiet, KeyTimedOut
<1> QED
  BY <1>3, <1>4, <1>5 DEF LedgerStep

\* Who is about to carry c out has a slot.
LEMMA ActorSlot ==
  ASSUME NEW task, NEW c, NEW w \in Workers, wpc[w] = "backend", CurrentKey(w) = <<task, c>>
  PROVE  WorkerSlot(task, c, w)
  BY DEF WorkerSlot, SlotPC, RuntimePC, CurrentKey, action_id

LEMMA ActorSlots ==
  ASSUME NEW task, NEW c
  PROVE  Actors(task, c) \subseteq Slots(task, c)
  BY ActorSlot DEF Actors, Slots

\* The first result stays.
LEMMA LedgerKeeps ==
  ASSUME StoreTypeOK, LedgerStep, NEW key \in Key
  PROVE  tool_results[key] # NoResult => tool_results'[key] = tool_results[key]
  BY DEF LedgerStep, Untouched, SaveToolResult, save_tool_result, StoreTypeOK

LEMMA RecordedFills ==
  ASSUME StoreTypeOK, LocalTypeOK, ResultInHand, NEW task \in Tasks, NEW c \in Calls,
         Recorded(task, c)
  PROVE  tool_results'[<<task, c>>] # NoResult
<1>1. PICK w \in Workers : SaveToolResult(w) /\ Task(w) = task /\ call[w] = c
  BY DEF Recorded
<1>2. /\ save_tool_result(<<task, c>>, result[w]) /\ result[w] # NoResult
      /\ <<task, c>> \in Key
  BY <1>1 DEF SaveToolResult, CurrentKey, action_id, ResultInHand, Key
<1> QED
  BY <1>2 DEF save_tool_result, StoreTypeOK

\* A call of a task with a workflow row.
LEMMA EffectsBoundedStep ==
  ASSUME TypeOK, EffectsTypeOK', CheckpointInv, LifecycleInv, HeldRowTask, AskingWaits,
         [Next]_vars, BudgetsGrow, NEW task \in Tasks, NEW c \in Calls, ~CreateIncident(task),
         EffectsBounded(task, c)
  PROVE  EffectsBounded(task, c)'
<1> DEFINE key == <<task, c>>
           n == Cardinality(Candidates(task, c))
           m == Cardinality(Candidates(task, c)')
<1>1. key \in Key /\ StoreTypeOK /\ LocalTypeOK /\ EffectsTypeOK
  BY TypeParts DEF Key
<1>2. /\ IsFiniteSet(Candidates(task, c)) /\ n \in Nat
      /\ effects[key] \in Nat /\ effects'[key] \in Nat /\ timeouts \in Nat /\ timeouts' \in Nat
      /\ Disturbances \in Nat /\ Disturbances' \in Nat /\ Disturbances <= Disturbances'
  <2>1. effects[key] \in Nat /\ effects'[key] \in Nat /\ timeouts \in Nat /\ timeouts' \in Nat
    BY <1>1 DEF EffectsTypeOK
  <2>2. IsFiniteSet(Candidates(task, c)) /\ n \in Nat
    BY FS_CardinalityType DEF EffectsBounded
  <2>3. Disturbances \in Nat /\ Disturbances' \in Nat /\ Disturbances <= Disturbances'
    BY SMT DEF BudgetsGrow, Disturbances
  <2> QED
    BY <2>1, <2>2, <2>3
<1>3. effects[key] + n <= 1 + Disturbances + timeouts
  BY DEF EffectsBounded
<1>0. LedgerStep /\ \A v \in Workers : OnItsOwn(v)
  BY <1>1, LedgerSteps, OwnWays
<1>4. KeyQuiet(key) \/ KeyDone(key) \/ KeyTimedOut(key)
  BY <1>0, <1>1, KeyStep
<1>5. ASSUME IsFiniteSet(Candidates(task, c)'), m \in Nat,
             effects'[key] + m <= 1 + Disturbances' + timeouts'
      PROVE  EffectsBounded(task, c)'
  BY <1>5 DEF EffectsBounded
<1>6. ASSUME Candidates(task, c)' \subseteq Candidates(task, c), ~KeyDone(key)
      PROVE  EffectsBounded(task, c)'
  <2>1. IsFiniteSet(Candidates(task, c)') /\ m \in Nat /\ m <= n
    BY <1>2, <1>6, Shrink
  <2>2. effects'[key] - effects[key] <= timeouts' - timeouts
    BY <1>2, <1>4, <1>6, SMT DEF KeyQuiet, KeyTimedOut
  <2> HIDE DEF m, n
  <2>3. effects'[key] + m <= 1 + Disturbances' + timeouts'
    BY <1>2, <1>3, <2>1, <2>2, SMT
  <2> QED
    BY <1>5, <2>1, <2>3
<1>7. ASSUME NEW x \in Candidates(task, c),
             Candidates(task, c)' \subseteq Candidates(task, c) \ {x}
      PROVE  EffectsBounded(task, c)'
  <2>1. IsFiniteSet(Candidates(task, c)') /\ m \in Nat /\ m <= n - 1
    BY <1>2, <1>7, Discard
  <2>2. effects'[key] - effects[key] <= 1 + (timeouts' - timeouts) /\ timeouts <= timeouts'
    BY <1>2, <1>4, SMT DEF KeyQuiet, KeyDone, KeyTimedOut
  <2> HIDE DEF m, n
  <2>3. effects'[key] + m <= 1 + Disturbances' + timeouts'
    BY <1>2, <1>3, <2>1, <2>2, SMT
  <2> QED
    BY <1>5, <2>1, <2>3
<1>8. CASE tool_results[key] # NoResult
  <2>1. tool_results'[key] # NoResult
    BY <1>0, <1>1, <1>8, LedgerKeeps
  <2>2. Candidates(task, c) = Actors(task, c) /\ Candidates(task, c)' = Actors(task, c)'
    BY <1>8, <2>1 DEF Candidates
  <2>3. Candidates(task, c)' \subseteq Candidates(task, c)
    BY <1>0, <1>1, <1>8, <2>2, ActorsStep
  <2>4. CASE KeyDone(key)
    <3>1. PICK w \in Workers, r \in Results : BackendSucceeds(w, r) /\ CurrentKey(w) = key
      BY <2>4 DEF KeyDone
    <3>2. wpc[w] = "backend" /\ wpc'[w] # "backend"
      BY <1>1, <3>1 DEF BackendSucceeds, Goto, LocalTypeOK
    <3>3. <<"worker", w>> \in Actors(task, c) /\ <<"worker", w>> \notin Actors(task, c)'
      BY <3>1, <3>2 DEF Actors
    <3> QED
      BY <1>7, <2>2, <2>3, <3>3
  <2> QED
    BY <1>6, <2>3, <2>4
<1>9. CASE tool_results[key] = NoResult /\ tool_results'[key] # NoResult
  <2>1. Candidates(task, c) = Slots(task, c) /\ Candidates(task, c)' = Actors(task, c)'
    BY <1>9 DEF Candidates
  <2>2. Candidates(task, c)' \subseteq Candidates(task, c)
    BY <1>0, <1>1, <1>9, <2>1, ActorsStep, ActorSlots
  <2> QED
    BY <1>6, <1>9, <2>2 DEF KeyDone
<1>10. CASE tool_results[key] = NoResult /\ tool_results'[key] = NoResult
  <2>1. Candidates(task, c) = Slots(task, c) /\ Candidates(task, c)' = Slots(task, c)'
    BY <1>10 DEF Candidates
  <2>2. CASE KeyDone(key)
    <3>1. PICK w \in Workers, r \in Results : BackendSucceeds(w, r) /\ CurrentKey(w) = key
      BY <2>2 DEF KeyDone
    <3>2. Task(w) = task /\ call[w] = c
      BY <3>1 DEF CurrentKey, action_id
    <3>3. wpc[w] = "backend" /\ wpc'[w] = "save_result"
      BY <1>1, <3>1 DEF BackendSucceeds, Goto, LocalTypeOK
    <3>4. RunOnceStep(w) /\ Busy(w) /\ UNCHANGED handlerVars
      BY <1>1, <3>3, OwnSteps DEF SameWork, Busy
    <3>5. OthersKeep(w)
      BY <1>1, <3>4, RunOnceOthersKeep
    <3>6. /\ <<"worker", w>> \in Slots(task, c)
          /\ Slots(task, c)' \subseteq Slots(task, c) \ {<<"worker", w>>}
      BY <3>1, <3>2, <3>4, <3>5, BackendSlots
    <3> QED
      BY <1>7, <2>1, <3>6
  <2>3. CASE ~KeyDone(key)
    <3>1. ~Recorded(task, c)
      BY <1>1, <1>10, RecordedFills DEF CheckpointInv
    <3>2. SlotMove(task, c)
      BY <3>1, SlotMoves
    <3>3. 1 + timeouts \in Nat /\ effects[key] + n <= (1 + timeouts) + Disturbances
      BY <1>2, <1>3, SMT
    <3>4. IsFiniteSet(Slots(task, c)) /\ n = Cardinality(Slots(task, c))
      BY <1>2, <2>1
    <3>5. /\ IsFiniteSet(Slots(task, c)') /\ Cardinality(Slots(task, c)') \in Nat
          /\ effects[key] + Cardinality(Slots(task, c)') <= (1 + timeouts) + Disturbances'
      BY <1>2, <3>2, <3>3, <3>4, SlotMoveCounts
    <3>6. /\ IsFiniteSet(Candidates(task, c)') /\ m \in Nat
          /\ effects[key] + m <= (1 + timeouts) + Disturbances'
      BY <2>1, <3>5
    <3> HIDE DEF m, n
    <3>7. effects'[key] - effects[key] <= timeouts' - timeouts
      BY <1>2, <1>4, <2>3, SMT DEF KeyQuiet, KeyTimedOut
    <3>8. effects'[key] + m <= 1 + Disturbances' + timeouts'
      BY <1>2, <3>6, <3>7, SMT
    <3> QED
      BY <1>5, <3>6, <3>8
  <2> QED
    BY <2>2, <2>3
<1> QED
  BY <1>8, <1>9, <1>10

LEMMA EffectsBoundedNext ==
  ASSUME TypeOK, EffectsTypeOK', CheckpointInv, LifecycleInv, HeldRowTask, AskingWaits,
         EffectsOnCreated, [Next]_vars, BudgetsGrow, NEW task \in Tasks, NEW c \in Calls,
         EffectsBounded(task, c)
  PROVE  EffectsBounded(task, c)'
<1>1. CASE CreateIncident(task)
  <2>1. /\ UNCHANGED workerVars /\ UNCHANGED tool_results /\ task \in Tasks \ created
        /\ <<task, c>> \in Key
    BY <1>1, CreatedApart DEF CreateIncident, create_workflow, Key
  <2>2. effects'[<<task, c>>] = 0 /\ tool_results'[<<task, c>>] = NoResult
    BY <2>1 DEF workerVars, runtimeVars, EffectsOnCreated, LifecycleInv, LedgerPerformed
  <2>3. Candidates(task, c)' = Slots(task, c)'
    BY <2>2 DEF Candidates
  <2>4. PICK y : Slots(task, c)' \subseteq {y}
    BY <1>1, <2>1, CreatedSlots
  <2>5. /\ IsFiniteSet(Candidates(task, c)') /\ Cardinality(Candidates(task, c)') \in Nat
        /\ Cardinality(Candidates(task, c)') <= 1
    BY <2>3, <2>4, OneElement
  <2>6. Disturbances' \in Nat /\ timeouts' \in Nat
    BY SMT DEF BudgetsGrow, Disturbances, EffectsTypeOK
  <2>7. effects'[<<task, c>>] + Cardinality(Candidates(task, c)') <= 1 + Disturbances' + timeouts'
    BY <2>2, <2>5, <2>6, SMT
  <2> QED
    BY <2>5, <2>7 DEF EffectsBounded
<1>2. CASE ~CreateIncident(task)
  BY <1>2, EffectsBoundedStep
<1> QED
  BY <1>1, <1>2

-----------------------------------------------------------------------------
(* What the counting takes for granted of a worker *)

LEMMA RowsKeepTask ==
  ASSUME TypeOK, [Next]_vars
  PROVE  RowsKept
<1>1. StoreTypeOK /\ LocalTypeOK /\ HoldsRow /\ ControlTypeOK
  BY TypeParts
<1>2. ASSUME NEW w \in Workers, RunOnceStep(w) PROVE RowsKept
  <2>1. ASSUME NEW i \in DOMAIN queue, Claim(w, i) PROVE RowsKept
    BY <1>1, <2>1, ClaimStepType DEF StoreStepOK
  <2>2. CASE ProcessStep(w) \/ ReportStep(w)
    <3>1. Busy(w) /\ delivery[w].id \in DOMAIN queue
      BY <1>1, <2>2, StepBusy DEF Busy, HoldsRow
    <3> QED
      BY <2>2, <3>1, ProcessStepType, ReportStepType DEF StoreStepOK
  <2> QED
    BY <1>2, <2>1, <2>2 DEF RunOnceStep, ReportStep
<1>3. ASSUME NEW w \in Workers, Heartbeat(w) PROVE RowsKept
  BY <1>1, <1>3, ExtendLeaseType DEF Heartbeat, Suspended, HoldsRow
<1>4. ASSUME NEW i \in DOMAIN queue, LeaseExpires(i) PROVE RowsKept
  BY <1>1, <1>4, LeaseExpiresType DEF StoreStepOK
<1>5. CASE ControlStep /\ UNCHANGED workerVars
  BY <1>1, <1>5, ControlStepType DEF StoreStepOK
<1>6. ASSUME UNCHANGED storeVars PROVE RowsKept
  BY <1>1, <1>6, StoreUnchanged DEF StoreStepOK
<1> QED
  BY <1>2, <1>3, <1>4, <1>5, <1>6 DEF Next, WorkerNext, WorkerCrash, HandlerCrash, vars

\* A worker goes on with the delivery it has until it claims another.
LEMMA DeliveryStays ==
  ASSUME TypeOK, [Next]_vars, NEW v \in Workers, wpc'[v] # "idle"
  PROVE  \/ wpc[v] # "idle" /\ delivery'[v] = delivery[v]
         \/ \E i \in DOMAIN queue : Claim(v, i)
<1>1. StoreTypeOK /\ LocalTypeOK /\ HoldsRow
  BY TypeParts
<1>2. CASE ProcessStep(v) \/ ReportStep(v)
  <2>1. Busy(v) /\ delivery[v].id \in DOMAIN queue
    BY <1>1, <1>2, StepBusy DEF Busy, HoldsRow
  <2> QED
    BY <1>2, <2>1, ProcessStepType, ReportStepType DEF LocalStepOK, NothingClaimed
<1>3. CASE SameWork(v)
  BY <1>3 DEF SameWork
<1> QED
  BY <1>1, <1>2, <1>3, OwnSteps DEF RunOnceStep, ReportStep

LEMMA HeldRowTaskNext ==
  ASSUME TypeOK, HeldRowTask, [Next]_vars
  PROVE  HeldRowTask'
<1> SUFFICES ASSUME NEW v \in Workers, wpc'[v] # "idle"
             PROVE  queue'[delivery'[v].id].task_id = delivery'[v].task_id
  BY DEF HeldRowTask, Task
<1>1. RowsKept /\ HoldsRow /\ LocalTypeOK
  BY RowsKeepTask, TypeParts
<1>2. CASE wpc[v] # "idle" /\ delivery'[v] = delivery[v]
  BY <1>1, <1>2 DEF HeldRowTask, HoldsRow, RowsKept, Task
<1>3. ASSUME NEW i \in DOMAIN queue, Claim(v, i)
      PROVE  queue'[delivery'[v].id].task_id = delivery'[v].task_id
  BY <1>1, <1>3 DEF Claim, RowsKept, LocalTypeOK
<1> QED
  BY <1>2, <1>3, DeliveryStays

\* A worker asks for an approval only for the checkpoint it has just saved as waiting.
LEMMA EnterAsking ==
  ASSUME StoreTypeOK, LocalTypeOK, NEW w \in Workers, RunOnceStep(w),
         wpc'[w] = "create_approval"
  PROVE  /\ state'[w].status = "WAITING_FOR_APPROVAL"
         /\ delivery' = delivery /\ workflows'[Task(w)] = state'[w]
<1>1. /\ state[w] \in Checkpoint /\ (wpc[w] = "pend" => call[w] \in Calls)
      /\ Task(w) \in Tasks
  BY DEF LocalTypeOK, CallChosen, CallPC, Delivery, Task
<1>2. CASE SaveWaiting(w)
  <2> DEFINE new == [state[w] EXCEPT !.status = "WAITING_FOR_APPROVAL",
                                     !.pending_action = call[w]]
  <2>1. new \in Checkpoint
    BY <1>1, <1>2, PendingType DEF SaveWaiting, WorkflowStatus
  <2>2. new.status = "WAITING_FOR_APPROVAL"
    BY <1>1, <2>1 DEF Checkpoint
  <2>3. state'[w] = Saved(new) /\ delivery' = delivery /\ save_workflow(Task(w), new)
    BY <1>2 DEF SaveWaiting, SaveAndGoto, StaleSave, LeaveProcess, Goto, LocalTypeOK
  <2> HIDE DEF new
  <2>4. workflows'[Task(w)] = Saved(new)
    BY <1>1, <2>3 DEF save_workflow, StoreTypeOK
  <2> QED
    BY <2>1, <2>2, <2>3, <2>4 DEF Saved, Checkpoint
<1> USE DEF LocalTypeOK, Goto
<1>3. ASSUME NEW new, \/ Return(w, new) \/ StaleSave(w, new)
                      \/ SaveAndReturn(w, new) \/ SaveAndRaise(w, new)
                      \/ SaveAndGoto(w, new, "decide")
      PROVE  FALSE
  BY <1>3 DEF Return, StaleSave, LeaveProcess, SaveAndReturn, SaveAndRaise, SaveAndGoto
<1>4. CASE \/ SaveRunning(w) \/ ModelFailsRetryably(w)
           \/ BackendFailsRetryably(w) \/ BackendTimesOut(w) \/ DecideComplete(w)
           \/ DecideFail(w) \/ PolicyDenied(w) \/ BackendFailsPermanently(w) \/ RecordResult(w)
           \/ CreateApproval(w)
  BY <1>3, <1>4
  DEF SaveRunning, ModelFailsRetryably, BackendFailsRetryably, BackendTimesOut,
      DecideComplete, DecideFail, PolicyDenied, BackendFailsPermanently, RecordResult, Fail,
      FailRetryably, CreateApproval
<1>5. ASSUME NEW c \in Calls, DecideTool(w, c) PROVE FALSE
  BY <1>3, <1>5 DEF DecideTool, AfterPolicy
<1>6. CASE \/ Load(w) \/ ResumeApprovedAction(w) \/ ModelFailsPermanently(w)
           \/ SaveToolResult(w) \/ LookupResult(w)
  BY <1>3, <1>6
  DEF Load, AfterLoad, ResumeApprovedAction, ModelFailsPermanently, LeaveProcess,
      SaveToolResult, LookupResult, AfterLookup
<1>7. ASSUME NEW r \in Results, BackendSucceeds(w, r) PROVE FALSE
  BY <1>7 DEF BackendSucceeds
<1>8. CASE ReportStep(w) \/ \E i \in DOMAIN queue : Claim(w, i)
  BY <1>8
  DEF Claim, ReportStep, Acknowledge, Enqueue, RetryOrDeadLetter, DeadLoad, DeadSave,
      PermanentAcknowledge, PermanentLoad, PermanentSave, Reload, SaveFinal, Finish,
      LeaveProcess
<1> QED
  BY <1>2, <1>4, <1>5, <1>6, <1>7, <1>8 DEF RunOnceStep, ProcessStep, ReportStep

LEMMA AskingWaitsNext ==
  ASSUME StoreTypeOK, LocalTypeOK, AskingWaits, \A v \in Workers : OnItsOwn(v)
  PROVE  AskingWaits'
<1> SUFFICES ASSUME NEW v \in Workers, wpc'[v] = "create_approval"
             PROVE  state'[v].status = "WAITING_FOR_APPROVAL"
  BY DEF AskingWaits
<1>1. CASE RunOnceStep(v)
  BY <1>1, EnterAsking
<1>2. CASE SameWork(v)
  BY <1>2 DEF SameWork, AskingWaits
<1> QED
  BY <1>1, <1>2 DEF OnItsOwn, RuntimePC

LEMMA EffectsOnCreatedNext ==
  ASSUME EffectsTypeOK, OnlyCreated, EffectsOnCreated, created \subseteq created', LedgerStep
  PROVE  EffectsOnCreated'
<1> SUFFICES ASSUME NEW task \in Tasks, task \notin created', NEW c \in Calls
             PROVE  effects'[<<task, c>>] = 0
  BY DEF EffectsOnCreated
<1>1. task \in Tasks \ created /\ <<task, c>> \in Key
  BY DEF Key
<1>2. effects[<<task, c>>] = 0
  BY <1>1 DEF EffectsOnCreated
<1>3. ASSUME NEW w \in Workers, wpc[w] = "backend", Effect(CurrentKey(w))
      PROVE  effects'[<<task, c>>] = effects[<<task, c>>]
  <2>1. Task(w) # task
    BY <1>1, <1>3 DEF OnlyCreated
  <2>2. CurrentKey(w) # <<task, c>>
    BY <2>1 DEF CurrentKey, action_id
  <2> QED
    BY <1>1, <1>3, <2>2 DEF Effect, EffectsTypeOK
<1> QED
  BY <1>2, <1>3 DEF LedgerStep, Untouched, BackendSucceeds

-----------------------------------------------------------------------------
LEMMA SlotInvInit == Init => SlotInv
<1> SUFFICES ASSUME Init PROVE SlotInv
  OBVIOUS
<1>1. DOMAIN queue = {}
  BY DEF Init, StoreInit
<1>2. /\ \A w \in Workers : wpc[w] = "idle"
      /\ \A h \in Handlers : hpc[h] = "idle"
      /\ \A task \in Tasks : ~Waiting(task)
  BY DEF Init, StoreInit, WorkerInit, RuntimeInit, ControlInit, NewWorkflow, Waiting
<1>3. HeldRowTask /\ AskingWaits /\ EffectsOnCreated
  BY <1>2
  DEF HeldRowTask, AskingWaits, EffectsOnCreated, Init, WorkerInit, RuntimeInit, Key
<1>4. ASSUME NEW task \in Tasks, NEW c PROVE Slots(task, c) = {}
  BY <1>1, <1>2, <1>4 DEF Slots, WorkerSlot, SlotPC, RuntimePC, RequestSlot
<1>5. IsFiniteSet({}) /\ Cardinality({}) = 0
  BY FS_EmptySet
<1>6. crashes = 0 /\ stalls = 0 /\ timeouts = 0 /\ Disturbances = 0
  BY DEF Init, WorkerInit, RuntimeInit, Disturbances
<1>7. ASSUME NEW task \in Tasks PROVE SlotsBounded(task)
  BY <1>4, <1>5, <1>6 DEF SlotsBounded
<1>8. ASSUME NEW task \in Tasks, NEW c \in Calls PROVE EffectsBounded(task, c)
  <2>1. effects[<<task, c>>] = 0 /\ tool_results[<<task, c>>] = NoResult
    BY DEF Init, StoreInit, WorkerInit, RuntimeInit, Key
  <2> QED
    BY <1>4, <1>5, <1>6, <2>1 DEF EffectsBounded, Candidates
<1> QED
  BY <1>3, <1>7, <1>8 DEF SlotInv

LEMMA SlotInvNext ==
  ASSUME TypeOK, TypeOK', CheckpointInv, LifecycleInv, SlotInv, [Next]_vars
  PROVE  SlotInv'
<1>1. BudgetsGrow
  BY DeliveryMoves, MoveBudgets, TypeParts
<1>2. EffectsTypeOK'
  BY DEF TypeOK, WorkerTypeOK, RuntimeTypeOK, EffectsTypeOK
<1>3. HeldRowTask' /\ AskingWaits' /\ EffectsOnCreated'
  BY HeldRowTaskNext, OwnWays, TypeParts, AskingWaitsNext, EffectsOnCreatedNext, LedgerSteps,
     CreatedGrows DEF SlotInv, CheckpointInv
<1>4. ASSUME NEW task \in Tasks PROVE SlotsBounded(task)'
  BY <1>1, SlotsBoundedNext DEF SlotInv
<1>5. ASSUME NEW task \in Tasks, NEW c \in Calls PROVE EffectsBounded(task, c)'
  BY <1>1, <1>2, EffectsBoundedNext DEF SlotInv
<1> QED
  BY <1>3, <1>4, <1>5 DEF SlotInv

\* A task has one slot, plus one for every crash and stall, and each of them pays for
\* at most one effect that the ledger does not show (claim, enqueue's check for an active
\* row, the order of acknowledge and enqueue, save_tool_result after execute).
THEOREM SlotInvHolds == Spec => []SlotInv
<1>1. TypeOK /\ TypeOK' /\ CheckpointInv /\ LifecycleInv /\ SlotInv /\ [Next]_vars => SlotInv'
  BY SlotInvNext
<1> QED
  BY <1>1, SlotInvInit, TypeCorrect, CopiesStayFresh, LifecycleInvHolds, PTL DEF Spec

\* A call is carried out once, and once more for every crash, every stall and every
\* lost answer at most, however many workers, deliveries and replays there are.
THEOREM EffectsAccountedHolds == Spec => []EffectsAccounted
<1>1. TypeOK /\ SlotInv => EffectsAccounted
  <2> SUFFICES ASSUME TypeOK, SlotInv, NEW key \in Key
               PROVE  effects[key] <= 1 + crashes + stalls + timeouts
    BY DEF EffectsAccounted
  <2>1. PICK task \in Tasks, c \in Calls : key = <<task, c>>
    BY DEF Key
  <2>2. /\ effects[key] + Cardinality(Candidates(task, c)) <= 1 + Disturbances + timeouts
        /\ Cardinality(Candidates(task, c)) \in Nat
    BY <2>1, FS_CardinalityType DEF SlotInv, EffectsBounded
  <2>3. effects[key] \in Nat /\ timeouts \in Nat /\ crashes \in Nat /\ stalls \in Nat
    BY DEF TypeOK, WorkerTypeOK, RuntimeTypeOK
  <2> QED
    BY <2>2, <2>3, SMT DEF Disturbances
<1> QED
  BY <1>1, TypeCorrect, SlotInvHolds, PTL
=============================================================================
