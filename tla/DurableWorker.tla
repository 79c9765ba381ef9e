---------------------------- MODULE DurableWorker ----------------------------
(***************************************************************************)
(* DurableWorker.run_once (worker.py): claim a delivery, process it and    *)
(* tell the queue how it went; the heartbeat that extends the lease while  *)
(* process() is suspended; the death of a worker; and the passing of its   *)
(* lease.                                                                  *)
(***************************************************************************)
EXTENDS WorkflowRuntime

CONSTANTS
    MaxCrashes,     \* bound on process deaths, of workers and of API handlers
    MaxStalls       \* bound on leases that pass while their holder is alive

ASSUME DurableWorkerAssumption ==
    {MaxCrashes, MaxStalls, MaxTimeouts} \subseteq Nat

VARIABLES crashes, stalls

workerVars == <<runtimeVars, crashes, stalls>>

WorkerTypeOK == RuntimeTypeOK /\ crashes \in Nat /\ stalls \in Nat

WorkerInit == RuntimeInit /\ crashes = 0 /\ stalls = 0

\* run_once is over: the worker holds no delivery and no local state.
Finish(w) ==
    /\ Goto(w, "idle")
    /\ delivery' = [delivery EXCEPT ![w] = NoDelivery]
    /\ state' = [state EXCEPT ![w] = NewWorkflow]
    /\ call' = [call EXCEPT ![w] = NoCall]
    /\ result' = [result EXCEPT ![w] = NoResult]

Budgets == <<effects, timeouts, crashes, stalls>>

-----------------------------------------------------------------------------
(* run_once *)

Claim(w, i) ==
    /\ wpc[w] = "idle"
    /\ claim(i)
    /\ delivery' = [delivery EXCEPT ![w] = [id |-> i, task_id |-> queue[i].task_id,
                                            attempts |-> queue[i].attempts + 1]]
    /\ Goto(w, "load")
    /\ UNCHANGED <<state, call, result, Budgets>>

\* Not the code, as every Mutant... definition: a bug a run must catch.
\* An unfinished workflow is not put back in the queue.
MutantAcknowledgeOnly(w) ==
    /\ wpc[w] = "ack"
    /\ acknowledge(delivery[w].id)
    /\ Finish(w)
    /\ UNCHANGED Budgets

\* process() returned: the delivery is acknowledged, and only then is the next
\* one of an unfinished workflow put in the queue.
Acknowledge(w) ==
    /\ wpc[w] = "ack"
    /\ acknowledge(delivery[w].id)
    /\ \/ state[w].status = "QUEUED" /\ LeaveProcess(w, "enqueue")
       \/ state[w].status # "QUEUED" /\ Finish(w)
    /\ UNCHANGED Budgets

Enqueue(w) ==
    /\ wpc[w] = "enqueue"
    /\ enqueue(Task(w))
    /\ Finish(w)
    /\ UNCHANGED Budgets

\* The dead letter is not reported to its workflow.
MutantRetryOnly(w) ==
    /\ wpc[w] = "retry"
    /\ retry_or_dead_letter(delivery[w])
    /\ Finish(w)
    /\ UNCHANGED Budgets

RetryOrDeadLetter(w) ==
    /\ wpc[w] = "retry"
    /\ retry_or_dead_letter(delivery[w])
    /\ \/ IsDead(delivery[w]) /\ LeaveProcess(w, "dead")
       \/ ~IsDead(delivery[w]) /\ Finish(w)
    /\ UNCHANGED Budgets

\* get_workflow; a terminal workflow is left as it is.
Reload(w, pc) ==
    /\ \/ /\ terminal(workflows[Task(w)])
          /\ Finish(w)
       \/ /\ ~terminal(workflows[Task(w)])
          /\ state' = [state EXCEPT ![w] = workflows[Task(w)]]
          /\ Goto(w, pc)
          /\ UNCHANGED <<delivery, call, result>>
    /\ UNCHANGED <<storeVars, Budgets>>

\* The last save of run_once; a ConcurrentUpdateError leaves run_once as it is raised.
SaveFinal(w, status) ==
    LET new == [state[w] EXCEPT !.status = status]
    IN  /\ \/ save_workflow(Task(w), new)
           \/ ~VersionMatches(Task(w), new) /\ UNCHANGED storeVars
        /\ Finish(w)
        /\ UNCHANGED Budgets

DeadLoad(w) == wpc[w] = "dead" /\ Reload(w, "dead_save")

DeadSave(w) == wpc[w] = "dead_save" /\ SaveFinal(w, "DEAD_LETTERED")

PermanentAcknowledge(w) ==
    /\ wpc[w] = "perm_ack"
    /\ acknowledge(delivery[w].id)
    /\ Goto(w, "perm_load")
    /\ UNCHANGED <<localVars, Budgets>>

PermanentLoad(w) == wpc[w] = "perm_load" /\ Reload(w, "perm_save")

PermanentSave(w) == wpc[w] = "perm_save" /\ SaveFinal(w, "FAILED")

RunOnceStep(w) ==
    \/ \E i \in DOMAIN queue : Claim(w, i)
    \/ ProcessStep(w) /\ UNCHANGED <<crashes, stalls>>
    \/ Acknowledge(w)
    \/ Enqueue(w)
    \/ RetryOrDeadLetter(w)
    \/ DeadLoad(w)
    \/ DeadSave(w)
    \/ PermanentAcknowledge(w)
    \/ PermanentLoad(w)
    \/ PermanentSave(w)

-----------------------------------------------------------------------------
(* The heartbeat, the lease and the crash *)

\* process() is suspended only at the agent's decision and in the pause before a
\* tool that needs no approval; a tool call is synchronous.
Suspended(w) ==
    \/ wpc[w] = "decide"
    \/ wpc[w] = "execute" /\ state[w].pending_action = NoCall

\* The heartbeat task gets to run only while process() is suspended.
Heartbeat(w) ==
    /\ Suspended(w)
    /\ queue[delivery[w].id].expired
    /\ extend_lease(delivery[w].id)
    /\ UNCHANGED workerVars

Held(i) == \E w \in Workers : wpc[w] # "idle" /\ delivery[w].id = i

\* lease_until passes: sooner or later when the holder is gone, and within
\* MaxStalls when it is alive but blocked or slow.
LeaseExpires(i) ==
    /\ queue[i].status = "PROCESSING"
    /\ ~queue[i].expired
    /\ \/ ~Held(i) /\ UNCHANGED stalls
       \/ Held(i) /\ stalls < MaxStalls /\ stalls' = stalls + 1
    /\ queue' = [queue EXCEPT ![i] = [@ EXCEPT !.expired = TRUE]]
    /\ UNCHANGED <<created, workflows, tool_results, approvals, runtimeVars, crashes>>

\* The process dies, or an error nobody catches leaves run_once.
WorkerCrash(w) ==
    /\ wpc[w] # "idle"
    /\ crashes < MaxCrashes
    /\ crashes' = crashes + 1
    /\ Finish(w)
    /\ UNCHANGED <<storeVars, effects, timeouts, stalls>>
=============================================================================
