---------------------------- MODULE PipelineTasks ----------------------------
(***************************************************************************)
(* The pipeline_tasks work queue and the PipelineWorker processes that     *)
(* serve it: submission, claim with FOR UPDATE SKIP LOCKED, execution in   *)
(* one transaction, stop with its thirty seconds of grace, crash, and the  *)
(* reclaiming of stale tasks a worker does when it starts, and only then.  *)
(*                                                                         *)
(* A task is numbered in the order of submitted_at; its INSERT may commit  *)
(* in any order.  What the orchestrator does inside a run is not modelled  *)
(* here: it holds the document's row from its first statement to the end   *)
(* of the transaction, and it succeeds or fails.                           *)
(***************************************************************************)
EXTENDS Naturals, FiniteSets

CONSTANTS MaxTasks,        \* bound on the tasks submitted
          Docs,            \* documents
          DocOf,           \* the document of each task
          Workers,         \* worker processes
          MaxConcurrent,   \* max_concurrent_pipelines
          MaxReclaims,     \* _MAX_RECLAIM_ATTEMPTS
          MaxCrashes       \* bound on worker crashes

Tasks == 1 .. MaxTasks
NoTask == 0

ASSUME PipelineAssumption ==
  /\ MaxTasks \in Nat /\ MaxReclaims \in Nat /\ MaxCrashes \in Nat
  /\ MaxConcurrent \in Nat \ {0}
  /\ DocOf \in [Tasks -> Docs]

VARIABLES status,     \* pipeline_tasks.status, "absent" before the INSERT commits
          reclaims,   \* the [reclaim:N] counter kept in pipeline_tasks.error
          stale,      \* tasks whose claimed_at is older than the threshold
          state,      \* per worker: "down", "running", "stopping"
          claiming,   \* per worker: the task its claim transaction has locked
          runs,       \* the executions alive, over all workers
          claims,     \* history: how often each task was claimed
          waited,     \* the executions alive that a shutdown() is waiting for
          lost,       \* history: the executions a crash, an error or a timeout ended
          crashes     \* worker crashes so far

tableVars  == <<status, reclaims, stale>>
workerVars == <<state, claiming, runs>>
vars == <<tableVars, workerVars, claims, waited, lost, crashes>>

Terminal == {"done", "failed"}

\* The claim number tells two executions of a task apart: a worker may claim
\* again a task it is still executing.
Executions == [task : Tasks, claim : 1 .. (MaxReclaims + 1), worker : Workers,
         stage : {"loading", "writing"}]

RunId(r) == <<r.task, r.claim>>

RunsOn(w) == {r \in runs : r.worker = w}
RunsOf(t) == {r \in runs : r.task = t}

\* Nobody is executing the task that the table says is running.
Orphan(t) == status[t] = "running" /\ RunsOf(t) = {}

-----------------------------------------------------------------------------
Init ==
  /\ status = [t \in Tasks |-> "absent"]
  /\ reclaims = [t \in Tasks |-> 0]
  /\ stale = {}
  /\ state = [w \in Workers |-> "down"]
  /\ claiming = [w \in Workers |-> NoTask]
  /\ runs = {}
  /\ claims = [t \in Tasks |-> 0]
  /\ waited = {}
  /\ lost = {}
  /\ crashes = 0

\* create_task: the upload's (or reprocess request's) transaction commits.
CreateTask(t) ==
  /\ status[t] = "absent"
  /\ status' = [status EXCEPT ![t] = "pending"]
  /\ UNCHANGED <<reclaims, stale, workerVars, claims, waited, lost, crashes>>

\* Thirty minutes pass since the claim, whether or not the task is executing.
GrowStale(t) ==
  /\ status[t] = "running"
  /\ stale' = stale \cup {t}
  /\ UNCHANGED <<status, reclaims, workerVars, claims, waited, lost, crashes>>

-----------------------------------------------------------------------------
\* _recover_stale_tasks, one transaction.  It looks at status and claimed_at
\* only: not at worker_id, nor at whether the holder is alive.
\* Mutant of Reclaimable: the status is not looked at.
AnyStale == stale

Reclaimable == {t \in stale : status[t] = "running"}

RecoverStaleTasks ==
  LET retried == {t \in Reclaimable : reclaims[t] < MaxReclaims} IN
  /\ status' = [t \in Tasks |-> IF t \in retried THEN "pending"
                                ELSE IF t \in Reclaimable THEN "failed"
                                ELSE status[t]]
  /\ reclaims' = [t \in Tasks |-> IF t \in retried THEN reclaims[t] + 1
                                  ELSE reclaims[t]]
  /\ stale' = stale \ retried

\* run_forever begins: recovery first, then the poll loop.
Start(w) ==
  /\ state[w] = "down"
  /\ RecoverStaleTasks
  /\ state' = [state EXCEPT ![w] = "running"]
  /\ UNCHANGED <<claiming, runs, claims, waited, lost, crashes>>

\* The signal handler starts shutdown(): it clears _running and waits for the
\* executions active at this moment.  A second signal does so again.
Shutdown(w) ==
  /\ state[w] \in {"running", "stopping"}
  /\ state' = [state EXCEPT ![w] = "stopping"]
  /\ waited' = waited \cup {RunId(r) : r \in RunsOn(w)}
  /\ UNCHANGED <<tableVars, claiming, runs, claims, lost, crashes>>

\* Mutant of Stopped: run_forever leaves the draining to shutdown(), which does
\* not know of a claim that was committed after the signal.
StoppedWithShutdown(w) ==
  /\ state[w] = "stopping" /\ claiming[w] = NoTask
  /\ \A r \in RunsOn(w) : RunId(r) \notin waited
  /\ state' = [state EXCEPT ![w] = "down"]
  /\ runs' = runs \ RunsOn(w)
  /\ UNCHANGED <<tableVars, claiming, claims, waited, lost, crashes>>

\* run_forever has left the loop and has gathered whatever executions are left,
\* for as long as they take.
Stopped(w) ==
  /\ state[w] = "stopping"
  /\ claiming[w] = NoTask /\ RunsOn(w) = {}
  /\ state' = [state EXCEPT ![w] = "down"]
  /\ UNCHANGED <<tableVars, claiming, runs, claims, waited, lost, crashes>>

\* The process dies, or an exception leaves run_forever: its claim and the
\* transactions of its executions roll back.
Crash(w) ==
  /\ state[w] # "down" /\ crashes < MaxCrashes
  /\ state' = [state EXCEPT ![w] = "down"]
  /\ claiming' = [claiming EXCEPT ![w] = NoTask]
  /\ runs' = runs \ RunsOn(w)
  /\ waited' = waited \ {RunId(r) : r \in RunsOn(w)}
  /\ lost' = lost \cup {RunId(r) : r \in RunsOn(w)}
  /\ crashes' = crashes + 1
  /\ UNCHANGED <<tableVars, claims>>

-----------------------------------------------------------------------------
\* Mutant of Claimable: no SKIP LOCKED.
Pending == {t \in Tasks : status[t] = "pending"}

\* Pending rows no other claim transaction has locked: SKIP LOCKED.
Claimable ==
  {t \in Tasks : status[t] = "pending" /\ \A w \in Workers : claiming[w] # t}

\* _claim_task, SELECT ... ORDER BY submitted_at LIMIT 1 FOR UPDATE SKIP LOCKED,
\* after the loop's test of _running and of the number of active executions.
SelectPending(w) ==
  /\ state[w] = "running" /\ claiming[w] = NoTask
  /\ Cardinality(RunsOn(w)) < MaxConcurrent
  /\ \E t \in Claimable :
       /\ \A u \in Claimable : t <= u
       /\ claiming' = [claiming EXCEPT ![w] = t]
  /\ UNCHANGED <<tableVars, state, runs, claims, waited, lost, crashes>>

\* Mutant of CommitClaim: a stop requested meanwhile leaves the claim open.
CommitIfRunning(w) ==
  LET t == claiming[w] IN
  /\ t # NoTask /\ state[w] = "running"
  /\ status' = [status EXCEPT ![t] = "running"]
  /\ stale' = stale \ {t}
  /\ claims' = [claims EXCEPT ![t] = @ + 1]
  /\ runs' = runs \cup {[task |-> t, claim |-> claims[t] + 1,
                         worker |-> w, stage |-> "loading"]}
  /\ claiming' = [claiming EXCEPT ![w] = NoTask]
  /\ UNCHANGED <<reclaims, state, waited, lost, crashes>>

\* _claim_task, the UPDATE and its commit; the loop starts _execute_task.  A stop
\* requested meanwhile does not undo the claim.
CommitClaim(w) ==
  LET t == claiming[w] IN
  /\ t # NoTask
  /\ status' = [status EXCEPT ![t] = "running"]
  /\ stale' = stale \ {t}
  /\ claims' = [claims EXCEPT ![t] = @ + 1]
  /\ runs' = runs \cup {[task |-> t, claim |-> claims[t] + 1,
                         worker |-> w, stage |-> "loading"]}
  /\ claiming' = [claiming EXCEPT ![w] = NoTask]
  /\ UNCHANGED <<reclaims, state, waited, lost, crashes>>

-----------------------------------------------------------------------------
\* orchestrator.run begins with update_status(PROCESSING), which takes the
\* document's row for the rest of the transaction: executions over one document
\* wait for each other here.  The artifact has been loaded before.
AcquireDocument(r) ==
  /\ r \in runs /\ r.stage = "loading"
  /\ \A q \in runs : DocOf[q.task] = DocOf[r.task] => q.stage = "loading"
  /\ runs' = (runs \ {r}) \cup {[r EXCEPT !.stage = "writing"]}
  /\ UNCHANGED <<tableVars, state, claiming, claims, waited, lost, crashes>>

\* The final UPDATE waits for a claim transaction that has locked the task's row.
RowFree(t) == \A w \in Workers : claiming[w] # t

\* _mark_done and commit.  Neither the status nor worker_id is looked at.
MarkDone(r) ==
  /\ r \in runs /\ r.stage = "writing" /\ RowFree(r.task)
  /\ status' = [status EXCEPT ![r.task] = "done"]
  /\ runs' = runs \ {r} /\ waited' = waited \ {RunId(r)}
  /\ UNCHANGED <<reclaims, stale, state, claiming, claims, lost, crashes>>

\* _mark_failed and commit: the reason overwrites the [reclaim:N] marker.
MarkFailed(r) ==
  /\ r \in runs /\ r.stage = "writing" /\ RowFree(r.task)
  /\ status' = [status EXCEPT ![r.task] = "failed"]
  /\ reclaims' = [reclaims EXCEPT ![r.task] = 0]
  /\ runs' = runs \ {r} /\ waited' = waited \ {RunId(r)}
  /\ UNCHANGED <<stale, state, claiming, claims, lost, crashes>>

\* A database error: _mark_failed cannot write in the broken transaction either,
\* the exception ends the execution and its transaction rolls back.
DatabaseError(r) ==
  /\ r \in runs
  /\ runs' = runs \ {r} /\ waited' = waited \ {RunId(r)}
  /\ lost' = lost \cup {RunId(r)}
  /\ UNCHANGED <<tableVars, state, claiming, claims, crashes>>

\* The wait_for of shutdown() times out and cancels the executions it gathered.
\* No handler catches a CancelledError: the transaction rolls back, and the row
\* of the task stays "running".
DrainTimeout(r) ==
  /\ r \in runs /\ RunId(r) \in waited
  /\ runs' = runs \ {r} /\ waited' = waited \ {RunId(r)}
  /\ lost' = lost \cup {RunId(r)}
  /\ UNCHANGED <<tableVars, state, claiming, claims, crashes>>

-----------------------------------------------------------------------------
Process(w) == Start(w) \/ Shutdown(w) \/ Stopped(w) \/ Crash(w)
Claim(w) == SelectPending(w) \/ CommitClaim(w)
Execute(r) ==
  \/ AcquireDocument(r) \/ MarkDone(r) \/ MarkFailed(r)
  \/ DatabaseError(r) \/ DrainTimeout(r)

Next ==
  \/ \E t \in Tasks : CreateTask(t) \/ GrowStale(t)
  \/ \E w \in Workers : Process(w) \/ Claim(w)
  \/ \E r \in runs : Execute(r)

Spec == Init /\ [][Next]_vars

\* Time passes, processes that are down are started again (restart: unless-stopped,
\* or an operator) and those told to stop drain, claim transactions commit, and
\* executions get the row lock they wait for and end.  A worker that is stopped
\* again and again sometimes gets to poll first, hence strong fairness there.
\* Weak fairness of "some execution" is enough: there are finitely many.
FairSpec ==
  /\ Spec
  /\ WF_vars(\E t \in Tasks : GrowStale(t))
  /\ WF_vars(\E w \in Workers : Start(w) \/ Stopped(w))
  /\ SF_vars(\E w \in Workers : SelectPending(w))
  /\ WF_vars(\E w \in Workers : CommitClaim(w))
  /\ WF_vars(\E r \in runs : Execute(r))

-----------------------------------------------------------------------------
TypeOK ==
  /\ status \in [Tasks -> {"absent", "pending", "running"} \cup Terminal]
  /\ reclaims \in [Tasks -> 0 .. MaxReclaims]
  /\ stale \in SUBSET Tasks
  /\ state \in [Workers -> {"down", "running", "stopping"}]
  /\ claiming \in [Workers -> Tasks \cup {NoTask}]
  /\ runs \in SUBSET Executions
  /\ claims \in [Tasks -> 0 .. (MaxReclaims + 1)]
  /\ waited \in SUBSET (Tasks \X (1 .. (MaxReclaims + 1)))
  /\ lost \in SUBSET (Tasks \X (1 .. (MaxReclaims + 1)))
  /\ crashes \in 0 .. MaxCrashes

\* The counter in the error column and the claims agree: a task is claimed once,
\* and once more for each time it was reclaimed, whatever workers race for it.
ClaimsCounted ==
  \A t \in Tasks :
    /\ status[t] \in {"absent", "pending"} => claims[t] = reclaims[t]
    /\ status[t] = "running" => claims[t] = reclaims[t] + 1

\* A task the table shows as running is being executed by its last claimant,
\* unless that execution was lost: to a crash, a database error or the timeout of
\* a shutdown() that waited for it.  In particular a claim that is committed after
\* the stop, which shutdown() does not know of, is executed to its end.
RunningIsAccounted ==
  \A t \in Tasks :
    status[t] = "running" =>
      \/ \E r \in runs : RunId(r) = <<t, claims[t]>>
      \/ <<t, claims[t]>> \in lost

\* The loop tests the number of executions before it claims, not after.
CapacityRespected ==
  \A w \in Workers : Cardinality(RunsOn(w)) <= MaxConcurrent

\* A task that is done or failed never goes back to the queue, although a late
\* execution of a reclaimed task may still turn the one into the other.
TerminalIsFinal ==
  [][\A t \in Tasks : status[t] \in Terminal => status'[t] \in Terminal]_vars

\* Provided an abandoned task is always picked up by some later start of a
\* worker, every task submitted ends, however often its executions are lost:
\* the reclaim counter stops the retries.
Rescued == \A t \in Tasks : Orphan(t) ~> ~Orphan(t)
SettledIfRescued ==
  Rescued => \A t \in Tasks : status[t] = "pending" ~> status[t] \in Terminal

-----------------------------------------------------------------------------
\* "On startup, reclaim tasks that a previous worker died holding": a task put
\* back in the queue, or failed, by a start is not being executed any more.
ReclaimsOnlyTheDead ==
  [][\A w \in Workers : state[w] = "down" /\ state'[w] = "running" =>
       \A t \in Tasks : status'[t] # status[t] => RunsOf(t) = {}]_vars

\* "Tasks exceeding the threshold are reclaimed by any available worker": a task
\* nobody executes does not stay "running" for ever.
AbandonedIsReclaimed == Rescued

=============================================================================
