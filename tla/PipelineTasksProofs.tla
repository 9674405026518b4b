------------------------- MODULE PipelineTasksProofs -------------------------
(***************************************************************************)
(* Proofs about the work queue, for any number of tasks and workers, any   *)
(* concurrency and any reclaim limit.  QueueInv is the inductive core: the *)
(* type invariant alone is not inductive (nothing in it bounds claims), it *)
(* needs the agreement of the claims with the reclaim counter, which in    *)
(* turn needs that a row locked by a claim is pending and locked once.     *)
(***************************************************************************)
EXTENDS PipelineTasks, FiniteSetTheorems, TLAPS

ClaimLock ==
  /\ \A w \in Workers : claiming[w] # NoTask => status[claiming[w]] = "pending"
  /\ \A v, w \in Workers : v # w /\ claiming[v] # NoTask => claiming[v] # claiming[w]

QueueInv == TypeOK /\ ClaimLock /\ ClaimsCounted

LEMMA QueueInit == Init => QueueInv
<1>. SUFFICES ASSUME Init PROVE QueueInv
  OBVIOUS
<1>1. 0 \in 0 .. MaxReclaims /\ 0 \in 0 .. (MaxReclaims + 1) /\ 0 \in 0 .. MaxCrashes
  BY PipelineAssumption
<1>2. TypeOK
  BY <1>1 DEF Init, TypeOK
<1>3. ClaimLock /\ ClaimsCounted
  BY DEF Init, ClaimLock, ClaimsCounted
<1>. QED
  BY <1>2, <1>3 DEF QueueInv

-----------------------------------------------------------------------------
(* The steps that change the table.                                        *)

LEMMA QueueRows ==
  ASSUME QueueInv, NEW t \in Tasks, CreateTask(t) \/ GrowStale(t)
  PROVE  QueueInv'
<1>1. CASE CreateTask(t)
  <2>1. TypeOK'
    BY <1>1 DEF CreateTask, QueueInv, TypeOK, workerVars
  <2>2. ClaimLock'
    BY <1>1 DEF CreateTask, QueueInv, TypeOK, ClaimLock, workerVars
  <2>3. ClaimsCounted'
    BY <1>1 DEF CreateTask, QueueInv, TypeOK, ClaimsCounted
  <2>. QED
    BY <2>1, <2>2, <2>3 DEF QueueInv
<1>2. CASE GrowStale(t)
  BY <1>2 DEF GrowStale, QueueInv, TypeOK, ClaimLock, ClaimsCounted, workerVars
<1>. QED
  BY <1>1, <1>2

\* What a recovery does to each row.
LEMMA RecoveredRows ==
  ASSUME QueueInv, RecoverStaleTasks
  PROVE  /\ status' \in [Tasks -> {"absent", "pending", "running"} \cup Terminal]
         /\ reclaims' \in [Tasks -> 0 .. MaxReclaims]
         /\ stale' \in SUBSET Tasks
         /\ \A t \in Tasks :
              \/ status'[t] = status[t] /\ reclaims'[t] = reclaims[t]
              \/ /\ status[t] = "running" /\ status'[t] = "pending"
                 /\ reclaims'[t] = reclaims[t] + 1
              \/ status[t] = "running" /\ status'[t] = "failed"
<1>. DEFINE retried == {t \in Reclaimable : reclaims[t] < MaxReclaims}
<1>1. /\ status' = [t \in Tasks |-> IF t \in retried THEN "pending"
                                   ELSE IF t \in Reclaimable THEN "failed"
                                   ELSE status[t]]
      /\ reclaims' = [t \in Tasks |-> IF t \in retried THEN reclaims[t] + 1
                                      ELSE reclaims[t]]
      /\ stale' = stale \ retried
  BY DEF RecoverStaleTasks
<1>2. \A t \in retried : reclaims[t] + 1 \in 0 .. MaxReclaims
  BY PipelineAssumption DEF QueueInv, TypeOK, Reclaimable
<1>3. \A t \in Reclaimable : status[t] = "running"
  BY DEF Reclaimable
<1>4. status' \in [Tasks -> {"absent", "pending", "running"} \cup Terminal]
  BY <1>1 DEF QueueInv, TypeOK, Terminal
<1>5. reclaims' \in [Tasks -> 0 .. MaxReclaims]
  BY <1>1, <1>2 DEF QueueInv, TypeOK
<1>. QED
  BY <1>1, <1>3, <1>4, <1>5 DEF QueueInv, TypeOK

LEMMA QueueProcess ==
  ASSUME QueueInv, NEW w \in Workers, Process(w)
  PROVE  QueueInv'
<1>1. CASE Start(w)
  <2>1. RecoverStaleTasks
    BY <1>1 DEF Start
  <2>2. TypeOK'
    BY <1>1, <2>1, RecoveredRows DEF Start, QueueInv, TypeOK
  <2>3. ClaimLock'
    BY <1>1, <2>1, RecoveredRows DEF Start, QueueInv, TypeOK, ClaimLock
  <2>4. ClaimsCounted'
    BY <1>1, <2>1, RecoveredRows DEF Start, QueueInv, TypeOK, ClaimsCounted
  <2>. QED
    BY <2>2, <2>3, <2>4 DEF QueueInv
<1>2. CASE Shutdown(w) \/ Stopped(w)
  <2>1. \A r \in RunsOn(w) : RunId(r) \in Tasks \X (1 .. (MaxReclaims + 1))
    BY DEF QueueInv, TypeOK, Executions, RunsOn, RunId
  <2>. QED
    BY <1>2, <2>1 DEF Shutdown, Stopped, QueueInv, TypeOK, ClaimLock, ClaimsCounted,
                      tableVars
<1>3. CASE Crash(w)
  <2>1. lost' \in SUBSET (Tasks \X (1 .. (MaxReclaims + 1)))
    <3>1. \A r \in RunsOn(w) : RunId(r) \in Tasks \X (1 .. (MaxReclaims + 1))
      BY DEF QueueInv, TypeOK, Executions, RunsOn, RunId
    <3>. QED
      BY <1>3, <3>1 DEF Crash, QueueInv, TypeOK
  <2>2. crashes' \in 0 .. MaxCrashes
    BY <1>3, PipelineAssumption DEF Crash, QueueInv, TypeOK
  <2>3. TypeOK'
    BY <1>3, <2>1, <2>2 DEF Crash, QueueInv, TypeOK, tableVars
  <2>. QED
    BY <1>3, <2>3 DEF Crash, QueueInv, TypeOK, ClaimLock, ClaimsCounted, tableVars
<1>. QED
  BY <1>1, <1>2, <1>3 DEF Process

\* A claim transaction commits on a pending row, whose counter it has respected.
LEMMA ClaimedRow ==
  ASSUME QueueInv, NEW w \in Workers, claiming[w] # NoTask
  PROVE  /\ claiming[w] \in Tasks
         /\ status[claiming[w]] = "pending"
         /\ claims[claiming[w]] = reclaims[claiming[w]]
         /\ claims[claiming[w]] + 1 \in 1 .. (MaxReclaims + 1)
  BY PipelineAssumption DEF QueueInv, TypeOK, ClaimLock, ClaimsCounted

LEMMA QueueClaim ==
  ASSUME QueueInv, NEW w \in Workers, Claim(w)
  PROVE  QueueInv'
<1>1. CASE SelectPending(w)
  <2>1. PICK t \in Claimable : claiming' = [claiming EXCEPT ![w] = t]
    BY <1>1 DEF SelectPending
  <2>2. t \in Tasks /\ status[t] = "pending" /\ \A v \in Workers : claiming[v] # t
    BY DEF Claimable
  <2>3. UNCHANGED <<status, reclaims, stale, state, runs, claims, waited, lost, crashes>>
    BY <1>1 DEF SelectPending, tableVars
  <2>4. TypeOK'
    BY <2>1, <2>2, <2>3 DEF QueueInv, TypeOK
  <2>5. ClaimLock'
    BY <2>1, <2>2, <2>3 DEF QueueInv, TypeOK, ClaimLock
  <2>. QED
    BY <2>3, <2>4, <2>5 DEF QueueInv, ClaimsCounted
<1>2. CASE CommitClaim(w)
  <2>. DEFINE t == claiming[w]
  <2>1. /\ t \in Tasks /\ status[t] = "pending" /\ claims[t] = reclaims[t]
        /\ claims[t] + 1 \in 1 .. (MaxReclaims + 1) /\ t # NoTask
    BY <1>2, ClaimedRow DEF CommitClaim
  <2>2. TypeOK'
    <3>1. claims' \in [Tasks -> 0 .. (MaxReclaims + 1)]
      BY <1>2, <2>1 DEF CommitClaim, QueueInv, TypeOK
    <3>2. runs' \in SUBSET Executions
      BY <1>2, <2>1 DEF CommitClaim, QueueInv, TypeOK, Executions
    <3>3. status' \in [Tasks -> {"absent", "pending", "running"} \cup Terminal]
      BY <1>2 DEF CommitClaim, QueueInv, TypeOK
    <3>4. claiming' \in [Workers -> Tasks \cup {NoTask}]
      BY <1>2 DEF CommitClaim, QueueInv, TypeOK
    <3>5. stale' \in SUBSET Tasks
      BY <1>2 DEF CommitClaim, QueueInv, TypeOK
    <3>6. UNCHANGED <<reclaims, state, waited, lost, crashes>>
      BY <1>2 DEF CommitClaim
    <3>. QED
      BY <3>1, <3>2, <3>3, <3>4, <3>5, <3>6 DEF QueueInv, TypeOK
  <2>3. ClaimLock'
    BY <1>2, <2>1 DEF CommitClaim, QueueInv, TypeOK, ClaimLock
  <2>4. ClaimsCounted'
    BY <1>2, <2>1 DEF CommitClaim, QueueInv, TypeOK, ClaimsCounted
  <2>. QED
    BY <2>2, <2>3, <2>4 DEF QueueInv
<1>. QED
  BY <1>1, <1>2 DEF Claim

LEMMA QueueExecute ==
  ASSUME QueueInv, NEW r \in runs, Execute(r)
  PROVE  QueueInv'
<1>0. r \in Executions /\ r.task \in Tasks
  BY DEF QueueInv, TypeOK, Executions
<1>1. CASE AcquireDocument(r)
  <2>1. [r EXCEPT !.stage = "writing"] \in Executions
    BY <1>0 DEF Executions
  <2>. QED
    BY <1>1, <2>1 DEF AcquireDocument, QueueInv, TypeOK, ClaimLock, ClaimsCounted,
                      tableVars
<1>2. CASE MarkDone(r) \/ MarkFailed(r)
  <2>1. /\ \A w \in Workers : claiming[w] # r.task
        /\ runs' = runs \ {r}
        /\ UNCHANGED <<stale, state, claiming, claims, lost, crashes>>
        /\ waited' \subseteq waited
    BY <1>2 DEF MarkDone, MarkFailed, RowFree
  <2>2. /\ status' \in [Tasks -> {"absent", "pending", "running"} \cup Terminal]
        /\ status'[r.task] \in Terminal
        /\ \A t \in Tasks : t # r.task => status'[t] = status[t]
    BY <1>0, <1>2 DEF MarkDone, MarkFailed, QueueInv, TypeOK, Terminal
  <2>3. /\ reclaims' \in [Tasks -> 0 .. MaxReclaims]
        /\ \A t \in Tasks : t # r.task => reclaims'[t] = reclaims[t]
    BY <1>0, <1>2, PipelineAssumption DEF MarkDone, MarkFailed, QueueInv, TypeOK
  <2>4. TypeOK'
    BY <2>1, <2>2, <2>3 DEF QueueInv, TypeOK
  <2>5. ClaimLock'
    BY <2>1, <2>2 DEF QueueInv, TypeOK, ClaimLock
  <2>6. ClaimsCounted'
    BY <2>1, <2>2, <2>3 DEF QueueInv, ClaimsCounted, Terminal
  <2>. QED
    BY <2>4, <2>5, <2>6 DEF QueueInv
<1>3. CASE DatabaseError(r) \/ DrainTimeout(r)
  <2>1. RunId(r) \in Tasks \X (1 .. (MaxReclaims + 1))
    BY <1>0 DEF Executions, RunId
  <2>. QED
    BY <1>3, <2>1 DEF DatabaseError, DrainTimeout, QueueInv, TypeOK, ClaimLock, ClaimsCounted,
                      tableVars
<1>. QED
  BY <1>1, <1>2, <1>3 DEF Execute

LEMMA QueueNext == QueueInv /\ [Next]_vars => QueueInv'
<1>1. QueueInv /\ Next => QueueInv'
  BY QueueRows, QueueProcess, QueueClaim, QueueExecute DEF Next
<1>2. QueueInv /\ UNCHANGED vars => QueueInv'
  BY DEF QueueInv, TypeOK, ClaimLock, ClaimsCounted, vars, tableVars, workerVars
<1>. QED
  BY <1>1, <1>2

\* Type correctness, which bounds the claims of a task by MaxReclaims + 1.
THEOREM TasksTypeCorrect == Spec => []TypeOK
<1>1. QueueInv => TypeOK
  BY DEF QueueInv
<1>. QED
  BY <1>1, QueueInit, QueueNext, PTL DEF Spec

\* A task is claimed once, and once more for each time it was reclaimed.
THEOREM TasksClaimsCounted == Spec => []ClaimsCounted
<1>1. QueueInv => ClaimsCounted
  BY DEF QueueInv
<1>. QED
  BY <1>1, QueueInit, QueueNext, PTL DEF Spec

-----------------------------------------------------------------------------
(* No task is abandoned except by a crash, a database error or the timeout *)
(* of a shutdown that waited for it.                                       *)

AccountInv == QueueInv /\ RunningIsAccounted

LEMMA AccountRows ==
  ASSUME AccountInv, NEW t \in Tasks, CreateTask(t) \/ GrowStale(t)
  PROVE  RunningIsAccounted'
<1>1. \A u \in Tasks : status'[u] = "running" => status[u] = "running"
  BY DEF AccountInv, QueueInv, TypeOK, CreateTask, GrowStale
<1>2. UNCHANGED <<runs, claims, lost>>
  BY DEF CreateTask, GrowStale, workerVars
<1>. QED
  BY <1>1, <1>2 DEF AccountInv, RunningIsAccounted

LEMMA AccountProcess ==
  ASSUME AccountInv, NEW w \in Workers, Process(w)
  PROVE  RunningIsAccounted'
<1>1. CASE Start(w)
  <2>1. \A u \in Tasks : status'[u] = "running" => status[u] = "running"
    BY <1>1, RecoveredRows DEF Start, AccountInv
  <2>2. UNCHANGED <<runs, claims, lost>>
    BY <1>1 DEF Start
  <2>. QED
    BY <2>1, <2>2 DEF AccountInv, RunningIsAccounted
<1>2. CASE Shutdown(w) \/ Stopped(w)
  BY <1>2 DEF Shutdown, Stopped, AccountInv, RunningIsAccounted, tableVars
<1>3. CASE Crash(w)
  <2>1. \A r \in runs : r \in runs' \/ RunId(r) \in lost'
    BY <1>3 DEF Crash
  <2>2. lost \subseteq lost' /\ UNCHANGED <<status, claims>>
    BY <1>3 DEF Crash, tableVars
  <2>. QED
    BY <2>1, <2>2 DEF AccountInv, RunningIsAccounted
<1>. QED
  BY <1>1, <1>2, <1>3 DEF Process

LEMMA AccountClaim ==
  ASSUME AccountInv, NEW w \in Workers, Claim(w)
  PROVE  RunningIsAccounted'
<1>1. CASE SelectPending(w)
  BY <1>1 DEF SelectPending, AccountInv, RunningIsAccounted, tableVars
<1>2. CASE CommitClaim(w)
  <2>. DEFINE t == claiming[w]
              r == [task |-> t, claim |-> claims[t] + 1, worker |-> w,
                    stage |-> "loading"]
  <2>1. t \in Tasks /\ r \in runs' /\ runs \subseteq runs' /\ UNCHANGED lost
    BY <1>2, ClaimedRow DEF CommitClaim, AccountInv
  <2>2. claims'[t] = claims[t] + 1
        /\ \A u \in Tasks : u # t => claims'[u] = claims[u] /\ status'[u] = status[u]
    BY <1>2, <2>1 DEF CommitClaim, AccountInv, QueueInv, TypeOK
  <2>3. RunId(r) = <<t, claims'[t]>>
    BY <2>2 DEF RunId
  <2>. QED
    BY <2>1, <2>2, <2>3 DEF AccountInv, RunningIsAccounted
<1>. QED
  BY <1>1, <1>2 DEF Claim

LEMMA AccountExecute ==
  ASSUME AccountInv, NEW r \in runs, Execute(r)
  PROVE  RunningIsAccounted'
<1>0. r \in Executions /\ r.task \in Tasks
  BY DEF AccountInv, QueueInv, TypeOK, Executions
<1>1. CASE AcquireDocument(r)
  <2>. DEFINE s == [r EXCEPT !.stage = "writing"]
  <2>1. s \in runs' /\ RunId(s) = RunId(r) /\ \A q \in runs : q # r => q \in runs'
    BY <1>0, <1>1 DEF AcquireDocument, RunId, Executions
  <2>2. UNCHANGED <<status, claims, lost>>
    BY <1>1 DEF AcquireDocument, tableVars
  <2>. QED
    BY <2>1, <2>2 DEF AccountInv, RunningIsAccounted
<1>2. CASE MarkDone(r) \/ MarkFailed(r)
  <2>1. /\ status'[r.task] \in Terminal
        /\ \A t \in Tasks : t # r.task => status'[t] = status[t]
    BY <1>0, <1>2 DEF MarkDone, MarkFailed, AccountInv, QueueInv, TypeOK, Terminal
  <2>2. runs' = runs \ {r} /\ UNCHANGED <<claims, lost>>
    BY <1>2 DEF MarkDone, MarkFailed
  <2>3. \A q \in runs, t \in Tasks :
           t # r.task /\ RunId(q) = <<t, claims[t]>> => q \in runs'
    BY <2>2 DEF RunId
  <2>. QED
    BY <2>1, <2>2, <2>3 DEF AccountInv, RunningIsAccounted, Terminal
<1>3. CASE DatabaseError(r) \/ DrainTimeout(r)
  <2>1. \A q \in runs : q \in runs' \/ RunId(q) \in lost'
    BY <1>3 DEF DatabaseError, DrainTimeout
  <2>2. lost \subseteq lost' /\ UNCHANGED <<status, claims>>
    BY <1>3 DEF DatabaseError, DrainTimeout, tableVars
  <2>. QED
    BY <2>1, <2>2 DEF AccountInv, RunningIsAccounted
<1>. QED
  BY <1>1, <1>2, <1>3 DEF Execute

\* A task shown as running is executed by its last claimant, or that execution
\* was lost, to a crash, a database error or the timeout of a shutdown that waited
\* for it: a stop does not abandon a task claimed by a transaction that was still
\* open when the stop was requested.
THEOREM TasksRunningIsAccounted == Spec => []RunningIsAccounted
<1>1. Init => AccountInv
  <2>1. Init => RunningIsAccounted
    BY DEF Init, RunningIsAccounted
  <2>. QED
    BY <2>1, QueueInit DEF AccountInv
<1>2. AccountInv /\ [Next]_vars => AccountInv'
  <2>1. AccountInv /\ Next => RunningIsAccounted'
    BY AccountRows, AccountProcess, AccountClaim, AccountExecute DEF Next
  <2>2. AccountInv /\ UNCHANGED vars => RunningIsAccounted'
    BY DEF AccountInv, RunningIsAccounted, vars, tableVars, workerVars
  <2>. QED
    BY <2>1, <2>2, QueueNext DEF AccountInv
<1>3. AccountInv => RunningIsAccounted
  BY DEF AccountInv
<1>. QED
  BY <1>1, <1>2, <1>3, PTL DEF Spec

-----------------------------------------------------------------------------
\* A task that is done or failed never returns to the queue: a claim holds the
\* row it found pending until it commits, so no execution ends it in between.
THEOREM TasksTerminalIsFinal == Spec => TerminalIsFinal
<1>. DEFINE Final == \A t \in Tasks : status[t] \in Terminal => status'[t] \in Terminal
<1>1. QueueInv /\ [Next]_vars => Final
  <2>. SUFFICES ASSUME QueueInv, [Next]_vars PROVE Final
    OBVIOUS
  <2>1. ASSUME NEW t \in Tasks, CreateTask(t) \/ GrowStale(t) PROVE Final
    BY <2>1 DEF CreateTask, GrowStale, QueueInv, TypeOK, Terminal
  <2>2. ASSUME NEW w \in Workers, Process(w) PROVE Final
    <3>1. CASE Start(w)
      BY <3>1, RecoveredRows DEF Start, Terminal
    <3>2. CASE Shutdown(w) \/ Stopped(w) \/ Crash(w)
      BY <3>2 DEF Shutdown, Stopped, Crash, tableVars
    <3>. QED
      BY <2>2, <3>1, <3>2 DEF Process
  <2>3. ASSUME NEW w \in Workers, Claim(w) PROVE Final
    <3>1. CASE SelectPending(w)
      BY <3>1 DEF SelectPending, tableVars
    <3>2. CASE CommitClaim(w)
      BY <3>2, ClaimedRow DEF CommitClaim, QueueInv, TypeOK, Terminal
    <3>. QED
      BY <2>3, <3>1, <3>2 DEF Claim
  <2>4. ASSUME NEW r \in runs, Execute(r) PROVE Final
    <3>1. CASE AcquireDocument(r) \/ DatabaseError(r) \/ DrainTimeout(r)
      BY <3>1 DEF AcquireDocument, DatabaseError, DrainTimeout, tableVars
    <3>2. CASE MarkDone(r) \/ MarkFailed(r)
      BY <3>2 DEF MarkDone, MarkFailed, QueueInv, TypeOK, Executions, Terminal
    <3>. QED
      BY <2>4, <3>1, <3>2 DEF Execute
  <2>5. CASE UNCHANGED vars
    BY <2>5 DEF vars, tableVars
  <2>. QED
    BY <2>1, <2>2, <2>3, <2>4, <2>5 DEF Next
<1>2. QueueInv /\ [Next]_vars => [Final]_vars
  BY <1>1
<1>. QED
  BY <1>2, QueueInit, QueueNext, PTL DEF Spec, TerminalIsFinal

-----------------------------------------------------------------------------
(* The concurrency cap.  A worker's claim transaction stands for one more  *)
(* execution from the moment the loop has tested the cap.                  *)

CapInv ==
  /\ IsFiniteSet(runs)
  /\ \A w \in Workers :
       /\ Cardinality(RunsOn(w)) <= MaxConcurrent
       /\ claiming[w] # NoTask => Cardinality(RunsOn(w)) < MaxConcurrent

\* A worker's executions are finitely many; fewer of them keep the cap.
LEMMA FewerRuns ==
  ASSUME NEW S, NEW T \in SUBSET S, IsFiniteSet(S), NEW n \in Nat
  PROVE  /\ Cardinality(S) <= n => Cardinality(T) <= n
         /\ Cardinality(S) < n => Cardinality(T) < n
<1>1. IsFiniteSet(T) /\ Cardinality(T) <= Cardinality(S)
  BY FS_Subset
<1>2. Cardinality(S) \in Nat /\ Cardinality(T) \in Nat
  BY <1>1, FS_CardinalityType
<1>. QED
  BY <1>1, <1>2

\* Steps that start no execution and no claim keep the cap.
LEMMA CapShrink ==
  ASSUME CapInv, runs' \subseteq runs,
         \A w \in Workers : claiming'[w] = claiming[w] \/ claiming'[w] = NoTask
  PROVE  CapInv'
<1>1. IsFiniteSet(runs')
  BY FS_Subset DEF CapInv
<1>2. ASSUME NEW w \in Workers
      PROVE  /\ Cardinality(RunsOn(w)') <= MaxConcurrent
             /\ claiming'[w] # NoTask => Cardinality(RunsOn(w)') < MaxConcurrent
  <2>1. RunsOn(w) \in SUBSET runs /\ RunsOn(w)' \in SUBSET RunsOn(w)
    BY DEF RunsOn
  <2>2. IsFiniteSet(RunsOn(w))
    BY <2>1, FS_Subset DEF CapInv
  <2>. QED
    BY <2>1, <2>2, FewerRuns, PipelineAssumption DEF CapInv
<1>. QED
  BY <1>1, <1>2 DEF CapInv

LEMMA CapClaim ==
  ASSUME QueueInv, CapInv, NEW w \in Workers, Claim(w)
  PROVE  CapInv'
<1>1. CASE SelectPending(w)
  <2>1. UNCHANGED runs /\ \A v \in Workers : v # w => claiming'[v] = claiming[v]
    BY <1>1 DEF SelectPending, QueueInv, TypeOK
  <2>2. Cardinality(RunsOn(w)) < MaxConcurrent
    BY <1>1 DEF SelectPending
  <2>. QED
    BY <2>1, <2>2 DEF CapInv, RunsOn
<1>2. CASE CommitClaim(w)
  <2>. DEFINE r == [task |-> claiming[w], claim |-> claims[claiming[w]] + 1,
                    worker |-> w, stage |-> "loading"]
  <2>1. runs' = runs \cup {r} /\ claiming[w] # NoTask /\ claiming'[w] = NoTask
        /\ \A v \in Workers : v # w => claiming'[v] = claiming[v]
    BY <1>2 DEF CommitClaim, QueueInv, TypeOK
  <2>2. IsFiniteSet(runs')
    BY <2>1, FS_AddElement DEF CapInv
  <2>3. RunsOn(w)' = RunsOn(w) \cup {r}
        /\ \A v \in Workers : v # w => RunsOn(v)' = RunsOn(v)
    BY <2>1 DEF RunsOn
  <2>4. Cardinality(RunsOn(w)') <= MaxConcurrent
    <3>1. RunsOn(w) \in SUBSET runs
      BY DEF RunsOn
    <3>2. IsFiniteSet(RunsOn(w))
      BY <3>1, FS_Subset DEF CapInv
    <3>3. Cardinality(RunsOn(w)) \in Nat
      BY <3>2, FS_CardinalityType
    <3>. HIDE DEF r
    <3>7. IsFiniteSet(RunsOn(w) \cup {r})
          /\ Cardinality(RunsOn(w) \cup {r}) <= Cardinality(RunsOn(w)) + 1
      BY <3>2, <3>3, FS_AddElement
    <3>4. Cardinality(RunsOn(w)') <= Cardinality(RunsOn(w)) + 1
      BY <2>3, <3>7
    <3>5. Cardinality(RunsOn(w)) < MaxConcurrent
      BY <2>1 DEF CapInv
    <3>6. Cardinality(RunsOn(w)') \in Nat
      BY <2>3, <3>7, FS_CardinalityType
    <3>. QED
      BY <3>3, <3>4, <3>5, <3>6, PipelineAssumption
  <2>. QED
    BY <2>1, <2>2, <2>3, <2>4 DEF CapInv
<1>. QED
  BY <1>1, <1>2 DEF Claim

LEMMA CapAcquire ==
  ASSUME QueueInv, CapInv, NEW r \in runs, AcquireDocument(r)
  PROVE  CapInv'
<1>. DEFINE s == [r EXCEPT !.stage = "writing"]
<1>1. runs' = (runs \ {r}) \cup {s} /\ UNCHANGED claiming
  BY DEF AcquireDocument
<1>2. s.worker = r.worker /\ s \notin runs
  \* No execution of this document is writing before the step.
  <2>1. r \in Executions /\ s.task = r.task /\ s.stage = "writing" /\ s.worker = r.worker
    BY DEF QueueInv, TypeOK, Executions
  <2>. QED
    BY <2>1 DEF AcquireDocument
<1>3. IsFiniteSet(runs')
  BY <1>1, FS_RemoveElement, FS_AddElement DEF CapInv
<1>4. ASSUME NEW w \in Workers
      PROVE  Cardinality(RunsOn(w)') = Cardinality(RunsOn(w))
  <2>1. CASE w = r.worker
    <3>1. RunsOn(w)' = (RunsOn(w) \ {r}) \cup {s} /\ r \in RunsOn(w) /\ s \notin RunsOn(w)
      <4>1. \A q : q \in RunsOn(w)' <=> q \in runs' /\ q.worker = w
        BY DEF RunsOn
      <4>2. \A q : q \in RunsOn(w) <=> q \in runs /\ q.worker = w
        BY DEF RunsOn
      <4>3. \A q : q \in runs' <=> (q \in runs /\ q # r) \/ q = s
        BY <1>1
      <4>. HIDE DEF s
      <4>. QED
        BY <1>2, <2>1, <4>1, <4>2, <4>3
    <3>2. RunsOn(w) \in SUBSET runs
      BY DEF RunsOn
    <3>3. IsFiniteSet(RunsOn(w))
      BY <3>2, FS_Subset DEF CapInv
    <3>4. IsFiniteSet(RunsOn(w) \ {r})
          /\ Cardinality(RunsOn(w) \ {r}) = Cardinality(RunsOn(w)) - 1
      BY <3>1, <3>3, FS_RemoveElement
    <3>5. Cardinality((RunsOn(w) \ {r}) \cup {s}) = Cardinality(RunsOn(w) \ {r}) + 1
      BY <3>1, <3>4, FS_AddElement
    <3>6. Cardinality(RunsOn(w)) \in Nat
      BY <3>3, FS_CardinalityType
    <3>. QED
      BY <3>1, <3>4, <3>5, <3>6
  <2>2. CASE w # r.worker
    <3>1. RunsOn(w)' = RunsOn(w)
      <4>1. \A q : q \in RunsOn(w)' <=> q \in runs' /\ q.worker = w
        BY DEF RunsOn
      <4>2. \A q : q \in RunsOn(w) <=> q \in runs /\ q.worker = w
        BY DEF RunsOn
      <4>3. \A q : q \in runs' <=> (q \in runs /\ q # r) \/ q = s
        BY <1>1
      <4>. HIDE DEF s
      <4>. QED
        BY <1>2, <2>2, <4>1, <4>2, <4>3
    <3>. QED
      BY <3>1
  <2>. QED
    BY <2>1, <2>2
<1>. QED
  BY <1>1, <1>3, <1>4 DEF CapInv

LEMMA CapNext == QueueInv /\ CapInv /\ [Next]_vars => CapInv'
<1>. SUFFICES ASSUME QueueInv, CapInv, [Next]_vars PROVE CapInv'
  OBVIOUS
<1>1. ASSUME NEW t \in Tasks, CreateTask(t) \/ GrowStale(t) PROVE CapInv'
  BY <1>1, CapShrink DEF CreateTask, GrowStale, workerVars
<1>2. ASSUME NEW w \in Workers, Process(w) PROVE CapInv'
  <2>1. runs' \subseteq runs
    BY <1>2 DEF Process, Start, Shutdown, Stopped, Crash
  <2>2. \A v \in Workers : claiming'[v] = claiming[v] \/ claiming'[v] = NoTask
    BY <1>2 DEF Process, Start, Shutdown, Stopped, Crash, QueueInv, TypeOK
  <2>. QED
    BY <2>1, <2>2, CapShrink
<1>3. ASSUME NEW r \in runs, Execute(r) PROVE CapInv'
  <2>1. CASE MarkDone(r) \/ MarkFailed(r) \/ DatabaseError(r) \/ DrainTimeout(r)
    BY <2>1, CapShrink DEF MarkDone, MarkFailed, DatabaseError, DrainTimeout
  <2>. QED
    BY <1>3, <2>1, CapAcquire DEF Execute
<1>4. CASE UNCHANGED vars
  BY <1>4, CapShrink DEF vars, workerVars
<1>. QED
  BY <1>1, <1>2, <1>3, <1>4, CapClaim DEF Next

\* No worker ever executes more than MaxConcurrent tasks, although the loop tests
\* the number before it awaits the claim.
THEOREM TasksCapacityRespected == Spec => []CapacityRespected
<1>1. Init => CapInv
  <2>. SUFFICES ASSUME Init PROVE CapInv
    OBVIOUS
  <2>1. runs = {} /\ \A w \in Workers : RunsOn(w) = {} /\ claiming[w] = NoTask
    BY DEF Init, RunsOn
  <2>2. IsFiniteSet({}) /\ Cardinality({}) = 0
    BY FS_EmptySet
  <2>. QED
    BY <2>1, <2>2, PipelineAssumption DEF CapInv
<1>2. CapInv => CapacityRespected
  BY DEF CapInv, CapacityRespected
<1>. QED
  BY <1>1, <1>2, QueueInit, QueueNext, CapNext, PTL DEF Spec

=============================================================================
