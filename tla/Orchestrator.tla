---------------------------- MODULE Orchestrator -----------------------------
(***************************************************************************)
(* PipelineOrchestrator.run over one document: the checkpointed steps of   *)
(* the DAG, inside the single transaction of PipelineWorker._execute_task. *)
(*                                                                         *)
(* A step has a checkpoint (its fingerprint) and an output.  The outputs   *)
(* of some steps (cleaned content, image descriptions, fetched articles)   *)
(* live only in the memory of the run: the artifact row does not keep      *)
(* them.  What an agent writes is abstracted to the model it was asked of  *)
(* and to whether it was computed from the present outputs of the steps it *)
(* depends on.                                                             *)
(***************************************************************************)
EXTENDS StepGraph

CONSTANTS Deps,         \* the direct dependencies of the steps whose agent is registered
          Order,        \* topological_order(), restricted to Steps
          Persisted,    \* steps whose output the artifact row keeps
          Execs,        \* executions that may be alive at once
          Forces,       \* values of the force argument
          Models,       \* what the settings may map the model tiers to
          MaxVersion    \* bound on the versions of a step

ASSUME OrchestratorAssumption ==
  /\ Deps \in [Steps -> SUBSET Steps]
  /\ Order \in Seq(Steps)
  /\ IsTopological(Deps, Order)
  /\ Persisted \subseteq Steps
  /\ Forces \subseteq BOOLEAN
  /\ MaxVersion \in Nat

VARIABLES row,      \* the artifact as committed
          status,   \* documents.status as committed
          version,  \* per step: agent version, prompt version and locale in force
          pc,       \* per execution: "idle", "loaded" or "stepping"
          art,      \* the artifact it works on
          saved,    \* the artifact as it last flushed it, None if never
          config,   \* the versions it runs with
          asks,     \* the models it asks
          force,    \* its force argument
          at,       \* index in Order of its next step
          reverted, \* history: the steps whose version ever went back
          masked    \* history: the status comes from a run that never saw the row

runVars == <<pc, art, saved, config, asks, force, at>>
vars == <<row, status, version, runVars, reverted, masked>>

Last == Len(Order)

\* No checkpoint, or no artifact flushed.
None == [absent |-> TRUE]

(* An artifact: the checkpoints, the steps whose output is present, the     *)
(* models each was asked of, and the pairs <<s, d>> such that the output of *)
(* s was computed from the present output of its dependency d.              *)
EmptyArtifact ==
  [fp |-> [s \in Steps |-> None], have |-> {}, by |-> [s \in Steps |-> None],
   fresh |-> {}]

\* What save_checkpoint writes and load_latest reads back.
Stored(a) ==
  [fp |-> a.fp, have |-> a.have \cap Persisted, by |-> a.by, fresh |-> a.fresh]

\* _compute_fingerprint: the step's own versions and the checkpoints of its
\* dependencies.  The model is no part of it: the code looks for the model's tier
\* in a list of capabilities, the agents return a tuple, so model_id stays "".
\* A digest is taken to be injective.
Fingerprint(a, c, s) ==
  [version |-> c[s], inputs |-> [d \in Deps[s] |-> a.fp[d]]]

\* Mutant of Cached: any checkpoint will do.
HasCheckpoint(a, c, s) == a.fp[s] # None

\* is_step_cached
Cached(a, c, s) == a.fp[s] # None /\ a.fp[s] = Fingerprint(a, c, s)

\* Mutant of Dropped: a forced run keeps the checkpoints it has not come to yet.
DroppedNone(s, forced) == {}

\* The checkpoints a forced run drops before it executes step s.
Dropped(s, forced) == IF forced THEN Downstream(Deps, s) ELSE {}

\* The artifact after step s was executed, asking the models m, and its checkpoint
\* stored.
Executed(a, c, m, s, forced) ==
  [fp |-> [t \in Steps |-> IF t = s THEN Fingerprint(a, c, s)
                           ELSE IF t \in Dropped(s, forced) THEN None
                           ELSE a.fp[t]],
   have |-> a.have \cup {s},
   by |-> [a.by EXCEPT ![s] = m],
   fresh |-> {q \in a.fresh : q[1] # s /\ q[2] # s}
               \cup {<<s, d>> : d \in Deps[s] \cap a.have}]

-----------------------------------------------------------------------------
Init ==
  /\ row = EmptyArtifact
  /\ status = "uploaded"
  /\ version = [s \in Steps |-> 0]
  /\ pc = [e \in Execs |-> "idle"]
  /\ art = [e \in Execs |-> EmptyArtifact]
  /\ saved = [e \in Execs |-> None]
  /\ config = [e \in Execs |-> [s \in Steps |-> 0]]
  /\ asks = [e \in Execs |-> None]
  /\ force = [e \in Execs |-> FALSE]
  /\ at = [e \in Execs |-> 1]
  /\ reverted = {}
  /\ masked = FALSE

\* A release brings another agent or prompt version of a step, or is rolled back.
\* Another prompt locale of the knowledge base is such a change of every step.
ChangeVersion(s) ==
  /\ \E v \in 0 .. MaxVersion :
       /\ v = version[s] + 1 \/ v < version[s]
       /\ version' = [version EXCEPT ![s] = v]
       /\ reverted' = IF v < version[s] THEN reverted \cup {s} ELSE reverted
  /\ UNCHANGED <<row, status, runVars, masked>>

\* _load_or_create_artifact and the settings of the run, read before the
\* document's row is locked.  The models are those its worker was started with.
LoadArtifact(e) ==
  /\ pc[e] = "idle"
  /\ pc' = [pc EXCEPT ![e] = "loaded"]
  /\ art' = [art EXCEPT ![e] = row]
  /\ config' = [config EXCEPT ![e] = version]
  /\ \E m \in Models : asks' = [asks EXCEPT ![e] = m]
  /\ \E f \in Forces : force' = [force EXCEPT ![e] = f]
  /\ UNCHANGED <<row, status, version, saved, at, reverted, masked>>

\* update_status(PROCESSING): waits for another transaction on the document.
BeginRun(e) ==
  /\ pc[e] = "loaded"
  /\ \A f \in Execs : pc[f] # "stepping"
  /\ pc' = [pc EXCEPT ![e] = "stepping"]
  /\ UNCHANGED <<row, status, version, art, saved, config, asks, force, at,
                 reverted, masked>>

Current(e) == Order[at[e]]

\* The checkpoint skip.
SkipCached(e) ==
  /\ pc[e] = "stepping" /\ at[e] <= Last
  /\ ~force[e] /\ Cached(art[e], config[e], Current(e))
  /\ at' = [at EXCEPT ![e] = @ + 1]
  /\ UNCHANGED <<row, status, version, pc, art, saved, config, asks, force,
                 reverted, masked>>

NotSkipped(e) ==
  /\ pc[e] = "stepping" /\ at[e] <= Last
  /\ force[e] \/ ~Cached(art[e], config[e], Current(e))

\* The agent succeeds, its checkpoint is stored and flushed.
ExecuteStep(e) ==
  LET a == Executed(art[e], config[e], asks[e], Current(e), force[e]) IN
  /\ NotSkipped(e)
  /\ art' = [art EXCEPT ![e] = a]
  /\ saved' = [saved EXCEPT ![e] = Stored(a)]
  /\ at' = [at EXCEPT ![e] = @ + 1]
  /\ UNCHANGED <<row, status, version, pc, config, asks, force, reverted, masked>>

\* The execution is over; its locals go.
EndRun(e) ==
  /\ pc' = [pc EXCEPT ![e] = "idle"]
  /\ art' = [art EXCEPT ![e] = EmptyArtifact]
  /\ saved' = [saved EXCEPT ![e] = None]
  /\ config' = [config EXCEPT ![e] = [s \in Steps |-> 0]]
  /\ asks' = [asks EXCEPT ![e] = None]
  /\ force' = [force EXCEPT ![e] = FALSE]
  /\ at' = [at EXCEPT ![e] = 1]

\* COMMIT of the whole execution: what it flushed, and the document's status.  A
\* run that flushed nothing vouches for what it loaded, and the row may be another
\* by now.
CommitRun(e, st) ==
  /\ row' = IF saved[e] = None THEN row ELSE saved[e]
  /\ status' = st
  /\ masked' = (saved[e] = None /\ art[e] # row)
  /\ EndRun(e)
  /\ UNCHANGED <<version, reverted>>

\* The agent reports an error or raises: the run is marked failed, and the
\* checkpoints flushed so far are committed with it.
StepFails(e) == NotSkipped(e) /\ CommitRun(e, "failed")

\* Mutant of CompleteRun: one step too early.
CompleteEarly(e) ==
  /\ pc[e] = "stepping" /\ at[e] >= Last
  /\ CommitRun(e, "done")

\* All steps succeeded.
CompleteRun(e) ==
  /\ pc[e] = "stepping" /\ at[e] > Last
  /\ CommitRun(e, "done")

\* A crash or a database error: the transaction rolls back.
LoseRun(e) ==
  /\ pc[e] # "idle"
  /\ EndRun(e)
  /\ UNCHANGED <<row, status, version, reverted, masked>>

-----------------------------------------------------------------------------
RunStep(e) ==
  \/ LoadArtifact(e) \/ BeginRun(e) \/ SkipCached(e) \/ ExecuteStep(e)
  \/ StepFails(e) \/ CompleteRun(e) \/ LoseRun(e)

Next ==
  \/ \E s \in Steps : ChangeVersion(s)
  \/ \E e \in Execs : RunStep(e)

Spec == Init /\ [][Next]_vars

-----------------------------------------------------------------------------
\* Types: what the row holds never includes an output it cannot keep, and only
\* dependencies are recorded as inputs.
IsArtifact(a) ==
  /\ a = [fp |-> a.fp, have |-> a.have, by |-> a.by, fresh |-> a.fresh]
  /\ a.by \in [Steps -> Models \cup {None}]
  /\ a.fp = [s \in Steps |-> a.fp[s]]
  /\ a.have \subseteq Steps
  /\ \A q \in a.fresh : q[1] \in Steps /\ q[2] \in Deps[q[1]]

IsStored(a) == IsArtifact(a) /\ a.have \subseteq Persisted

TypeOK ==
  /\ IsStored(row)
  /\ status \in {"uploaded", "done", "failed"}
  /\ version \in [Steps -> 0 .. MaxVersion]
  /\ pc \in [Execs -> {"idle", "loaded", "stepping"}]
  /\ \A e \in Execs : IsArtifact(art[e]) /\ (saved[e] = None \/ IsStored(saved[e]))
  /\ art = [e \in Execs |-> art[e]] /\ saved = [e \in Execs |-> saved[e]]
  /\ config \in [Execs -> [Steps -> 0 .. MaxVersion]]
  /\ asks \in [Execs -> Models \cup {None}]
  /\ force \in [Execs -> BOOLEAN]
  /\ at \in [Execs -> 1 .. Last + 1]
  /\ reverted \subseteq Steps /\ masked \in BOOLEAN

\* The steps whose fingerprint can not have come back: neither their own version
\* nor that of a step they depend on ever went back.
Steady ==
  {d \in Steps : \A s \in reverted : d # s /\ d \notin Downstream(Deps, s)}

\* A processed document is consistent: the summary, cards, concept map and
\* validation the row holds were each computed from the very outputs the row
\* holds, whatever mixture of skipped, failed, forced, lost and overlapping runs
\* led there.  Two things excuse it: a run that skipped every step marks the
\* document done over a row it has not seen (masked); and a fingerprint that came
\* back hides that its step was executed again (not Steady).
Consistent ==
  status = "done" /\ ~masked =>
    \A s \in Persisted : \A d \in Deps[s] \cap Persisted \cap Steady :
      <<s, d>> \in row.fresh

\* A processed document has every checkpoint and every output the row can keep,
\* but for masked ones.
Complete ==
  status = "done" /\ ~masked =>
    Persisted \subseteq row.have /\ \A s \in Steps : row.fp[s] # None

\* A run that completes commits no checkpoint that its own configuration would not
\* reproduce (no step was skipped for an outdated reason), and a forced one no
\* output of another model than its own; unless it commits nothing over a row it
\* has not seen.
UpToDateWhenCompleted ==
  [][\A e \in Execs : CompleteRun(e) /\ ~masked' =>
       /\ \A s \in Steps : row'.fp[s] = Fingerprint(row', config[e], s)
       /\ force[e] => \A s \in Steps : row'.by[s] = asks[e]]_vars

-----------------------------------------------------------------------------
\* "A step is skippable if and only if the corresponding artifact field is already
\* non-None and the fingerprint matches": behind the current step every output is
\* there for the steps that require it.
OutputsPresent ==
  \A e \in Execs : pc[e] = "stepping" =>
    \A i \in DOMAIN Order : i < at[e] => Order[i] \in art[e].have

\* "A crash mid-pipeline resumes from the last completed step": the checkpoints a
\* run has flushed are in the row when it ends, however it ends.
CheckpointsSurvive ==
  [][\A e \in Execs :
       pc[e] = "stepping" /\ pc'[e] = "idle" /\ saved[e] # None => row' = saved[e]]_vars

\* "Prompt or model changes automatically trigger re-processing": what a run that
\* completes commits was made by the models it asks.
ModelCurrent ==
  [][\A e \in Execs : CompleteRun(e) => \A s \in Steps : row'.by[s] = asks[e]]_vars

\* "All steps succeeded": a document marked done has them all in the row.
DoneMeansComplete ==
  status = "done" =>
    Persisted \subseteq row.have /\ \A s \in Steps : row.fp[s] # None

\* "Any upstream change propagates a new fingerprint to all downstream steps": in a
\* document marked done no output rests on an older one than the row holds.
ChangesPropagate ==
  status = "done" /\ ~masked =>
    \A s \in Persisted : \A d \in Deps[s] \cap Persisted : <<s, d>> \in row.fresh

=============================================================================
