# MindForge in TLA+

MindForge turns uploaded documents into study material: a FastAPI process takes uploads, a
pipeline worker runs a graph of AI agents over each document, and events carried by an outbox
table feed a graph projection, an audit log and the browsers; learners review cards, answer
quizzes and chat about what they uploaded. This directory holds TLA+ models of the parts where
concurrency, failure and ordering decide whether that works, TLC configurations that check them
on small instances, and TLAPS proofs that hold for every instance.

Paths below are relative to `src/`; `mindforge/` is left out where no confusion arises.
`RUN` stands for `mindforge/cli/pipeline_runner.py`.

## 1. The system

### Components, their state and their operations

| Component | Code | State | Operations | Here |
|---|---|---|---|---|
| Outbox publisher and table | `infrastructure/events/outbox_publisher.py`, `persistence/models.py:411` | `outbox_events` rows, identity column | insert in the caller's transaction, commit, rollback, retention | `Outbox` |
| Outbox relay | `infrastructure/events/outbox_relay.py` | row locks of a flush, `published` | claim batch, publish to Redis, mark, purge | `OutboxRelay` |
| Durable consumer | `infrastructure/events/durable_consumer.py` | `consumer_cursors`, in-memory retry counts | poll, handle, retry, skip poison, advance | `DurableConsumer` |
| Task queue and worker | `RUN`, `persistence/pipeline_task_repo.py` | `pipeline_tasks`, the worker's asyncio tasks | submit, claim, execute, mark, reclaim, stop | `PipelineTasks` |
| Orchestration graph | `application/orchestration.py` | the DAG | topological order, downstream, validation | `StepGraph`, `OrchestrationGraph` |
| Orchestrator, checkpoints | `application/pipeline.py`, `persistence/artifact_repo.py` | `document_artifacts`, `documents.status` | run, skip, execute, flush, fail, complete | `Orchestrator` |
| Agents | `agents/` | the pipeline context | one step each | `Agents`; prompts left out |
| Sanitizer, parsers | `security/upload_sanitizer.py`, `parsing/`, `domain/models.py` (`LessonIdentity`) | none | accept or refuse a file, derive its lesson | `UploadFile` |
| Ingestion, knowledge bases | `application/ingestion.py`, `persistence/document_repo.py`, `persistence/kb_repo.py` | `documents`, revisions, active flag, `knowledge_bases` | upload, deduplicate, limit, deactivate, save, reprocess; create, rename, delete | `Ingestion`, `LessonHistory` |
| AI gateway | `infrastructure/ai/infra/gateway.py` | a circuit breaker per model | call, retry, wait, fall back, open, probe | `Gateway` |
| Graph projection | `GraphIndexerConsumer`, `graph/neo4j_indexer.py`, `graph/neo4j_retrieval.py` | Neo4j nodes and edges | delete and merge a lesson, delete orphans; searches | `GraphProjection` |
| Study progress, flashcards | `domain/models.py:559`, `persistence/study_progress_repo.py`, `application/flashcards.py` | `study_progress` | review, due list | `StudyProgress` |
| Quiz | `application/quiz.py`, `persistence/pg_quiz_sessions.py` | `quiz_sessions` | start, submit, grade, expire | `Quiz` |
| Chat | `application/chat.py`, `persistence/interaction_repo.py` | session turns in memory or Redis, audit rows | start, send, persist, record, expire | `Chat` |
| Authentication, rate limiter | `api/auth.py`, `api/routers/auth.py`, `api/middleware.py` | `users`, `external_identities`, cookies, token buckets | register, log in, refresh, log out, Discord callback, admit | `Accounts` |
| Browser events, audit logger, search, frontend, bots | | none of their own | | not modelled, see section 8 |

### How they interact

An upload passes the sanitizer and a parser, then inserts a document, a task and a
`DocumentIngested` event in one transaction. A worker claims the task and executes it in a second
transaction: it loads the artifact, runs the orchestrator over the DAG, which asks the models
through the gateway, flushes a checkpoint and an event per step, and marks document and task. The
events become visible when that transaction commits. Relays forward them to Redis (fire and
forget, for the browsers); durable consumers read the same table behind a cursor of their own and
update Neo4j and the audit log. Flashcards are read from the artifacts of active documents, quiz
and chat retrieve from Neo4j; a quiz answer is a review of the same table as a flashcard review.
Every request is served in a transaction that commits after its response was sent.

### What is hard

* Sequence numbers are drawn at INSERT and appear at COMMIT; pipeline transactions stay open for
  minutes. Everything that reads the table "after position n" is exposed to that.
* Several relays, several workers and, during a deployment, two copies of a consumer share
  tables; SKIP LOCKED and row locks are all that keeps them apart.
* Staleness of a task is guessed from the age of its claim, so an execution may still be alive
  when its task is given away; marks are unconditional.
* A stop gives executions thirty seconds and then cancels them, and a claim may be committed after
  the signal.
* A whole pipeline run is one transaction around steps that are flushed one by one, some outputs
  live only in memory, and two executions of a document may overlap: what a crashed, failed,
  repeated or waiting run leaves is not obvious.
* Handlers take effect outside the transaction that moves the cursor, and the graph's statements
  are committed one by one.
* Uploads check first and act later, and meet on unique constraints and row locks.
* Requests read, await a model and write back: chat turns, quiz sessions, review schedules.
* A response is sent before its transaction commits, while caches and stores of their own are
  written at once.
* Breakers are shared by calls that started under another state of them.

`PROJECT.json` lists each hazard at its line together with the properties that cover it.

### What makes each component correct

* Outbox, relay: only committed events leave; at least once; twice only after a failed flush.
* Consumer: nothing at or below the cursor is lost, first effects in order, poison only after
  enough failures, every event is dealt with in the end.
* Queue: a task is executed once per claim, claims are bounded, only a crash, a database error or
  the timeout of a stop abandons a running task, an ended task stays ended, every task ends.
* Graph of steps: the order is topological, exactly the cyclic graphs are refused, downstream is
  the transitive closure.
* Orchestrator: a processed document is complete, consistent and up to date (with the versions and
  the locale its fingerprints hold; not with the models).
* Ingestion: a lesson is a sequence of contents of which the last is active; no content twice;
  the limit is overshot at most by the requests in flight; every upload is answered.
* Gateway: breakers agree with the failures, shed the load when open, let calls end in bounded time.
* Graph projection: a lesson shows one artifact, whole, and in the end the last run's; retrieval
  finds it; a rewriting cut short is repeated; at rest the graph is exact but for what overlapping
  rewritings left over.
* Study: a schedule is the SM-2 schedule of the reviews; a question is graded once and a session
  never used up for nothing.
* Chat and accounts: an answered message is kept and audited; tokens name accounts; the rate of
  logins is bounded.

## 2. Modules

Each `MC...` module only names model values and small instances; each `...Proofs` module holds the
theorems of a component, or of components that share a module. Definitions called "Mutant of X" in a
comment are faulty variants of X that no specification uses: with X replaced by one of them the
named run fails, which shows that the property really depends on that piece of code.

### Processing documents

**`UploadFile`** says what a file says before anything is stored: `Sanitized`, `Validated` and
`Parses` are the refusals, `Metadata` what each parser reads, `LessonOf` the lesson that
`LessonIdentity.resolve` finds (the first valid of lesson id, title, PDF title and file name). Texts
are opaque; which are slugs of which, too long or reserved is a constant.

**`LessonHistory`** is the abstract specification of ingestion: per knowledge base and lesson a
sequence of contents, of which the last is served; an upload appends one that is new to the
knowledge base; only an empty knowledge base goes away.

**`Ingestion`** (extends `UploadFile`) is an upload request statement by statement:
`VerifyOwner`, `CheckContent` (duplicate test), `CheckPending`, `Deactivate` (owns the active row from
here, or waits for who does; `Resume` re-evaluates the row as READ COMMITTED does), `Save` (the
constraints, by `Clash`), `CommitUpload`, and `CutOff` anywhere. `SeenBy` is what a statement of a
request sees. Beside it `Reprocess`, pipeline runs that hold their document's row (`StartRun`,
`EndRun`) and the life of knowledge bases (`CreateKB`, `RenameKB`, `DeleteKB`).

**`PipelineTasks`**. Per worker: `Start` (which does `RecoverStaleTasks` first), `SelectPending`
and `CommitClaim` (the claim transaction, so that a stop can fall in between), `Shutdown` (the
signal: `shutdown()` begins to wait for the executions active at this moment), `Stopped` (`run_forever`
has gathered what is left), `Crash`. Per execution: `AcquireDocument` (waits for the document's row
lock), `MarkDone`, `MarkFailed`, `DatabaseError`, and `DrainTimeout`: the thirty seconds of
`wait_for(gather(...))` are over (`RUN:206-217`), the execution is cancelled, no handler catches the
`CancelledError`, the transaction rolls back and the row stays `running`. `GrowStale` lets a claim
pass the threshold at any time. An execution is identified by its task and claim number, so the
executions of a reclaimed task are told apart. `waited` holds the executions alive that a
`shutdown()` waits for and may cancel; `lost` is history: the executions a crash, an error or the
timeout ended.

**`StepGraph`** defines a DAG of steps as the next two modules see it: `IsTopological` for an order
and `Downstream` for the least set of steps that transitively depend on one.

**`OrchestrationGraph`** runs the two loops of `OrchestrationGraph` step by step on a graph chosen
at the start: `PopReady` and `Ordered` for `topological_order`, `Search`, `PopVisit` and `Found`
for `downstream`. The order of the dict of nodes is left open: nodes that become ready together
are queued in any order.

**`Orchestrator`**. `LoadArtifact` reads the artifact row and the settings, *before* `BeginRun`
takes the document's row (`update_status(PROCESSING)`); then each step of `Order` is `SkipCached`
or `ExecuteStep` (or `StepFails`), and the run ends by `CompleteRun`, or by `LoseRun` when the
process or the database fails. The transaction is explicit: `saved` is what the run flushed and
`row` what is committed. A fingerprint is a record of the step's own versions and the fingerprints
of its dependencies, as `_compute_fingerprint` makes it; hashing is taken to be injective.
`ChangeVersion` stands for what changes a step's own part of it: the agent version, the prompt
version or the prompt locale, which a release may raise and a rollback lower. The model is not in
it: `model_id` is looked up in the elements of a *list* of capabilities (`pipeline.py:268-276`), the
agents return a tuple, so it is always the empty string. A run therefore asks the models of its
worker's settings (`asks`), and the model an output came from (`by`) is kept beside its fingerprint.
Outputs are abstracted to three facts: `have`, the steps whose output is present, `by`, and `fresh`,
the pairs (s, d) such that the output of s was computed from the present output of d. Histories:
`reverted`, the steps whose version ever went back, and `masked`, set when a run that flushed nothing
gives the document its status over a row that is no longer the one it loaded.
`Stored` drops the outputs the table has no column for. `document_parser`, `validation`,
`graph_indexer` and `read_model_publisher` have no registered agent, are skipped by every run and
lie before or after all registered steps, so `Steps` is the registered ones. The worker never
passes `force=True`; it is an argument of the public `run`, which the tests use, and is modelled
as such.

`OrchestrationGraph` and `Orchestrator` meet in two statements: that `result` is topological, which
`GraphRefusesExactlyCycles` establishes, is what `OrchestratorAssumption` requires of `Order`; and
`Downstream`, by which a forced run drops checkpoints, is what `DownstreamExact` compares `visited`
with.

**`Agents`** is one operator per pipeline agent whose output others depend on, from context and
answer to context or failure; what the flashcard generator leaves is `GenerateFlashcards` of
`StudyProgress`.
An answer is an error, text without JSON, JSON of the wrong shape, or what was asked for; the agents
treat these differently, and that is all that is kept of them.

**`Gateway`**. A completion keeps the candidates it has `todo`, its attempt and a timer. The
coroutine gives up control only in the request and in `sleep`, so `Complete`, `Success`, `Retry`,
`Resume`, `Fail` and `TimeOut` are everything between two awaits. `Tick` counts down what takes time
and never passes a timer at zero, so requests do not outlast their timeout. `breaker` is the breaker
per resolved model; `probes` is history: the requests sent to a model while its breaker was open.

### Events

**`Outbox`** is the table as both readers see it. An event is its `sequence_num`. `PublishInTx`
draws the next number inside the writer's open transaction, `Commit` makes all its rows visible at
once, `Rollback` leaves a hole. `MarkPublished` and `PurgePublished` are what the relay and the
retention loop do to a row. `Table` is what a READ COMMITTED statement sees.

**`OutboxRelay`** (extends `Outbox`). A flush is one transaction: `ClaimBatch` locks the first
`FlushSize` unlocked unpublished rows, `PublishToRedis` sends one, `FinishFlush` marks them all,
`AbortFlush` is a failure or a stop at any point, which releases the locks and forgets what was
sent. `sends` and `aborts` are history.

**`DurableConsumer`** (extends `Outbox`). A process repeats `ReadCursor`, `FetchBatch` or
`FetchNothing`, then per event `HandleEvent`, `RetryLater` (counts the failure and gives the batch
up) or `SkipPoison` (goes on without it), and `AdvanceCursor`. `DatabaseError` and `Restart` end a
batch anywhere; a restart also loses the retry counts. `applied`, `skipped`, `failures` and
`overtaken` are history; `overtaken` collects rows in flight when a fetch went past them.

**`GraphProjection`** (extends `Agents`) composes runs and indexers. `RunPipeline` makes the row an
artifact of the agents' answers, from any step on, and publishes its event if the run completed;
a failed run may change the row without one. A process polls as `DurableConsumer` does, over this
graph: `Fetch` takes the next events behind the cursor (`_get_cursor` and `_fetch_batch`, two queries
that are one step here), `LoadLatest` begins one of them by loading the row as it is *then*,
`RunStatement` performs one statement of `index_artifact` (`Execute`), and after the last event
`SetCursor` stores the position, looking at nothing. `Fail` gives the poll up, so that the event comes
again; at the last try it is `GiveUp`, and the poll goes on behind a half-written lesson; `Restart`
also loses the counts of failures; `LoseCursor` is a failed update of the position. The graph is the
sets of its nodes and edges; `Retrieve` is the two searches. The guard compares with the concepts the
graph holds at that moment. Histories: `shown` (the artifact whose indexing began last), `stale` (rows
a failed run has changed since), `mixed` (lessons last rewritten while another process was
rewriting), `cut` (lessons whose last rewriting ended half-way), `alone` (the process whose poll has
met no other's) and `astray` (lessons whose event was given up, or last handled in a poll that met
another's).

### Learning

**`StudyProgress`**. `Sm2` is `sm2_update` in hundredths, as the set of results the float may round
to. A review transaction is `SelectRow`, `UpsertRow`, `CommitReview`, each its own action, over the
committed `rows`. `DueList` is `get_due_cards`; `NewRevision` replaces the cards of a lesson, whose
old rows stay. `log` is history: the ratings committed per card.

**`Quiz`** (extends `StudyProgress`). `StartQuiz`, `CreateSession` (the store's own transaction),
`CommitStart` (the request's, later), `SubmitAnswer`, `Grade`, `DeleteSession`, `Commit`, `CutOff`;
`Expire`, and `FindExpired` which deletes lazily. `rushed` and `severed` are history: sessions
submitted twice at once, and sessions one of whose own submissions was cut off after deleting them
and before its commit. The API is meant to prefer a Redis store
(`.github/docs/architecture.md:1241,2294`), but `_make_quiz_store` (`api/main.py:311-338`) passes
its constructor an argument it does not take; the exception is caught and the PostgreSQL store is
always used. That store is the one modelled.

**`Accounts`**. `BeginRegister` and `FinishRegister` are the two halves of a registration, between
which another of the same email may commit. `Login`, `Refresh`, `Logout`; `DiscordLogin` and
`DiscordCallback`, which stores a new user in a session that is closed without a commit, so that the
tokens name a `ghost`. A token is its content. `Refilled` and `Admit` are the token bucket, counted
in units of one moment; `Moment` and `Lapse` are time as the bucket and as the tokens see it.

**`Chat`** (extends `Accounts`). A message is `SendMessage` (reads the session), the completion,
`PersistSession`, `RecordTurns` (refused by the foreign key while the session's own row is not
committed) and `CommitMessage`. `backend` decides whether requests share the session object or read
and overwrite the whole of it. `CutOff`, `Crash` and `TimePasses` (expiry) fall anywhere.

## 3. Runs

| Run | Bounds | Shows |
|---|---|---|
| `Relay` | 2 writers, 2 relays, 3 events, batches of 2, 1 failed flush | locks exclusive, marked only when sent, sent again only after a failure, `EventuallyPublished` |
| `Consumer` | 2 writers, 2 processes of one consumer, 2 events, batches of 2, 2 tries, 1 interrupt | nothing lost silently, poison failed often enough, first effects in order, when the cursor may move back, `EventuallyDelivered` |
| `Tasks` | 2 workers, 2 tasks of one document, 1 reclaim, 1 crash, any number of stops | claims counted, running tasks accounted for, ended tasks stay ended, `SettledIfRescued` |
| `Graph` | all 65 536 graphs over four steps, and 16 with an unknown name | order, cycles, downstream |
| `Orchestrate` | 2 executions, chain of 3 steps, one of them not stored, forced or not, 2 models, each step upgraded and rolled back at will between 2 versions, as far as `Focus` allows | consistent, complete, up to date |
| `Ingest` | 2 uploads at a time, 1 knowledge base, 3 contents of 2 lessons and 3 files that are refused, limit 1, 1 cut-off | one active revision, bounded overshoot, `HistoryRefined`, `EveryUploadAnswered` |
| `Gateway` | 2 completions, 1 model and 1 fallback, 1 retry, threshold 2, cooldown 2, waits and timeouts of 1 or 2 ticks | breakers agree with failures, open ones shed load, bounded duration, `EveryCallEnds` |
| `Project` | 2 runs over 3 documents of 2 lessons, 2 processes, batches of 2, 2 tries, 2 faults as far as `Focus` allows, maps that share concepts | lessons whole and findable, `GraphExact`, `CutIsRepeated`, `ShowsLatest` |
| `Learn` | 2 requests, an owner's deck and another user's, 1 card, 1 question, 3 reviews, 1 next day, 2 revisions, 1 cut-off | schedules explained, spacing, one grading, no session used up for nothing |
| `Api` | 2 browsers, 1 email, 1 Discord id, bucket of 2; 2 requests and 3 messages of 1 session, 1 cut-off, both backends | tokens name accounts, rate bounded, answers kept and audited |

The bounds are the smallest at which the hazards occur. Two transactions and two or three numbers
give holes, overtaking and a batch that ends in the middle of the table; two relays, workers,
processes or requests give every pairwise race. One reclaim gives a task with two executions alive;
two tasks of one document make executions wait for the row; a claim committed after the signal, or a
second signal, tells the executions a shutdown waits for from those it does not. Four nodes give
diamonds, cycles with and without a tail, and several paths to one dependant. In `Orchestrate` the
first step of the chain is not stored, so a resume has to do without its output; the forced run has
a transitive dependant to invalidate; two versions, taken up and given back in any order between
runs that fail or are lost, give every mixture of old, new and returned checkpoints; two executions
suffice for one that works on an artifact it loaded before it waited, while runs in the place of the
other complete and fail. In `Ingest` three contents give a revision that replaces another while a
third waits, and a limit of one is exceeded. In `Gateway` two calls suffice for an answer that comes
after the breaker was opened by the other, and for a retry that outlives it; two ticks for a wait
longer and shorter than a cooldown. In `Project` two runs on different lessons share concepts (orphan
deletion) and two on one lesson replace them; two processes poll at once, one from an old batch; one
fault cuts a rewriting short at any statement, and a second gives its event up. In `Learn` three
reviews reach the first interval that is computed, and ratings 2 and 4 a failure and a pass. In `Api`
three messages put one between two that overlap.

Three MC modules have a state constraint, `Focus`, that cuts combinations of independent things; the
theorems hold without it. In `MCChat`, once a chat session is started, there is one browser of one user
with no registration under way, because accounts and chats meet only in the access token. In
`MCOrchestrator`, executions overlap, and a second model is asked, only while at most the middle step is
upgraded, not both together, and overlap only as long as nothing was rolled back. In
`MCGraphProjection`, the second fault comes while at most one process polls and no lesson is `mixed`.
`Api`, `Orchestrate` and `Project` use symmetry (of messages, requests and browsers; of executions; of
processes); none of them checks a liveness property. `CHECK_DEADLOCK FALSE` stands where the system may
rest: algorithms that ended (`Graph`), all rows published (`Relay`), all events handled (`Project`).

Every property of a passing run is accompanied by a mutant, listed in `PROJECT.json`.

### Runs that end in a counterexample

Each states what a document of the repository says, and TLC finds the code doing otherwise.

* `ConsumerGap`, `NoLostEvents`: "guaranteeing at-least-once delivery" (`outbox_publisher.py:4-6`).
  Writer 1 inserts row 1, writer 2 inserts row 2 and commits, the consumer fetches row 2 and moves
  the cursor to 2, writer 1 commits: row 1 is never read.
* `DueCards`, `NewMeansNeverReviewed`: new cards are those with "no `study_progress` row yet"
  (`application/flashcards.py:57-60`). The code subtracts the cards of the *due* rows, so a card
  reviewed today is listed as new on the same day.

### Disagreements without a run of their own

Formulas of the modules state what a document says and are checked by no run; in the cfg of their
component TLC refutes each:

* `PipelineTasks!ReclaimsOnlyTheDead` (PROPERTY of `Tasks`): "reclaim tasks that a previous worker
  died holding" (`RUN:388`). A second worker that starts while the first runs a long task takes it.
* `PipelineTasks!AbandonedIsReclaimed` (PROPERTY of `Tasks`): "reclaimed by any available worker"
  (`.github/docs/architecture.md:2504`). Only a worker that starts reclaims.
* `Orchestrator!ModelCurrent` (PROPERTY of `Orchestrate`): "prompt or model changes automatically
  trigger re-processing" (`architecture.md:3734`). The models change between two runs; the second skips
  every step and marks the document done with outputs of the old models, because `model_id` is always
  empty (`pipeline.py:268-276`; the test's agent gives a list where the agents give a tuple).
* `Orchestrator!DoneMeansComplete` (INVARIANT of `Orchestrate`): "all steps succeeded"
  (`pipeline.py:223`). `RUN:295` reads the artifact before the document is locked. An execution waits with
  a complete artifact while another commits an unfinished one; then it skips every step, flushes nothing
  and marks the document done over the unfinished row. `masked` is this, and nothing else, in `Complete`.
* `Orchestrator!ChangesPropagate` (INVARIANT of `Orchestrate`): "any upstream change propagates a new
  fingerprint" (`pipeline.py:247-249`). Fingerprints are chained over fingerprints, not outputs. A step is
  upgraded and executed, the run fails behind it, the upgrade is rolled back (or the locale changed
  back) and the step executed again: its fingerprint is the first one again, and what was computed
  from its first output is a cache hit. `Steady` in `Consistent` excepts this.
* `Orchestrator!OutputsPresent` (INVARIANT of `Orchestrate`): a step is skippable only if its artifact
  field is there (`architecture.md:1671`). After a run that failed behind the preprocessor, the next one
  skips the preprocessor, whose output was never stored, and the summarizer silently works on the raw
  text.
* `Orchestrator!CheckpointsSurvive` (PROPERTY of `Orchestrate`): "a crash mid-pipeline resumes from the
  last completed step" (`architecture.md:2212`). The flushes are inside one transaction (`RUN:269`).
* `GraphProjection!NothingLeftOver` (INVARIANT of `Project`): "no concurrent write can interleave between
  cleanup and rebuild" (`architecture.md:1135`). Two processes rewrite one lesson; one merges a node after
  the other has deleted the lesson, the node hangs on none, and no later rewriting finds it. A relation
  left over this way is read by every rebuild of the edges, which is the last conjunct of `GraphExact`.

Found while modelling, and modelled as the code has it:

* Queue: "on SIGTERM: stop accepting new tasks and drain in-flight work" (`RUN:11`, `architecture.md:2498`),
  but an execution that takes longer than thirty seconds is cancelled, and its task stays `running` with
  nobody executing it until a worker starts half an hour later (`DrainTimeout`).
* Gateway: the total deadline is looked at only after a request has succeeded, so a call that keeps
  failing runs past it (`architecture.md:1476-1478`); a `Retry-After` is slept without a cap; in the
  half-open state every concurrent call goes through; a retry goes on at a model whose breaker has
  opened meanwhile, which is why `OpenSheds` allows `MaxRetries` requests per other call.
* Graph: ids of facts, chunks and relations are hashes without the knowledge base, although "every
  query filters by kb_id" (`cypher_queries.py:4`); the model has one knowledge base. A late or
  reprocessed inactive revision overwrites the lesson (`architecture.md:1042-1044`). One process's
  orphan deletion can fall between another's concepts and their assertions, which are then missing
  until the lesson is indexed again; hence `mixed`. A process that handles an event from an old
  batch moves the cursor back, and may show an artifact a failed run has changed since; hence
  `astray` and `stale` in `ShowsLatest`. An event given up leaves its lesson half-written (`cut`,
  `astray`). `remove_lesson` and `rebuild_knowledge_base` have no caller.
* Chat: "an audit interaction row is created in PostgreSQL immediately" (`chat.py:233`), but in the
  request's own transaction: a message sent before it commits loses its audit turns (`early` in
  `AuditComplete`). With Redis, overlapping messages overwrite one another (`crossed`).
* Accounts: `rate_per_minute` is documented as "maximum number of requests per minute"
  (`api/middleware.py:93-94`), but a full bucket and a minute's refill together let up to twice as
  many through; `RateBounded` states what holds. The Discord callback stores a new user in a session
  it closes without a commit (`api/routers/auth.py:323`); the tokens it issues name nobody
  (`ghosts`). Logout only drops the cookies; refresh does not look the user up.
* Quiz: reviews of questions leave rows in `study_progress` that are later due as cards without
  content (`DueList`).

## 4. Fairness

* `OutboxRelay.RelayFairSpec`, `DurableConsumer.FairSpec`: weak fairness of each process's loop, which
  polls with a timeout and waits for nothing else. Failures, restarts and writers get none;
  failures are bounded (`MaxAborts`, `MaxInterrupts`).
* `PipelineTasks.FairSpec`: time passes, stopped processes are started again by the container's
  restart policy, `run_forever` returns once nothing is executing, claim transactions end, executions
  end in one way or another, `DrainTimeout` included. Strong fairness of
  `SelectPending`, because a worker that is stopped over and over is only now and then able to
  poll. `SettledIfRescued` further assumes that an abandoned task is picked up by a later start,
  which the code does not guarantee: `AbandonedIsReclaimed` is exactly that assumption.
* `Ingestion.FairSpec`: weak fairness of the steps of each request, which is a coroutine the event
  loop resumes, and of the end of each pipeline run, which releases the row a request may wait for.
  Weak fairness is enough because row locks are handed over in order (`Awaited`).
* `Gateway.FairSpec`: weak fairness of the clock and, per call, of the end of its request or wait
  (`TimeOut`, `Resume`): `asyncio` timers fire. A success is never assumed.
* `OrchestrationGraph`, `Orchestrator`, `GraphProjection`, `StudyProgress`/`Quiz`, `Accounts`/`Chat`:
  safety only.

## 5. Refinement

`Ingestion` implements `LessonHistory` under the mapping: a revision is the content of the committed
row with that number, what is served is the content of the active row, a knowledge base exists
while it has a name. `CommitUpload` is the abstract upload, `CreateKB` and `DeleteKB` their namesakes,
everything else a stutter. The mapping is what turns three constraints, two flags and a row lock into
one sentence: commits of a lesson are totally ordered, and the last one is served. `HistoryRefined`
is checked in the run `Ingest` and proved in `IngestionProofs` for every value of the constants.

## 6. Proofs

All theorems hold for every value of the constants that meets the `ASSUME` of the module, which TLC
evaluates in the runs.

* `OutboxProofs` starts from the table: every operation on it preserves its types.
  * The relays: `RelayTypeOK`, `LocksExclusive`, `PublishedWasSent`, `ResentOnlyAfterAbort` and
    `NoPhantomMessages`, all from `RelayInv`. The bound on the sends is not inductive by itself:
    `SendInv` adds that a row no relay has sent in an open flush has at most as many sends as flushes
    have failed, and `SentInv` that a locked row which is no longer unsent was sent.
  * The consumers: `TypeOK`, `NoPhantomEvents`, `NoSilentLoss`, `InOrder`, `PoisonFailedEnough` and
    `CursorMonotonic`, for any number of overlapping processes. `NoSilentLoss` needs `BatchInv`: up to
    the cursor a process has read everything is accounted for, and up to the last row it fetched
    everything is accounted for or still among its events to handle. `PoisonFailedEnough` needs
    `CountInv`: what the processes have counted of an event never exceeds the failures it really had.
    `LostOnlyIfOvertaken` states what is left of the documented guarantee: a committed row can be left
    behind only if it was in flight when a fetch passed it.
* `PipelineTasksProofs`: `TypeOK`, `ClaimsCounted`, `RunningIsAccounted`, `TerminalIsFinal`,
  `CapacityRespected`. `TypeOK` alone is not inductive, since nothing in it bounds the claims:
  `QueueInv` adds that a locked row is pending and locked once, and that claims agree with the
  reclaim counter. `AccountInv` and `CapInv` build on it. `RunningIsAccounted` names every way a running
  task can lose its execution: a loss, or a `shutdown()` that waited for it; so a claim committed after
  the signal, which `shutdown()` does not know of, is executed to its end by `run_forever`.
* `OrchestratorProofs`, about the graph and the orchestrator that uses its results.
  * The graph: `GraphTypeOK`, `ResultTopological`, `RefusesExactlyCycles`, `DownstreamExact`, for every
    finite graph. `KahnInv`: the queue is the set of unplaced steps whose dependencies are placed,
    in-degrees count the unplaced dependencies, and no member of a set in which all wait for one
    another is placed (so acyclicity needs no induction over positions). `SearchInv`: what is found or
    queued covers the dependants of what is found, and lies in every closed set.
  * `TypeOK`, `UpToDateWhenCompleted`, `Complete` and `Consistent` hold for any DAG, any number of
    overlapping executions and any history of upgrades, rollbacks, other models, and skipped, failed,
    forced and lost runs. What they except is named in the formulas: a `masked` status, and in
    `Consistent` the dependencies that are not `Steady` (they, or a step they depend on, went back to an
    earlier version). The formulas `DoneMeansComplete` and `ChangesPropagate`, refuted in section 3, show
    that both exceptions are needed.
  * `UpToDateWhenCompleted`: `DownstreamLater` and `FingerprintKept` say that executing a step changes
    no checkpoint before it in the order and no fingerprint up to it, so what was passed stays up to
    date (`PassedInv`, which also says that what a run has flushed is its artifact).
  * `Complete`: `ArtifactsKept` adds that a step with a checkpoint has its output wherever the row
    keeps outputs. A completed run has passed every step, and its row is what it flushed or, not
    `masked`, what it loaded: this is where overlapping executions are dealt with.
  * `Consistent`: a `Trace` remembers for each step of an artifact the configuration of its last
    execution and the checkpoints of that moment: a dependency either still has the checkpoint it had
    then, and the step's output is fresh, or was executed later, under a configuration that is nowhere
    behind. Row and artifacts each have a trace, over the steady steps, a set that is closed upstream
    and only shrinks. There a fingerprint given by an earlier and a later configuration is given by
    all in between, so a step that is executed again with another fingerprint never gets back a
    checkpoint that an outdated dependant was computed from.
* `IngestionProofs`: `ActiveIsLatest`, `PendingOvershootBounded` and the refinement
  `HistoryRefined`, for any number of requests, files and knowledge bases. `IngestInv` numbers the
  revisions of a lesson without gaps, the last one active (`Numbered`), and says what an open upload
  may rely on: the revision it has deactivated stays the last, nobody else has deactivated it, and
  the row it has saved clashes with no other. That the sequence of the abstract lesson grows by one
  needs that the number of rows is the last number, hence the library's theorems on cardinality.
  `LimitInv`: a user's pending uploads and the requests past the limit's test are counted together,
  so that the sum grows only where the test passes.
* `ChatProofs`: `RateBounded`, `TokensNameAccounts`, `AuditComplete`, `AnsweredIsKept`, for any number
  of browsers, sessions and requests. `RateInv`: what was let through and what is left together never
  exceed a full bucket and what has flowed in. `AccountInv`: what each token and identity may name.
  `FlightInv` follows a message through its request, and that it is in flight once. `KeptInv`: a
  session, and what a request has read of it, keeps its answered messages but those crossed.

* `GatewayProofs`: `TypeOK`, `BreakerCounts`, `OpenSheds`, `DurationBounded`, for any number of models
  and overlapping completions and any waits. The breaker's counts are inductive. For `OpenSheds`,
  `SheddingInv` weighs the requests an open model was sent against the retries that the completions
  still at it have left: each request uses one up, and nobody joins an open model. For
  `DurationBounded`, `InTime` charges what a completion has used, and what its timer may still use, to
  the candidates it has left behind and to its attempts at the present one.
* `QuizProofs`, about `Quiz` and the `StudyProgress` inside it, for any decks, cards and questions
  and any number of requests: `TypeOK`, `AnsweredOnce`, `GoneOnlyIfAnswered`, `WellSpaced`,
  `ScheduleExplained`; in particular a session is used up for nothing only if one of its own
  submissions was `severed`. `LinkedInv` ties a request to the session it serves; `SessionInv`
  counts the answers of a session together with the submissions still in flight, and accounts for
  each session that is gone. `ScheduleInv` carries the two properties of the rows into the open
  reviews: a schedule that was read or computed is explained by reviews committed on the card, and
  is the present one as long as no other review of the card is open. `ScheduleAfter` is a function
  of a sequence; what it yields for a sequence with one more review is proved by taking the least
  position where it would fail.
* `GraphProjectionProofs`: `TypeOK`, `LessonShown`, `RetrievalFinds`, `GraphExact`, `CutIsRepeated`,
  `ShowsLatest`, for any documents, lessons, answers, processes, batches, tries, runs and faults,
  events given up included. `LessonInv` follows a lesson whose last rewriting meets no other
  process: it is being rewritten, and the graph is at the `Stage` of that statement; or it was
  `cut`; or its last statement is done. `Attached`: every edge and every linked node hangs on a
  lesson that is there, which is what retrieval walks along. `WholeInv` says the same of orphans and
  of edges between concepts, relations left over included. For `CutIsRepeated`, `WriterInv` says
  that who writes is in a poll that has met no other's, or its lesson is astray, and `CutInv` that a
  lesson cut short and not astray has an event that is `Due`: behind the cursor, in every batch
  fetched and begun in none of them. `ShowsLatest` needs that every event that is passed, if it is
  the last of its lesson, shows its document's row (`FreshInv`).

Every invariant and every action property that a passing run checks is proved here.

Left to TLC:

* liveness (`EventuallyPublished`, `EventuallyDelivered`, `SettledIfRescued`, `EveryUploadAnswered`,
  `EveryCallEnds`), which the provers do not reach;
* the formulas of section 3 that TLC refutes.

## 7. Abstractions

* A statement of a READ COMMITTED transaction is one action; a row lock is a guard; a transaction
  is the interval between the actions that open and end it where others can observe it.
* Payloads, timestamps, texts and agent outputs appear only as far as properties tell them apart.
* `documents.status = processing` is never visible to another session (it is set and overwritten
  in one transaction), so `Orchestrator` has no such status.
* Wake-ups (`pg_notify`, LISTEN) decide when a loop runs, not what it does, and are left out.
* Hashes are injective; ids that are hashes or UUIDs are model values.
* Where a request ends in an error that changes nothing, the request simply ends.
* Time is ticks (`Gateway`), days (`StudyProgress`), moments and lapses (`Accounts`, `Chat`);
  sessions of a quiz expire at any time.
* The two queries at the start of a poll of the graph indexer are one step (`DurableConsumer` has them
  apart); its events are those of completed runs, in the order of their commits, so that
  the overtaken event of `ConsumerGap` does not occur there: its lesson would just not be indexed.
* Bounds on unbounded things: `MaxSeq`, `MaxTasks`, `MaxVersion`, `MaxRuns`, `MaxRevisions`,
  `MaxReviews`, `MaxDay`, `MaxMoments` (what is ever created or passes), `MaxAborts`, `MaxInterrupts`,
  `MaxCrashes`, `MaxFaults` (failures). `MaxReclaims`, `MaxRetries`, `BatchSize`, `MaxConcurrent`,
  `MaxPending`, `MaxPages` and the thresholds are limits of the code.

## 8. Not modelled

* Audit logger consumer: a `DurableConsumer` whose handler looks for a turn with the event's id and
  inserts one only if there is none (`durable_consumer.py:394-414`). An event handled again adds
  nothing; only two processes that handle it at the same moment can both insert. Nothing reads the
  rows but lists.
* Event streaming to browsers: reads the outbox or Redis with a position it keeps in memory.
* Search, read models, `list_sessions`: read-only queries. The graph searches are in
  `GraphProjection`; vector search finds nothing in the shipped wiring, where nobody writes
  embeddings.
* Parsing and chunking of texts, prompts, tracing, costs: text processing and reporting without
  state. The chunker's result is stored nowhere.
* Egress policy, password hashing, signatures, CORS, request ids: decisions on one value.
* Redis and in-memory quiz stores: never used by the API as it is wired.
* Interaction turns that the orchestrator records for audit.
* Frontend, bots and stub command lines.

## 9. Order of construction

`Outbox`, `OutboxRelay`, `DurableConsumer`, `PipelineTasks`, `StepGraph`, `OrchestrationGraph`,
`Orchestrator` with their proofs; then `UploadFile`, `LessonHistory`, `Ingestion`, `StudyProgress`,
`Quiz`, `Gateway`, `Agents`, `GraphProjection`, `Accounts`, `Chat`; then `ChatProofs`,
`IngestionProofs`, `GatewayProofs`, `QuizProofs`, `GraphProjectionProofs` and the remaining theorems
on consumer and orchestrator.

What would add most from here: an abstract at-least-once feed that `DurableConsumer` and
`OutboxRelay` implement, and a `GraphProjection` over two knowledge bases, to state what their shared
ids do.
