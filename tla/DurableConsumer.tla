-------------------------- MODULE DurableConsumer ---------------------------
(***************************************************************************)
(* One durable event consumer (one consumer_name, one row of               *)
(* consumer_cursors) reading the outbox table.  Procs is the set of        *)
(* processes that run it: one API process in the shipped deployment, two   *)
(* while one is being replaced by another.                                 *)
(*                                                                         *)
(* A process repeats _process_batch: read the cursor, fetch the rows after *)
(* it, handle them one by one, write the cursor.  The cursor is the only   *)
(* durable state; failure counts live in the process and die with it.      *)
(* handle() takes effect outside the batch's transaction, so a batch that  *)
(* is abandoned leaves the effects of the events it handled.  Sleeping     *)
(* between polls is left out.                                              *)
(***************************************************************************)
EXTENDS Outbox

CONSTANTS Procs,          \* processes that run this consumer
          BatchSize,      \* _BATCH_SIZE
          MaxRetries,     \* _MAX_RETRIES_PER_EVENT
          MaxInterrupts   \* bound on database errors and restarts

ASSUME ConsumerAssumption ==
  /\ BatchSize \in Nat \ {0}
  /\ MaxRetries \in Nat \ {0}
  /\ MaxInterrupts \in Nat

VARIABLES cursor,       \* consumer_cursors.last_sequence
          pc,           \* where each process is in _process_batch
          from,         \* the cursor it read
          todo,         \* fetched events it has not dealt with
          top,          \* the largest sequence_num it fetched
          retryCounts,  \* _retry_counts: consecutive failures per event
          interrupts,   \* database errors and restarts so far
          applied,      \* history: events some handle() completed for
          skipped,      \* history: events given up as poison
          failures,     \* history: failed handle() calls per event
          overtaken     \* history: in-flight rows a fetch went past

procVars == <<pc, from, todo, top, retryCounts>>
historyVars == <<applied, skipped, failures, overtaken>>
vars == <<outboxVars, cursor, procVars, interrupts, historyVars>>

ConsumerInit ==
  /\ cursor = 0
  /\ pc = [p \in Procs |-> "idle"]
  /\ from = [p \in Procs |-> 0]
  /\ todo = [p \in Procs |-> {}]
  /\ top = [p \in Procs |-> 0]
  /\ retryCounts = [p \in Procs |-> [s \in Seqs |-> 0]]
  /\ interrupts = 0
  /\ applied = {}
  /\ skipped = {}
  /\ failures = [s \in Seqs |-> 0]
  /\ overtaken = {}

-----------------------------------------------------------------------------
\* The call of _process_batch ends; its locals go with it.
EndBatch(p) ==
  /\ pc' = [pc EXCEPT ![p] = "idle"]
  /\ from' = [from EXCEPT ![p] = 0]
  /\ todo' = [todo EXCEPT ![p] = {}]
  /\ top' = [top EXCEPT ![p] = 0]

\* _get_cursor; 0 when the consumer has no row yet.
ReadCursor(p) ==
  /\ pc[p] = "idle"
  /\ from' = [from EXCEPT ![p] = cursor]
  /\ pc' = [pc EXCEPT ![p] = "fetch"]
  /\ UNCHANGED <<outboxVars, cursor, todo, top, retryCounts, interrupts,
                 historyVars>>

\* Mutant of After: no WHERE sequence_num > cursor.
AnyRow(p) == Table

After(p) == {s \in Table : s > from[p]}

\* _fetch_batch finds no row.
FetchNothing(p) ==
  /\ pc[p] = "fetch"
  /\ After(p) = {}
  /\ EndBatch(p)
  /\ UNCHANGED <<outboxVars, cursor, retryCounts, interrupts, historyVars>>

\* _fetch_batch: the next rows after the cursor, of those committed by now.
FetchBatch(p) ==
  /\ pc[p] = "fetch"
  /\ \E m \in After(p) :
       /\ IsLastOfBatch(After(p), m, BatchSize)
       /\ todo' = [todo EXCEPT ![p] = UpTo(After(p), m)]
       /\ top' = [top EXCEPT ![p] = m]
       /\ overtaken' = overtaken \cup UpTo(InFlight, m)
  /\ pc' = [pc EXCEPT ![p] = "handle"]
  /\ UNCHANGED <<outboxVars, cursor, from, retryCounts, interrupts, applied,
                 skipped, failures>>

\* handle() returns for the next event of the batch.
HandleEvent(p) ==
  /\ pc[p] = "handle"
  /\ \E s \in todo[p] :
       /\ IsLeast(s, todo[p])
       /\ todo' = [todo EXCEPT ![p] = @ \ {s}]
       /\ retryCounts' = [retryCounts EXCEPT ![p][s] = 0]
       /\ applied' = applied \cup {s}
  /\ UNCHANGED <<outboxVars, cursor, pc, from, top, interrupts, skipped,
                 failures, overtaken>>

\* Mutant of RetryLater: carry on with the batch after a failure.
CarryOn(p) ==
  /\ pc[p] = "handle"
  /\ \E s \in todo[p] :
       /\ IsLeast(s, todo[p])
       /\ retryCounts[p][s] + 1 < MaxRetries
       /\ todo' = [todo EXCEPT ![p] = @ \ {s}]
       /\ retryCounts' = [retryCounts EXCEPT ![p][s] = @ + 1]
       /\ failures' = [failures EXCEPT ![s] = Smaller(@ + 1, MaxRetries)]
  /\ UNCHANGED <<outboxVars, cursor, pc, from, top, interrupts, applied, skipped,
                 overtaken>>

\* Mutant of RetryLater: the failure is not counted.
RetryUncounted(p) ==
  /\ pc[p] = "handle"
  /\ \E s \in todo[p] :
       /\ IsLeast(s, todo[p])
       /\ retryCounts[p][s] + 1 < MaxRetries
       /\ failures' = [failures EXCEPT ![s] = Smaller(@ + 1, MaxRetries)]
  /\ EndBatch(p)
  /\ UNCHANGED <<outboxVars, cursor, retryCounts, interrupts, applied, skipped,
                 overtaken>>

\* handle() raises, and the event has retries left: the batch is given up, the
\* cursor stays where it is.
RetryLater(p) ==
  /\ pc[p] = "handle"
  /\ \E s \in todo[p] :
       /\ IsLeast(s, todo[p])
       /\ retryCounts[p][s] + 1 < MaxRetries
       /\ retryCounts' = [retryCounts EXCEPT ![p][s] = @ + 1]
       /\ failures' = [failures EXCEPT ![s] = Smaller(@ + 1, MaxRetries)]
  /\ EndBatch(p)
  /\ UNCHANGED <<outboxVars, cursor, interrupts, applied, skipped, overtaken>>

\* Mutant of SkipPoison: one failure too few.
SkipTooSoon(p) ==
  /\ pc[p] = "handle"
  /\ \E s \in todo[p] :
       /\ IsLeast(s, todo[p])
       /\ retryCounts[p][s] + 2 >= MaxRetries
       /\ todo' = [todo EXCEPT ![p] = @ \ {s}]
       /\ retryCounts' = [retryCounts EXCEPT ![p][s] = 0]
       /\ failures' = [failures EXCEPT ![s] = Smaller(@ + 1, MaxRetries)]
       /\ skipped' = skipped \cup {s}
  /\ UNCHANGED <<outboxVars, cursor, pc, from, top, interrupts, applied,
                 overtaken>>

\* handle() raises for the last time: the event is poison and is passed over.
SkipPoison(p) ==
  /\ pc[p] = "handle"
  /\ \E s \in todo[p] :
       /\ IsLeast(s, todo[p])
       /\ retryCounts[p][s] + 1 >= MaxRetries
       /\ todo' = [todo EXCEPT ![p] = @ \ {s}]
       /\ retryCounts' = [retryCounts EXCEPT ![p][s] = 0]
       /\ failures' = [failures EXCEPT ![s] = Smaller(@ + 1, MaxRetries)]
       /\ skipped' = skipped \cup {s}
  /\ UNCHANGED <<outboxVars, cursor, pc, from, top, interrupts, applied,
                 overtaken>>

\* _set_cursor and COMMIT.  The upsert writes the value unconditionally.
AdvanceCursor(p) ==
  /\ pc[p] = "handle"
  /\ todo[p] = {}
  /\ cursor' = top[p]
  /\ EndBatch(p)
  /\ UNCHANGED <<outboxVars, retryCounts, interrupts, historyVars>>

\* A statement or the commit fails: _loop logs it and polls again.
DatabaseError(p) ==
  /\ pc[p] \in {"fetch", "handle"}
  /\ interrupts < MaxInterrupts
  /\ interrupts' = interrupts + 1
  /\ EndBatch(p)
  /\ UNCHANGED <<outboxVars, cursor, retryCounts, historyVars>>

\* The process stops (crash, stop() and its cancellation) and is started again.
Restart(p) ==
  /\ interrupts < MaxInterrupts
  /\ interrupts' = interrupts + 1
  /\ EndBatch(p)
  /\ retryCounts' = [retryCounts EXCEPT ![p] = [s \in Seqs |-> 0]]
  /\ UNCHANGED <<outboxVars, cursor, historyVars>>

-----------------------------------------------------------------------------
\* What _process_batch does by itself, step by step.
Poll(p) ==
  \/ ReadCursor(p) \/ FetchNothing(p) \/ FetchBatch(p)
  \/ HandleEvent(p) \/ RetryLater(p) \/ SkipPoison(p)
  \/ AdvanceCursor(p)

ConsumerStep == \E p \in Procs : Poll(p) \/ DatabaseError(p) \/ Restart(p)

\* A relay publishes a row and the retention job later deletes it.  The consumer
\* does not read "published", so for its purposes the two are one step.
RetireRow ==
  \E s \in Table :
    /\ published' = published \cup {s}
    /\ purged' = purged \cup {s}
    /\ UNCHANGED <<lastSeq, open, committed>>

\* The rest of the system as the consumer sees it.
TableStep ==
  /\ WriterStep \/ RetireRow
  /\ UNCHANGED <<cursor, procVars, interrupts, historyVars>>

Init == OutboxInit /\ ConsumerInit

Next == ConsumerStep \/ TableStep

Spec == Init /\ [][Next]_vars

\* _loop polls for as long as its process runs.
FairSpec == Spec /\ \A p \in Procs : WF_vars(Poll(p))

-----------------------------------------------------------------------------
\* Types of the consumer's own state.
TypeOK ==
  /\ OutboxTypeOK
  /\ cursor \in 0 .. lastSeq
  /\ pc \in [Procs -> {"idle", "fetch", "handle"}]
  /\ from \in [Procs -> 0 .. lastSeq]
  /\ todo \in [Procs -> SUBSET committed]
  /\ top \in [Procs -> 0 .. lastSeq]
  /\ retryCounts \in [Procs -> [Seqs -> 0 .. MaxRetries - 1]]
  /\ interrupts \in 0 .. MaxInterrupts
  /\ applied \subseteq committed /\ skipped \subseteq committed
  /\ failures \in [Seqs -> 0 .. MaxRetries]
  /\ overtaken \in SUBSET (1 .. lastSeq)

\* Nothing will ever come of s, or it has been dealt with, or one of the two
\* ways of losing it has happened: a fetch went past it while its transaction
\* was open, or it was purged.
Accounted(s) ==
  \/ s \in applied \cup skipped \cup overtaken \cup purged
  \/ s \notin committed \cup InFlight

\* The consumer loses no event silently: whatever the failures, restarts and
\* overlapping processes, an event at or below the stored cursor has been
\* handled or given up as poison, except for a row whose transaction was still
\* open when a later row was fetched and a row the retention job deleted.
NoSilentLoss == \A s \in 1 .. cursor : Accounted(s)

\* At-least-once delivery as the module documents it: no committed row is ever
\* behind the cursor without having been handled or given up.
NoLostEvents ==
  \A s \in 1 .. cursor : s \in Table => s \in applied \cup skipped

\* handle() sees only events of committed transactions.
NoPhantomEvents == applied \cup skipped \subseteq committed

\* An event is given up only after MaxRetries failures of its own, restarts
\* that forget the counts included.
PoisonFailedEnough == \A s \in skipped : failures[s] = MaxRetries

\* Events take effect in sequence order: when one is handled for the first
\* time, every smaller event is accounted for.
InOrder ==
  [][\A s \in applied' \ applied : \A t \in 1 .. (s - 1) : Accounted(t)]_vars

\* The stored cursor moves back only if another process moved it forward while
\* a batch was being handled; a process alone never moves it back.
CursorMonotonic ==
  [][cursor' < cursor => \E p \in Procs : pc[p] = "handle" /\ from[p] # cursor]_vars

\* Every committed event is eventually handled or given up, unless it was
\* overtaken or purged.
EventuallyDelivered ==
  \A s \in Seqs : s \in committed ~> Accounted(s)

=============================================================================
