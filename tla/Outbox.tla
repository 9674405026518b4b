------------------------------- MODULE Outbox -------------------------------
(***************************************************************************)
(* The outbox_events table of the canonical PostgreSQL store: the rows the *)
(* application's transactions insert, and what may happen to a row         *)
(* afterwards.  OutboxRelay and DurableConsumer are the two readers of the *)
(* table; both are built over this module.                                 *)
(*                                                                         *)
(* An event is identified with its sequence_num.  PostgreSQL draws that    *)
(* number when the row is INSERTed, not when the transaction commits, and  *)
(* never gives it back: transactions commit in any order, and a rollback   *)
(* leaves a hole.  Payloads and event types play no part here.             *)
(***************************************************************************)
EXTENDS Naturals, FiniteSets

CONSTANTS Writers,   \* the sessions that publish: API requests, pipeline runs
          MaxSeq     \* bound on the sequence numbers drawn

ASSUME OutboxAssumption == MaxSeq \in Nat

VARIABLES lastSeq,    \* the last value of the identity column
          open,       \* per writer, rows inserted by its open transaction
          committed,  \* rows whose transaction has committed
          published,  \* committed rows with published = TRUE
          purged      \* committed rows deleted by the retention job

outboxVars == <<lastSeq, open, committed, published, purged>>

Seqs == 1 .. MaxSeq

\* The rows a READ COMMITTED statement of another session sees.
Table == committed \ purged

\* The rows of transactions that have neither committed nor rolled back.
InFlight == UNION {open[w] : w \in Writers}

-----------------------------------------------------------------------------
(* A batch is the "ORDER BY sequence_num LIMIT size" prefix of the rows.    *)

Smaller(a, b) == IF a <= b THEN a ELSE b

UpTo(rows, m) == {s \in rows : s <= m}

IsLastOfBatch(rows, m, size) ==
  /\ m \in rows
  /\ Cardinality(UpTo(rows, m)) = Smaller(size, Cardinality(rows))

\* Mutant of IsLeast: no ORDER BY.
AnyOf(s, rows) == s \in rows

IsLeast(s, rows) == s \in rows /\ \A t \in rows : s <= t

-----------------------------------------------------------------------------
OutboxInit ==
  /\ lastSeq = 0
  /\ open = [w \in Writers |-> {}]
  /\ committed = {}
  /\ published = {}
  /\ purged = {}

\* OutboxEventPublisher.publish_in_tx: INSERT in the caller's transaction.
PublishInTx(w) ==
  /\ lastSeq < MaxSeq
  /\ lastSeq' = lastSeq + 1
  /\ open' = [open EXCEPT ![w] = @ \cup {lastSeq + 1}]
  /\ UNCHANGED <<committed, published, purged>>

\* The caller commits: every row of the transaction appears at once.
Commit(w) ==
  /\ open[w] # {}
  /\ committed' = committed \cup open[w]
  /\ open' = [open EXCEPT ![w] = {}]
  /\ UNCHANGED <<lastSeq, published, purged>>

\* The caller's transaction fails, or its process dies.
Rollback(w) ==
  /\ open[w] # {}
  /\ open' = [open EXCEPT ![w] = {}]
  /\ UNCHANGED <<lastSeq, committed, published, purged>>

\* UPDATE outbox_events SET published = TRUE for the rows of a batch.
MarkPublished(rows) ==
  /\ published' = published \cup rows
  /\ UNCHANGED <<lastSeq, open, committed, purged>>

\* purge_published_events.  Which published rows are older than the retention
\* period is left open: any of them may be.  No consumer's cursor is consulted.
PurgePublished(rows) ==
  /\ rows # {} /\ rows \subseteq published \ purged
  /\ purged' = purged \cup rows
  /\ UNCHANGED <<lastSeq, open, committed, published>>

WriterStep ==
  \E w \in Writers : PublishInTx(w) \/ Commit(w) \/ Rollback(w)

PurgeStep == \E rows \in SUBSET Seqs : PurgePublished(rows)

-----------------------------------------------------------------------------
\* Types, and the life of a row: a number is drawn once, by one transaction,
\* which either holds it, has committed it or has lost it; only a committed row
\* is published and only a published row is purged.
OutboxTypeOK ==
  /\ lastSeq \in 0 .. MaxSeq
  /\ open \in [Writers -> SUBSET (1 .. lastSeq)]
  /\ committed \in SUBSET (1 .. lastSeq)
  /\ purged \subseteq published /\ published \subseteq committed
  /\ \A w \in Writers : open[w] \cap committed = {}
  /\ \A v, w \in Writers : v # w => open[v] \cap open[w] = {}

=============================================================================
