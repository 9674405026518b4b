---------------------------- MODULE OutboxRelay -----------------------------
(***************************************************************************)
(* The relays that forward outbox rows to Redis Pub/Sub.  Each API process *)
(* and each pipeline worker runs one; they share the table and keep out of *)
(* each other's way with FOR UPDATE SKIP LOCKED.  A flush is one           *)
(* transaction: lock a batch of unpublished rows, publish them one by one, *)
(* set published = TRUE, commit.  The wake-ups (notify, pg_notify, poll    *)
(* timeout) only decide when a flush starts and are left out.              *)
(***************************************************************************)
EXTENDS Outbox

CONSTANTS Relays,      \* running relays
          LogOnly,     \* the relays without a Redis client (degraded mode)
          FlushSize,   \* _BATCH_SIZE
          MaxAborts    \* bound on flushes that fail

ASSUME RelayAssumption ==
  /\ LogOnly \subseteq Relays
  /\ FlushSize \in Nat \ {0}
  /\ MaxAborts \in Nat

VARIABLES locked,   \* rows locked by each relay's open transaction
          unsent,   \* locked rows it has not published yet
          sends,    \* history: messages sent to Redis, per row
          aborts    \* history: flushes that failed

relayVars == <<outboxVars, locked, unsent, sends, aborts>>

LockedRows == UNION {locked[r] : r \in Relays}

RelayInit ==
  /\ OutboxInit
  /\ locked = [r \in Relays |-> {}]
  /\ unsent = [r \in Relays |-> {}]
  /\ sends = [s \in Seqs |-> 0]
  /\ aborts = 0

-----------------------------------------------------------------------------
\* Mutant of Claimable: no SKIP LOCKED.
AnyUnpublished == Table \ published

\* _claim_batch: unpublished rows that no other relay has locked.
Claimable == (Table \ published) \ LockedRows

\* Mutant of ClaimBatch: wait for a full batch.
ClaimFullBatch(r) ==
  /\ locked[r] = {} /\ Cardinality(Claimable) >= FlushSize
  /\ \E m \in Claimable :
       /\ IsLastOfBatch(Claimable, m, FlushSize)
       /\ locked' = [locked EXCEPT ![r] = UpTo(Claimable, m)]
       /\ unsent' = [unsent EXCEPT ![r] = UpTo(Claimable, m)]
  /\ UNCHANGED <<outboxVars, sends, aborts>>

ClaimBatch(r) ==
  /\ locked[r] = {}
  /\ \E m \in Claimable :
       /\ IsLastOfBatch(Claimable, m, FlushSize)
       /\ locked' = [locked EXCEPT ![r] = UpTo(Claimable, m)]
       /\ unsent' = [unsent EXCEPT ![r] = UpTo(Claimable, m)]
  /\ UNCHANGED <<outboxVars, sends, aborts>>

\* _publish_to_redis for the next row; a relay without Redis only logs it.
PublishToRedis(r) ==
  /\ \E s \in unsent[r] :
       /\ IsLeast(s, unsent[r])
       /\ unsent' = [unsent EXCEPT ![r] = @ \ {s}]
       /\ sends' = IF r \in LogOnly THEN sends ELSE [sends EXCEPT ![s] = @ + 1]
  /\ UNCHANGED <<outboxVars, locked, aborts>>

\* Mutant of FinishFlush: mark the rows before they are sent.
FinishUnsent(r) ==
  /\ locked[r] # {}
  /\ MarkPublished(locked[r])
  /\ locked' = [locked EXCEPT ![r] = {}]
  /\ unsent' = [unsent EXCEPT ![r] = {}]
  /\ UNCHANGED <<sends, aborts>>

\* The UPDATE and COMMIT that end the flush.
FinishFlush(r) ==
  /\ locked[r] # {}
  /\ unsent[r] = {}
  /\ MarkPublished(locked[r])
  /\ locked' = [locked EXCEPT ![r] = {}]
  /\ UNCHANGED <<unsent, sends, aborts>>

\* Redis or PostgreSQL fails, or the process dies: the transaction rolls back
\* and its locks go, messages already sent are not taken back.
AbortFlush(r) ==
  /\ locked[r] # {}
  /\ aborts < MaxAborts
  /\ aborts' = aborts + 1
  /\ locked' = [locked EXCEPT ![r] = {}]
  /\ unsent' = [unsent EXCEPT ![r] = {}]
  /\ UNCHANGED <<outboxVars, sends>>

-----------------------------------------------------------------------------
Flush(r) == ClaimBatch(r) \/ PublishToRedis(r) \/ FinishFlush(r)

RelayStep == \E r \in Relays : Flush(r) \/ AbortFlush(r)

RelayTableStep ==
  (WriterStep \/ PurgeStep) /\ UNCHANGED <<locked, unsent, sends, aborts>>

RelayNext == RelayStep \/ RelayTableStep

RelaySpec == RelayInit /\ [][RelayNext]_relayVars

\* _loop keeps flushing; it never waits for anything but its own timeout.
RelayFairSpec == RelaySpec /\ \A r \in Relays : WF_relayVars(Flush(r))

-----------------------------------------------------------------------------
RelayTypeOK ==
  /\ OutboxTypeOK
  /\ locked \in [Relays -> SUBSET committed]
  /\ unsent \in [Relays -> SUBSET committed]
  /\ \A r \in Relays : unsent[r] \subseteq locked[r]
  /\ sends \in [Seqs -> Nat]
  /\ aborts \in 0 .. MaxAborts

\* A row is locked by at most one relay, and never once it is published.
LocksExclusive ==
  /\ \A q, r \in Relays : q # r => locked[q] \cap locked[r] = {}
  /\ \A r \in Relays : locked[r] \cap published = {}

\* At-least-once: no row is marked published, and so none is purged, before it
\* was sent to Redis (or logged by a relay without Redis).
PublishedWasSent ==
  LogOnly = {} => \A s \in published \cup purged : sends[s] > 0

\* A row is sent again only because a flush failed: concurrent relays never
\* publish the same row twice by themselves.
ResentOnlyAfterAbort == \A s \in Seqs : sends[s] <= 1 + aborts

\* Redis never sees an event of a transaction that did not commit.
NoPhantomMessages == \A s \in Seqs : sends[s] > 0 => s \in committed

\* Every committed row is eventually marked published.
EventuallyPublished == \A s \in Seqs : s \in committed ~> s \in published

=============================================================================
