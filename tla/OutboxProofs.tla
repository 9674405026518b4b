---------------------------- MODULE OutboxProofs ----------------------------
(***************************************************************************)
(* Proofs about the outbox table and its two readers, the relays and the   *)
(* durable consumers, for any number of writers, readers and events.       *)
(*                                                                         *)
(* RelayInv strengthens the relays' invariants to an inductive one: a      *)
(* locked row that has been passed on is counted by sends, and a row that  *)
(* nobody has passed on since it was last unlocked has been sent at most   *)
(* once per failed flush.                                                  *)
(*                                                                         *)
(* The argument for NoSilentLoss: below the stored cursor, and below the   *)
(* cursor a process has read, every number is accounted for; of the        *)
(* numbers up to the end of a fetched batch, those the process has not yet *)
(* accounted for are exactly in its todo set.  "Accounted for" is stable   *)
(* because a number at or below lastSeq is never drawn again and an        *)
(* in-flight row that is accounted for must be an overtaken one.           *)
(***************************************************************************)
EXTENDS OutboxRelay, DurableConsumer, TLAPS

(* The outbox table: its type invariant is kept by the writers and by the   *)
(* two updates of a row.                                                    *)

LEMMA OutboxInitTypeOK == OutboxInit => OutboxTypeOK
  BY OutboxAssumption DEF OutboxInit, OutboxTypeOK

LEMMA PublishInTxTypeOK ==
  ASSUME OutboxTypeOK, NEW w \in Writers, PublishInTx(w)
  PROVE  OutboxTypeOK'
<1>1. lastSeq' \in 0 .. MaxSeq /\ 1 .. lastSeq \subseteq 1 .. lastSeq'
  BY OutboxAssumption DEF OutboxTypeOK, PublishInTx
<1>2. lastSeq + 1 \in 1 .. lastSeq' /\ lastSeq + 1 \notin 1 .. lastSeq
  BY OutboxAssumption DEF OutboxTypeOK, PublishInTx
<1>3. open' \in [Writers -> SUBSET (1 .. lastSeq')]
  BY <1>1, <1>2 DEF OutboxTypeOK, PublishInTx
<1>4. ASSUME NEW v \in Writers
      PROVE  open'[v] \cap committed' = {}
  BY <1>2 DEF OutboxTypeOK, PublishInTx
<1>5. ASSUME NEW u \in Writers, NEW v \in Writers, u # v
      PROVE  open'[u] \cap open'[v] = {}
  BY <1>2, <1>5 DEF OutboxTypeOK, PublishInTx
<1>. QED
  BY <1>1, <1>3, <1>4, <1>5 DEF OutboxTypeOK, PublishInTx

LEMMA CommitTypeOK ==
  ASSUME OutboxTypeOK, NEW w \in Writers, Commit(w)
  PROVE  OutboxTypeOK'
  BY DEF OutboxTypeOK, Commit

LEMMA RollbackTypeOK ==
  ASSUME OutboxTypeOK, NEW w \in Writers, Rollback(w)
  PROVE  OutboxTypeOK'
  BY DEF OutboxTypeOK, Rollback

LEMMA WriterTypeOK ==
  ASSUME OutboxTypeOK, WriterStep
  PROVE  OutboxTypeOK'
  BY PublishInTxTypeOK, CommitTypeOK, RollbackTypeOK DEF WriterStep

LEMMA MarkTypeOK ==
  ASSUME OutboxTypeOK, NEW rows \in SUBSET committed, MarkPublished(rows)
  PROVE  OutboxTypeOK'
  BY DEF OutboxTypeOK, MarkPublished

LEMMA PurgeTypeOK ==
  ASSUME OutboxTypeOK, NEW rows, PurgePublished(rows)
  PROVE  OutboxTypeOK'
  BY DEF OutboxTypeOK, PurgePublished

\* Frame: most steps of a reader leave the table alone.
LEMMA OutboxTypeUnchanged ==
  ASSUME OutboxTypeOK, UNCHANGED outboxVars
  PROVE  OutboxTypeOK'
  BY DEF OutboxTypeOK, outboxVars

-----------------------------------------------------------------------------
(* The relays. *)

LEMMA RelayInitTypeOK == RelayInit => RelayTypeOK
<1>. SUFFICES ASSUME RelayInit PROVE RelayTypeOK
  OBVIOUS
<1>1. OutboxTypeOK
  BY OutboxInitTypeOK DEF RelayInit
<1>2. 0 \in 0 .. MaxAborts
  BY RelayAssumption
<1>. QED
  BY <1>1, <1>2 DEF RelayInit, OutboxInit, RelayTypeOK

LEMMA FlushTypeOK ==
  ASSUME RelayTypeOK, NEW r \in Relays, Flush(r) \/ AbortFlush(r)
  PROVE  RelayTypeOK'
<1>1. CASE ClaimBatch(r)
  <2>1. PICK m \in Claimable :
          /\ locked' = [locked EXCEPT ![r] = UpTo(Claimable, m)]
          /\ unsent' = [unsent EXCEPT ![r] = UpTo(Claimable, m)]
    BY <1>1 DEF ClaimBatch
  <2>2. UpTo(Claimable, m) \in SUBSET committed
    BY DEF UpTo, Claimable, Table
  <2>3. OutboxTypeOK' /\ committed' = committed
    BY <1>1 DEF ClaimBatch, RelayTypeOK, OutboxTypeOK, outboxVars
  <2>. QED
    BY <1>1, <2>1, <2>2, <2>3 DEF ClaimBatch, RelayTypeOK
<1>2. CASE PublishToRedis(r)
  <2>1. PICK s \in unsent[r] :
          /\ unsent' = [unsent EXCEPT ![r] = @ \ {s}]
          /\ sends' = IF r \in LogOnly THEN sends
                      ELSE [sends EXCEPT ![s] = @ + 1]
    BY <1>2 DEF PublishToRedis
  <2>2. OutboxTypeOK' /\ committed' = committed
    <3>1. UNCHANGED outboxVars
      BY <1>2 DEF PublishToRedis
    <3>2. committed' = committed
      BY <3>1 DEF outboxVars
    <3>. QED
      BY <3>1, <3>2, OutboxTypeUnchanged DEF RelayTypeOK
  <2>3. sends' \in [Seqs -> Nat]
    <3>1. s \in Seqs
      BY OutboxAssumption DEF RelayTypeOK, OutboxTypeOK, Seqs
    <3>2. sends[s] + 1 \in Nat
      BY <3>1 DEF RelayTypeOK
    <3>. QED
      BY <2>1, <3>2 DEF RelayTypeOK
  <2>4. unsent' \in [Relays -> SUBSET committed]
    <3>1. unsent[r] \ {s} \in SUBSET committed
      BY DEF RelayTypeOK
    <3>. QED
      BY <2>1, <3>1 DEF RelayTypeOK
  <2>5. \A q \in Relays : unsent'[q] \subseteq unsent[q]
    BY <2>1 DEF RelayTypeOK
  <2>6. UNCHANGED <<locked, aborts>>
    BY <1>2 DEF PublishToRedis
  <2>. QED
    BY <2>2, <2>3, <2>4, <2>5, <2>6 DEF RelayTypeOK
<1>3. CASE FinishFlush(r)
  <2>1. locked[r] \in SUBSET committed /\ MarkPublished(locked[r])
    BY <1>3 DEF FinishFlush, RelayTypeOK
  <2>2. OutboxTypeOK' /\ committed' = committed
    BY <2>1, MarkTypeOK DEF RelayTypeOK, MarkPublished
  <2>. QED
    BY <1>3, <2>2 DEF FinishFlush, RelayTypeOK
<1>4. CASE AbortFlush(r)
  <2>1. OutboxTypeOK' /\ committed' = committed
    BY <1>4 DEF AbortFlush, RelayTypeOK, OutboxTypeOK, outboxVars
  <2>2. aborts' \in 0 .. MaxAborts
    BY <1>4, RelayAssumption DEF AbortFlush, RelayTypeOK
  <2>. QED
    BY <1>4, <2>1, <2>2 DEF AbortFlush, RelayTypeOK
<1>. QED
  BY <1>1, <1>2, <1>3, <1>4 DEF Flush

LEMMA RelayTableTypeOK ==
  ASSUME RelayTypeOK, RelayTableStep
  PROVE  RelayTypeOK'
<1>1. OutboxTypeOK'
  BY WriterTypeOK, PurgeTypeOK DEF RelayTypeOK, RelayTableStep, PurgeStep
<1>2. committed \subseteq committed'
  BY DEF RelayTableStep, WriterStep, PublishInTx, Commit, Rollback, PurgeStep,
         PurgePublished
<1>3. UNCHANGED <<locked, unsent, sends, aborts>>
  BY DEF RelayTableStep, relayVars
<1>4. locked' \in [Relays -> SUBSET committed']
      /\ unsent' \in [Relays -> SUBSET committed']
  BY <1>2, <1>3 DEF RelayTypeOK
<1>. QED
  BY <1>1, <1>3, <1>4 DEF RelayTypeOK

LEMMA RelayNextTypeOK == RelayTypeOK /\ [RelayNext]_relayVars => RelayTypeOK'
<1>1. RelayTypeOK /\ RelayNext => RelayTypeOK'
  BY FlushTypeOK, RelayTableTypeOK DEF RelayNext, RelayStep
<1>2. RelayTypeOK /\ UNCHANGED relayVars => RelayTypeOK'
  BY DEF RelayTypeOK, OutboxTypeOK, relayVars, outboxVars
<1>. QED
  BY <1>1, <1>2

\* Type correctness of the relays and of the table they flush.
THEOREM RelayTypeCorrect == RelaySpec => []RelayTypeOK
  BY RelayInitTypeOK, RelayNextTypeOK, PTL DEF RelaySpec

-----------------------------------------------------------------------------
\* s was passed on by nobody since the last unlocking: it is unpublished, and
\* whoever has locked it has yet to send it.
Waiting(s) ==
  s \notin published /\ \A r \in Relays : s \in locked[r] => s \in unsent[r]

SendInv ==
  /\ \A s \in Seqs : sends[s] <= 1 + aborts
  /\ \A s \in Seqs : Waiting(s) => sends[s] <= aborts

SentInv ==
  LogOnly = {} =>
    /\ \A s \in published : sends[s] > 0
    /\ \A r \in Relays : \A s \in locked[r] \ unsent[r] : sends[s] > 0

RelayInv == LocksExclusive /\ SendInv /\ SentInv /\ NoPhantomMessages

LEMMA RelayInvInit == RelayInit => RelayInv
  BY RelayAssumption
     DEF RelayInit, OutboxInit, RelayInv, LocksExclusive, SendInv,
         SentInv, NoPhantomMessages

LEMMA ClaimRelayInv ==
  ASSUME RelayTypeOK, RelayInv, NEW r \in Relays, ClaimBatch(r)
  PROVE  RelayInv'
<1>1. PICK m \in Claimable :
        /\ locked' = [locked EXCEPT ![r] = UpTo(Claimable, m)]
        /\ unsent' = [unsent EXCEPT ![r] = UpTo(Claimable, m)]
  BY DEF ClaimBatch
<1>2. UNCHANGED <<committed, published, sends, aborts>>
  BY DEF ClaimBatch, outboxVars
<1>3. \A s \in UpTo(Claimable, m) :
        s \notin published /\ \A q \in Relays : s \notin locked[q]
  BY DEF UpTo, Claimable, LockedRows
<1>4. locked[r] = {}
  BY DEF ClaimBatch
<1>5. LocksExclusive'
  BY <1>1, <1>2, <1>3 DEF RelayInv, LocksExclusive, RelayTypeOK
<1>6. \A s \in Seqs : Waiting(s)' => Waiting(s)
  BY <1>1, <1>2, <1>4 DEF Waiting, RelayTypeOK
<1>7. SendInv'
  BY <1>2, <1>6 DEF RelayInv, SendInv
<1>8. SentInv'
  BY <1>1, <1>2 DEF RelayInv, SentInv, RelayTypeOK
<1>9. NoPhantomMessages'
  BY <1>2 DEF RelayInv, NoPhantomMessages
<1>. QED
  BY <1>5, <1>7, <1>8, <1>9 DEF RelayInv

LEMMA PublishRelayInv ==
  ASSUME RelayTypeOK, RelayInv, NEW r \in Relays, PublishToRedis(r)
  PROVE  RelayInv'
<1>1. PICK s \in unsent[r] :
        /\ unsent' = [unsent EXCEPT ![r] = @ \ {s}]
        /\ sends' = IF r \in LogOnly THEN sends ELSE [sends EXCEPT ![s] = @ + 1]
        /\ UNCHANGED <<locked, aborts>>
  BY DEF PublishToRedis
<1>2. UNCHANGED <<committed, published>>
  BY DEF PublishToRedis, outboxVars
<1>3. s \in locked[r] /\ s \in committed /\ s \in Seqs
  BY OutboxAssumption DEF RelayTypeOK, OutboxTypeOK, Seqs
<1>4. Waiting(s)
  BY <1>3 DEF Waiting, RelayInv, LocksExclusive
<1>5. LocksExclusive'
  BY <1>1, <1>2 DEF RelayInv, LocksExclusive
<1>6. SendInv'
  <2>1. aborts \in Nat /\ \A t \in Seqs : sends[t] \in Nat
    BY RelayAssumption DEF RelayTypeOK
  <2>2. \A t \in Seqs : t # s => sends'[t] = sends[t]
    BY <1>1 DEF RelayTypeOK
  <2>3. sends'[s] = sends[s] \/ sends'[s] = sends[s] + 1
    BY <1>1, <1>3 DEF RelayTypeOK
  <2>4. ~ Waiting(s)'
    BY <1>1, <1>3 DEF Waiting, RelayTypeOK
  <2>5. \A t \in Seqs : t # s /\ Waiting(t)' => Waiting(t)
    BY <1>1, <1>2 DEF Waiting, RelayTypeOK
  <2>6. sends[s] <= aborts
    BY <1>3, <1>4 DEF RelayInv, SendInv
  <2>7. ASSUME NEW t \in Seqs
        PROVE  sends'[t] <= 1 + aborts
    BY <1>3, <2>1, <2>2, <2>3, <2>6 DEF RelayInv, SendInv
  <2>8. ASSUME NEW t \in Seqs, Waiting(t)'
        PROVE  sends'[t] <= aborts
    BY <2>2, <2>4, <2>5, <2>8 DEF RelayInv, SendInv
  <2>. QED
    BY <1>1, <2>7, <2>8 DEF SendInv
<1>7. SentInv'
  <2>1. SUFFICES ASSUME LogOnly = {} PROVE SentInv'
    BY DEF SentInv
  <2>2. \A t \in Seqs : sends'[t] >= sends[t] /\ sends[t] \in Nat
    BY <1>1 DEF RelayTypeOK
  <2>3. sends'[s] > 0
    BY <1>1, <1>3, <2>1 DEF RelayTypeOK
  <2>4. published \subseteq Seqs /\ \A q \in Relays : locked[q] \subseteq Seqs
    <3>1. committed \subseteq Seqs
      BY OutboxAssumption DEF RelayTypeOK, OutboxTypeOK, Seqs
    <3>2. published \subseteq committed
          /\ \A q \in Relays : locked[q] \subseteq committed
      BY DEF RelayTypeOK, OutboxTypeOK
    <3>. QED
      BY <3>1, <3>2
  <2>5. ASSUME NEW t \in published
        PROVE  sends'[t] > 0
    <3>1. sends[t] > 0 /\ t \in Seqs /\ sends'[t] \in Nat
      BY <1>1, <2>1, <2>4, <2>5 DEF RelayInv, SentInv, RelayTypeOK
    <3>. QED
      BY <2>2, <3>1
  <2>6. ASSUME NEW q \in Relays, NEW t \in locked[q] \ unsent'[q]
        PROVE  sends'[t] > 0
    <3>1. t \in Seqs /\ sends'[t] \in Nat
      BY <1>1, <2>4 DEF RelayTypeOK
    <3>2. CASE t = s
      BY <2>3, <3>2
    <3>3. CASE t # s
      <4>1. t \in locked[q] \ unsent[q]
        BY <1>1, <3>3 DEF RelayTypeOK
      <4>2. sends[t] > 0
        BY <2>1, <4>1 DEF RelayInv, SentInv
      <4>. QED
        BY <2>2, <3>1, <4>2
    <3>. QED
      BY <3>2, <3>3
  <2>. QED
    BY <1>1, <1>2, <2>5, <2>6 DEF SentInv
<1>8. NoPhantomMessages'
  BY <1>1, <1>2, <1>3 DEF RelayInv, NoPhantomMessages, RelayTypeOK
<1>. QED
  BY <1>5, <1>6, <1>7, <1>8 DEF RelayInv

LEMMA FinishRelayInv ==
  ASSUME RelayTypeOK, RelayInv, NEW r \in Relays, FinishFlush(r)
  PROVE  RelayInv'
<1>1. /\ published' = published \cup locked[r]
      /\ locked' = [locked EXCEPT ![r] = {}]
      /\ unsent[r] = {}
      /\ UNCHANGED <<committed, unsent, sends, aborts>>
  BY DEF FinishFlush, MarkPublished
<1>2. LocksExclusive'
  BY <1>1 DEF RelayInv, LocksExclusive, RelayTypeOK
<1>3. \A s \in Seqs : Waiting(s)' => Waiting(s)
  BY <1>1 DEF Waiting, RelayTypeOK
<1>4. SendInv'
  BY <1>1, <1>3 DEF RelayInv, SendInv
<1>5. SentInv'
  BY <1>1 DEF RelayInv, SentInv, RelayTypeOK
<1>6. NoPhantomMessages'
  BY <1>1 DEF RelayInv, NoPhantomMessages
<1>. QED
  BY <1>2, <1>4, <1>5, <1>6 DEF RelayInv

LEMMA AbortRelayInv ==
  ASSUME RelayTypeOK, RelayInv, NEW r \in Relays, AbortFlush(r)
  PROVE  RelayInv'
<1>1. /\ locked' = [locked EXCEPT ![r] = {}]
      /\ unsent' = [unsent EXCEPT ![r] = {}]
      /\ aborts' = aborts + 1
      /\ UNCHANGED <<committed, published, sends>>
  BY DEF AbortFlush, outboxVars
<1>2. LocksExclusive'
  BY <1>1 DEF RelayInv, LocksExclusive, RelayTypeOK
<1>3. SendInv'
  <2>1. aborts \in Nat /\ \A t \in Seqs : sends[t] \in Nat
    BY RelayAssumption DEF RelayTypeOK
  <2>2. \A t \in Seqs : sends[t] <= 1 + aborts
    BY DEF RelayInv, SendInv
  <2>. QED
    BY <1>1, <2>1, <2>2 DEF SendInv
<1>4. SentInv'
  BY <1>1 DEF RelayInv, SentInv, RelayTypeOK
<1>5. NoPhantomMessages'
  BY <1>1 DEF RelayInv, NoPhantomMessages
<1>. QED
  BY <1>2, <1>3, <1>4, <1>5 DEF RelayInv

LEMMA TableRelayInv ==
  ASSUME RelayTypeOK, RelayInv, RelayTableStep
  PROVE  RelayInv'
<1>1. UNCHANGED <<published, locked, unsent, sends, aborts>>
  BY DEF RelayTableStep, relayVars, WriterStep, PublishInTx, Commit, Rollback,
         PurgeStep, PurgePublished
<1>2. committed \subseteq committed'
  BY DEF RelayTableStep, WriterStep, PublishInTx, Commit, Rollback, PurgeStep,
         PurgePublished
<1>3. NoPhantomMessages'
  BY <1>1, <1>2 DEF RelayInv, NoPhantomMessages
<1>. QED
  BY <1>1, <1>3 DEF RelayInv, LocksExclusive, SendInv, SentInv, Waiting

LEMMA RelayInvNext == RelayTypeOK /\ RelayInv /\ [RelayNext]_relayVars => RelayInv'
<1>1. RelayTypeOK /\ RelayInv /\ RelayNext => RelayInv'
  BY ClaimRelayInv, PublishRelayInv, FinishRelayInv, AbortRelayInv,
     TableRelayInv DEF RelayNext, RelayStep, Flush
<1>2. RelayTypeOK /\ RelayInv /\ UNCHANGED relayVars => RelayInv'
  BY DEF RelayInv, LocksExclusive, SendInv, SentInv, NoPhantomMessages,
         Waiting, relayVars, outboxVars
<1>. QED
  BY <1>1, <1>2

LEMMA RelayInvariant == RelaySpec => [](RelayTypeOK /\ RelayInv)
<1>1. RelayTypeOK /\ RelayInv /\ [RelayNext]_relayVars => RelayInv'
  BY RelayInvNext
<1>. QED
  BY <1>1, RelayInvInit, RelayTypeCorrect, PTL DEF RelaySpec

\* SKIP LOCKED at work: no two relays hold the same row, and no relay holds a
\* published one.
THEOREM RelayLocksExclusive == RelaySpec => []LocksExclusive
<1>1. RelayInv => LocksExclusive
  BY DEF RelayInv
<1>. QED
  BY <1>1, RelayInvariant, PTL

\* At-least-once publication: nothing is marked published or purged unsent.
THEOREM RelayPublishedWasSent == RelaySpec => []PublishedWasSent
<1>1. RelayTypeOK /\ RelayInv => PublishedWasSent
  BY DEF RelayTypeOK, OutboxTypeOK, RelayInv, SentInv, PublishedWasSent
<1>. QED
  BY <1>1, RelayInvariant, PTL

\* Exactly once but for failures: a row is sent at most once more than the
\* number of flushes that failed.
THEOREM RelayResentOnlyAfterAbort == RelaySpec => []ResentOnlyAfterAbort
<1>1. RelayInv => ResentOnlyAfterAbort
  BY DEF RelayInv, SendInv, ResentOnlyAfterAbort
<1>. QED
  BY <1>1, RelayInvariant, PTL

\* Redis only ever receives events of transactions that committed.
THEOREM RelayNoPhantoms == RelaySpec => []NoPhantomMessages
<1>1. RelayInv => NoPhantomMessages
  BY DEF RelayInv
<1>. QED
  BY <1>1, RelayInvariant, PTL

-----------------------------------------------------------------------------
(* The durable consumers. *)

LEMMA ConsumerInitTypeOK == Init => TypeOK
<1>. SUFFICES ASSUME Init PROVE TypeOK
  OBVIOUS
<1>1. OutboxTypeOK
  BY OutboxInitTypeOK DEF Init
<1>2. 0 \in 0 .. MaxRetries - 1 /\ 0 \in 0 .. MaxInterrupts
      /\ 0 \in 0 .. MaxRetries /\ lastSeq = 0
  BY ConsumerAssumption DEF Init, OutboxInit
<1>. QED
  BY <1>1, <1>2 DEF Init, ConsumerInit, OutboxInit, TypeOK

\* The same for the whole of TypeOK: what a consumer step has to show.
LEMMA ConsumerFrame ==
  ASSUME TypeOK, UNCHANGED outboxVars,
         cursor' \in 0 .. lastSeq,
         pc' \in [Procs -> {"idle", "fetch", "handle"}],
         from' \in [Procs -> 0 .. lastSeq],
         todo' \in [Procs -> SUBSET committed],
         top' \in [Procs -> 0 .. lastSeq],
         retryCounts' \in [Procs -> [Seqs -> 0 .. MaxRetries - 1]],
         interrupts' \in 0 .. MaxInterrupts,
         applied' \subseteq committed, skipped' \subseteq committed,
         failures' \in [Seqs -> 0 .. MaxRetries],
         overtaken' \in SUBSET (1 .. lastSeq)
  PROVE  TypeOK'
<1>1. OutboxTypeOK'
  BY OutboxTypeUnchanged DEF TypeOK
<1>2. lastSeq' = lastSeq /\ committed' = committed
  BY DEF outboxVars
<1>. QED
  BY <1>1, <1>2 DEF TypeOK

LEMMA EndBatchTypeOK ==
  ASSUME TypeOK, NEW p \in Procs, EndBatch(p)
  PROVE  /\ pc' \in [Procs -> {"idle", "fetch", "handle"}]
         /\ from' \in [Procs -> 0 .. lastSeq]
         /\ todo' \in [Procs -> SUBSET committed]
         /\ top' \in [Procs -> 0 .. lastSeq]
<1>1. 0 \in 0 .. lastSeq
  BY OutboxAssumption DEF TypeOK, OutboxTypeOK
<1>. QED
  BY <1>1 DEF TypeOK, EndBatch

LEMMA PollTypeOK ==
  ASSUME TypeOK, NEW p \in Procs, Poll(p)
  PROVE  TypeOK'
<1>. USE DEF historyVars
<1>1. CASE ReadCursor(p)
  BY <1>1, ConsumerFrame DEF TypeOK, ReadCursor
<1>2. CASE FetchNothing(p)
  BY <1>2, EndBatchTypeOK, ConsumerFrame DEF TypeOK, FetchNothing
<1>3. CASE FetchBatch(p)
  <2>1. PICK m \in After(p) :
          /\ todo' = [todo EXCEPT ![p] = UpTo(After(p), m)]
          /\ top' = [top EXCEPT ![p] = m]
          /\ overtaken' = overtaken \cup UpTo(InFlight, m)
    BY <1>3 DEF FetchBatch
  <2>2. After(p) \subseteq committed /\ InFlight \subseteq 1 .. lastSeq
    BY DEF TypeOK, After, Table, InFlight, OutboxTypeOK
  <2>3. committed \subseteq 0 .. lastSeq
    BY OutboxAssumption DEF TypeOK, OutboxTypeOK
  <2>4. UpTo(After(p), m) \in SUBSET committed
        /\ UpTo(InFlight, m) \in SUBSET (1 .. lastSeq)
        /\ m \in 0 .. lastSeq
    BY <2>2, <2>3 DEF UpTo
  <2>5. todo' \in [Procs -> SUBSET committed]
    BY <2>1, <2>4 DEF TypeOK
  <2>6. top' \in [Procs -> 0 .. lastSeq]
    BY <2>1, <2>4 DEF TypeOK
  <2>7. overtaken' \in SUBSET (1 .. lastSeq)
    BY <2>1, <2>4 DEF TypeOK
  <2>8. pc' \in [Procs -> {"idle", "fetch", "handle"}]
    BY <1>3 DEF TypeOK, FetchBatch
  <2>. QED
    BY <1>3, <2>5, <2>6, <2>7, <2>8, ConsumerFrame DEF TypeOK, FetchBatch
<1>4. CASE HandleEvent(p)
  <2>1. PICK s \in todo[p] :
          /\ todo' = [todo EXCEPT ![p] = @ \ {s}]
          /\ retryCounts' = [retryCounts EXCEPT ![p][s] = 0]
          /\ applied' = applied \cup {s}
    BY <1>4 DEF HandleEvent
  <2>2. 0 \in 0 .. MaxRetries - 1
    BY ConsumerAssumption
  <2>3. retryCounts' \in [Procs -> [Seqs -> 0 .. MaxRetries - 1]]
    BY <2>1, <2>2 DEF TypeOK
  <2>4. todo' \in [Procs -> SUBSET committed] /\ applied' \subseteq committed
    BY <2>1 DEF TypeOK
  <2>. QED
    BY <1>4, <2>3, <2>4, ConsumerFrame DEF TypeOK, HandleEvent
<1>5. CASE RetryLater(p)
  <2>1. PICK s \in todo[p] :
          /\ retryCounts[p][s] + 1 < MaxRetries
          /\ retryCounts' = [retryCounts EXCEPT ![p][s] = @ + 1]
          /\ failures' = [failures EXCEPT ![s] = Smaller(@ + 1, MaxRetries)]
    BY <1>5 DEF RetryLater
  <2>2. s \in Seqs
    BY OutboxAssumption DEF TypeOK, OutboxTypeOK, Seqs
  <2>3. retryCounts[p][s] + 1 \in 0 .. MaxRetries - 1
    BY <2>1, <2>2, ConsumerAssumption DEF TypeOK
  <2>4. retryCounts' \in [Procs -> [Seqs -> 0 .. MaxRetries - 1]]
    BY <2>1, <2>3 DEF TypeOK
  <2>5. Smaller(failures[s] + 1, MaxRetries) \in 0 .. MaxRetries
    BY <2>2, ConsumerAssumption DEF Smaller, TypeOK
  <2>6. failures' \in [Seqs -> 0 .. MaxRetries]
    BY <2>1, <2>5 DEF TypeOK
  <2>. QED
    BY <1>5, <2>4, <2>6, EndBatchTypeOK, ConsumerFrame DEF TypeOK, RetryLater
<1>6. CASE SkipPoison(p)
  <2>1. PICK s \in todo[p] :
          /\ todo' = [todo EXCEPT ![p] = @ \ {s}]
          /\ retryCounts' = [retryCounts EXCEPT ![p][s] = 0]
          /\ failures' = [failures EXCEPT ![s] = Smaller(@ + 1, MaxRetries)]
          /\ skipped' = skipped \cup {s}
    BY <1>6 DEF SkipPoison
  <2>2. s \in Seqs
    BY OutboxAssumption DEF TypeOK, OutboxTypeOK, Seqs
  <2>3. 0 \in 0 .. MaxRetries - 1
    BY ConsumerAssumption
  <2>4. retryCounts' \in [Procs -> [Seqs -> 0 .. MaxRetries - 1]]
    BY <2>1, <2>3 DEF TypeOK
  <2>5. Smaller(failures[s] + 1, MaxRetries) \in 0 .. MaxRetries
    BY <2>2, ConsumerAssumption DEF Smaller, TypeOK
  <2>6. failures' \in [Seqs -> 0 .. MaxRetries]
    BY <2>1, <2>5 DEF TypeOK
  <2>7. todo' \in [Procs -> SUBSET committed] /\ skipped' \subseteq committed
    BY <2>1 DEF TypeOK
  <2>. QED
    BY <1>6, <2>4, <2>6, <2>7, ConsumerFrame DEF TypeOK, SkipPoison
<1>7. CASE AdvanceCursor(p)
  BY <1>7, EndBatchTypeOK, ConsumerFrame DEF TypeOK, AdvanceCursor
<1>. QED
  BY <1>1, <1>2, <1>3, <1>4, <1>5, <1>6, <1>7 DEF Poll

LEMMA InterruptTypeOK ==
  ASSUME TypeOK, NEW p \in Procs, DatabaseError(p) \/ Restart(p)
  PROVE  TypeOK'
<1>. USE DEF historyVars
<1>1. interrupts' \in 0 .. MaxInterrupts
  BY ConsumerAssumption DEF TypeOK, DatabaseError, Restart
<1>2. CASE DatabaseError(p)
  BY <1>1, <1>2, EndBatchTypeOK, ConsumerFrame DEF TypeOK, DatabaseError
<1>3. CASE Restart(p)
  <2>1. [s \in Seqs |-> 0] \in [Seqs -> 0 .. MaxRetries - 1]
    BY ConsumerAssumption
  <2>2. retryCounts' \in [Procs -> [Seqs -> 0 .. MaxRetries - 1]]
    BY <1>3, <2>1 DEF TypeOK, Restart
  <2>. QED
    BY <1>1, <1>3, <2>2, EndBatchTypeOK, ConsumerFrame DEF TypeOK, Restart
<1>. QED
  BY <1>2, <1>3

LEMMA RetireTypeOK ==
  ASSUME OutboxTypeOK, RetireRow
  PROVE  OutboxTypeOK'
  BY DEF OutboxTypeOK, RetireRow, Table

\* The table only grows under the consumer: numbers are drawn, rows commit.
LEMMA TableGrows ==
  ASSUME OutboxTypeOK, WriterStep \/ RetireRow
  PROVE  /\ 0 .. lastSeq \subseteq 0 .. lastSeq'
         /\ 1 .. lastSeq \subseteq 1 .. lastSeq'
         /\ committed \subseteq committed'
         /\ purged \subseteq purged'
<1>1. lastSeq' = lastSeq \/ lastSeq' = lastSeq + 1
  BY DEF WriterStep, PublishInTx, Commit, Rollback, RetireRow
<1>2. committed \subseteq committed' /\ purged \subseteq purged'
  BY DEF WriterStep, PublishInTx, Commit, Rollback, RetireRow
<1>. QED
  BY <1>1, <1>2, OutboxAssumption DEF OutboxTypeOK

LEMMA TableTypeOK ==
  ASSUME TypeOK, TableStep
  PROVE  TypeOK'
<1>1. OutboxTypeOK'
  BY WriterTypeOK, RetireTypeOK DEF TypeOK, TableStep
<1>2. /\ 0 .. lastSeq \subseteq 0 .. lastSeq'
      /\ 1 .. lastSeq \subseteq 1 .. lastSeq'
      /\ committed \subseteq committed'
  BY TableGrows DEF TypeOK, TableStep
<1>3. UNCHANGED <<cursor, pc, from, todo, top, retryCounts, interrupts,
                  applied, skipped, failures, overtaken>>
  BY DEF TableStep, procVars, historyVars
<1>4. cursor' \in 0 .. lastSeq' /\ overtaken' \in SUBSET (1 .. lastSeq')
  BY <1>2, <1>3 DEF TypeOK
<1>5. from' \in [Procs -> 0 .. lastSeq'] /\ top' \in [Procs -> 0 .. lastSeq']
  BY <1>2, <1>3 DEF TypeOK
<1>6. todo' \in [Procs -> SUBSET committed']
  BY <1>2, <1>3 DEF TypeOK
<1>7. applied' \subseteq committed' /\ skipped' \subseteq committed'
  BY <1>2, <1>3 DEF TypeOK
<1>. QED
  BY <1>1, <1>3, <1>4, <1>5, <1>6, <1>7 DEF TypeOK

LEMMA StutterTypeOK == TypeOK /\ UNCHANGED vars => TypeOK'
<1>. SUFFICES ASSUME TypeOK, UNCHANGED vars PROVE TypeOK'
  OBVIOUS
<1>. QED
  BY ConsumerFrame DEF TypeOK, vars, procVars, historyVars

LEMMA NextTypeOK == TypeOK /\ [Next]_vars => TypeOK'
  BY PollTypeOK, InterruptTypeOK, TableTypeOK, StutterTypeOK
     DEF Next, ConsumerStep

\* Type correctness of the consumer and of the table it reads.
THEOREM ConsumerTypeCorrect == Spec => []TypeOK
  BY ConsumerInitTypeOK, NextTypeOK, PTL DEF Spec

\* No event of a transaction that did not commit is ever handled or skipped.
THEOREM ConsumerNoPhantoms == Spec => []NoPhantomEvents
<1>1. TypeOK => NoPhantomEvents
  BY DEF TypeOK, NoPhantomEvents
<1>. QED
  BY <1>1, ConsumerTypeCorrect, PTL

-----------------------------------------------------------------------------
(* No silent loss.                                                          *)

Covered(n) == \A s \in 1 .. n : Accounted(s)

\* What a process in the middle of a batch still owes.
BatchInv(p) ==
  /\ pc[p] = "fetch" => Covered(from[p])
  /\ pc[p] = "handle" =>
       /\ todo[p] \subseteq 1 .. top[p]
       /\ \A s \in 1 .. top[p] : Accounted(s) \/ s \in todo[p]

LossInv == Covered(cursor) /\ \A p \in Procs : BatchInv(p)

\* Once accounted for, a drawn number stays so.
LEMMA AccountedStable ==
  ASSUME TypeOK, [Next]_vars, NEW s \in 1 .. lastSeq, Accounted(s)
  PROVE  Accounted(s)'
<1>1. CASE UNCHANGED vars
  BY <1>1 DEF vars, outboxVars, historyVars, Accounted, InFlight
<1>2. CASE ConsumerStep
  <2>1. /\ UNCHANGED outboxVars
        /\ applied \subseteq applied'
        /\ skipped \subseteq skipped'
        /\ overtaken \subseteq overtaken'
    BY <1>2 DEF ConsumerStep, Poll, ReadCursor, FetchNothing, FetchBatch,
                HandleEvent, RetryLater, SkipPoison, AdvanceCursor,
                DatabaseError, Restart, historyVars
  <2>. QED
    BY <2>1 DEF outboxVars, Accounted, InFlight
<1>3. CASE TableStep
  <2>1. UNCHANGED <<applied, skipped, overtaken>>
    BY <1>3 DEF TableStep, historyVars
  <2>2. purged \subseteq purged'
    BY <1>3, TableGrows DEF TypeOK, TableStep
  <2>3. CASE s \in applied \cup skipped \cup overtaken \cup purged
    BY <2>1, <2>2, <2>3 DEF Accounted
  <2>4. CASE s \notin committed \cup InFlight
    <3>1. s \notin committed' \cup InFlight'
      <4>1. CASE RetireRow
        BY <2>4, <4>1 DEF RetireRow, InFlight
      <4>2. CASE \E w \in Writers : PublishInTx(w)
        <5>1. s # lastSeq + 1
          BY OutboxAssumption DEF TypeOK, OutboxTypeOK
        <5>. QED
          BY <2>4, <4>2, <5>1 DEF PublishInTx, InFlight, TypeOK, OutboxTypeOK
      <4>3. CASE \E w \in Writers : Commit(w) \/ Rollback(w)
        BY <2>4, <4>3 DEF Commit, Rollback, InFlight, TypeOK, OutboxTypeOK
      <4>. QED
        BY <1>3, <4>1, <4>2, <4>3 DEF TableStep, WriterStep
    <3>. QED
      BY <3>1 DEF Accounted
  <2>. QED
    BY <2>3, <2>4 DEF Accounted
<1>. QED
  BY <1>1, <1>2, <1>3 DEF Next

LEMMA CoveredStable ==
  ASSUME TypeOK, [Next]_vars, NEW n \in 0 .. lastSeq, Covered(n)
  PROVE  \A s \in 1 .. n : Accounted(s)'
<1>1. \A s \in 1 .. n : s \in 1 .. lastSeq
  BY OutboxAssumption DEF TypeOK, OutboxTypeOK
<1>. QED
  BY <1>1, AccountedStable DEF Covered

\* A process that did not move owes no more than before.
LEMMA BatchInvStable ==
  ASSUME TypeOK, [Next]_vars, NEW p \in Procs, BatchInv(p),
         pc'[p] = pc[p], from'[p] = from[p], todo'[p] = todo[p],
         top'[p] = top[p]
  PROVE  BatchInv(p)'
<1>1. from[p] \in 0 .. lastSeq /\ top[p] \in 0 .. lastSeq
  BY DEF TypeOK
<1>2. ASSUME pc'[p] = "fetch"
      PROVE  Covered(from[p])'
  BY <1>1, <1>2, CoveredStable DEF BatchInv, Covered
<1>3. ASSUME pc'[p] = "handle", NEW s \in 1 .. top[p]
      PROVE  Accounted(s)' \/ s \in todo[p]
  <2>1. s \in 1 .. lastSeq
    BY <1>1, OutboxAssumption DEF TypeOK, OutboxTypeOK
  <2>. QED
    BY <1>3, <2>1, AccountedStable DEF BatchInv
<1>. QED
  BY <1>2, <1>3 DEF BatchInv, Covered

\* The fetch: a number up to the end of the batch was at or below the cursor,
\* or is in the batch, or is in flight and so overtaken, or will never appear.
LEMMA FetchAccounts ==
  ASSUME TypeOK, LossInv, NEW p \in Procs, FetchBatch(p)
  PROVE  BatchInv(p)'
<1>1. PICK m \in After(p) :
        /\ todo' = [todo EXCEPT ![p] = UpTo(After(p), m)]
        /\ top' = [top EXCEPT ![p] = m]
        /\ overtaken' = overtaken \cup UpTo(InFlight, m)
  BY DEF FetchBatch
<1>2. /\ pc'[p] = "handle" /\ todo'[p] = UpTo(After(p), m) /\ top'[p] = m
      /\ UNCHANGED <<outboxVars, applied, skipped>>
  BY <1>1 DEF FetchBatch, TypeOK
<1>3. m \in 1 .. lastSeq /\ from[p] \in 0 .. lastSeq /\ lastSeq \in Nat
  BY OutboxAssumption DEF After, Table, TypeOK, OutboxTypeOK
<1>4. UpTo(After(p), m) \subseteq 1 .. m
  <2>1. committed \subseteq 1 .. lastSeq
    BY DEF TypeOK, OutboxTypeOK
  <2>2. UpTo(After(p), m) \subseteq committed
    BY DEF UpTo, After, Table
  <2>3. \A s \in UpTo(After(p), m) : s <= m
    BY DEF UpTo
  <2>4. \A s \in 1 .. lastSeq : s <= m => s \in 1 .. m
    BY <1>3
  <2>. QED
    BY <2>1, <2>2, <2>3, <2>4
<1>5. ASSUME NEW s \in 1 .. m
      PROVE  Accounted(s)' \/ s \in UpTo(After(p), m)
  <2>1. CASE s <= from[p]
    <3>1. Covered(from[p]) /\ s \in 1 .. from[p]
      BY <1>3, <2>1 DEF LossInv, BatchInv, FetchBatch
    <3>. QED
      BY <1>1, <1>2, <3>1 DEF Covered, Accounted, outboxVars, InFlight
  <2>2. CASE s > from[p]
    <3>1. CASE s \in Table
      BY <2>2, <3>1 DEF UpTo, After
    <3>2. CASE s \in InFlight
      BY <1>1, <3>2 DEF UpTo, Accounted
    <3>3. CASE s \notin Table /\ s \notin InFlight
      BY <1>2, <3>3 DEF Table, Accounted, outboxVars, InFlight
    <3>. QED
      BY <3>1, <3>2, <3>3
  <2>. QED
    BY <1>3, <2>1, <2>2
<1>. QED
  BY <1>2, <1>4, <1>5 DEF BatchInv

\* The event a process deals with is accounted for, and it is the only one to
\* leave the process's todo set.
LEMMA HandleAccounts ==
  ASSUME TypeOK, LossInv, NEW p \in Procs, HandleEvent(p) \/ SkipPoison(p)
  PROVE  BatchInv(p)'
<1>1. PICK s \in todo[p] : /\ todo' = [todo EXCEPT ![p] = @ \ {s}]
                           /\ s \in applied' \cup skipped'
  BY DEF HandleEvent, SkipPoison
<1>2. pc'[p] = "handle" /\ todo'[p] = todo[p] \ {s} /\ top'[p] = top[p]
  BY <1>1 DEF HandleEvent, SkipPoison, TypeOK
<1>3. Next
  BY DEF Next, ConsumerStep, Poll
<1>4. top[p] \in 0 .. lastSeq /\ lastSeq \in Nat
  BY OutboxAssumption DEF TypeOK, OutboxTypeOK
<1>5. todo[p] \subseteq 1 .. top[p]
      /\ \A t \in 1 .. top[p] : Accounted(t) \/ t \in todo[p]
  BY DEF LossInv, BatchInv, HandleEvent, SkipPoison
<1>6. ASSUME NEW t \in 1 .. top[p]
      PROVE  Accounted(t)' \/ t \in todo[p] \ {s}
  <2>1. CASE t = s
    BY <1>1, <2>1 DEF Accounted
  <2>2. CASE t # s /\ t \notin todo[p]
    <3>1. t \in 1 .. lastSeq
      BY <1>4
    <3>. QED
      BY <1>3, <1>5, <2>2, <3>1, AccountedStable
  <2>. QED
    BY <2>1, <2>2
<1>. QED
  BY <1>2, <1>5, <1>6 DEF BatchInv

LEMMA IdleBatchInv ==
  ASSUME NEW p \in Procs, TypeOK, EndBatch(p)
  PROVE  BatchInv(p)'
  BY DEF EndBatch, BatchInv, TypeOK

LEMMA ConsumerBatchInv ==
  ASSUME TypeOK, LossInv, NEW p \in Procs,
         Poll(p) \/ DatabaseError(p) \/ Restart(p)
  PROVE  BatchInv(p)'
<1>1. CASE ReadCursor(p)
  <2>1. cursor \in 0 .. lastSeq /\ Next
    BY <1>1 DEF TypeOK, Next, ConsumerStep, Poll
  <2>2. \A s \in 1 .. cursor : Accounted(s)'
    BY <2>1, CoveredStable DEF LossInv
  <2>3. pc'[p] = "fetch" /\ from'[p] = cursor
    BY <1>1 DEF ReadCursor, TypeOK
  <2>. QED
    BY <2>2, <2>3 DEF BatchInv, Covered
<1>2. CASE FetchBatch(p)
  BY <1>2, FetchAccounts
<1>3. CASE HandleEvent(p) \/ SkipPoison(p)
  BY <1>3, HandleAccounts
<1>4. CASE EndBatch(p)
  BY <1>4, IdleBatchInv
<1>. QED
  BY <1>1, <1>2, <1>3, <1>4
     DEF Poll, FetchNothing, RetryLater, AdvanceCursor, DatabaseError, Restart

\* A step of one process leaves the locals of the others alone.
LEMMA OthersUnmoved ==
  ASSUME TypeOK, NEW p \in Procs, NEW q \in Procs, p # q,
         Poll(p) \/ DatabaseError(p) \/ Restart(p)
  PROVE  /\ pc'[q] = pc[q] /\ from'[q] = from[q]
         /\ todo'[q] = todo[q] /\ top'[q] = top[q]
<1>. USE DEF TypeOK
<1>1. CASE ReadCursor(p) \/ FetchBatch(p) \/ HandleEvent(p) \/ SkipPoison(p)
  BY <1>1 DEF ReadCursor, FetchBatch, HandleEvent, SkipPoison
<1>2. CASE EndBatch(p)
  BY <1>2 DEF EndBatch
<1>. QED
  BY <1>1, <1>2
     DEF Poll, FetchNothing, RetryLater, AdvanceCursor, DatabaseError, Restart

LEMMA LossInvInit == Init => LossInv
  BY DEF Init, ConsumerInit, LossInv, Covered, BatchInv

LEMMA LossInvNext == TypeOK /\ LossInv /\ [Next]_vars => LossInv'
<1>. SUFFICES ASSUME TypeOK, LossInv, [Next]_vars PROVE LossInv'
  OBVIOUS
<1>1. ASSUME UNCHANGED <<cursor, procVars>>
      PROVE  LossInv'
  <2>1. ASSUME NEW p \in Procs PROVE BatchInv(p)'
    BY <1>1, BatchInvStable DEF LossInv, procVars
  <2>2. \A s \in 1 .. cursor : Accounted(s)'
    BY CoveredStable DEF LossInv, TypeOK
  <2>. QED
    BY <1>1, <2>1, <2>2 DEF LossInv, Covered
<1>2. ASSUME NEW p \in Procs, Poll(p) \/ DatabaseError(p) \/ Restart(p)
      PROVE  LossInv'
  <2>1. ASSUME NEW q \in Procs PROVE BatchInv(q)'
    <3>1. CASE q = p
      BY <1>2, <3>1, ConsumerBatchInv
    <3>2. CASE q # p
      BY <1>2, <3>2, OthersUnmoved, BatchInvStable DEF LossInv
    <3>. QED
      BY <3>1, <3>2
  <2>2. CASE cursor' = cursor
    <3>1. \A s \in 1 .. cursor : Accounted(s)'
      BY CoveredStable DEF LossInv, TypeOK
    <3>. QED
      BY <2>1, <2>2, <3>1 DEF LossInv, Covered
  <2>3. CASE AdvanceCursor(p)
    <3>1. \A s \in 1 .. top[p] : Accounted(s)
      BY <2>3 DEF AdvanceCursor, LossInv, BatchInv
    <3>2. Covered(top[p]) /\ top[p] \in 0 .. lastSeq
      BY <3>1 DEF Covered, TypeOK
    <3>3. \A s \in 1 .. top[p] : Accounted(s)'
      BY <3>2, CoveredStable
    <3>. QED
      BY <2>1, <2>3, <3>3 DEF LossInv, Covered, AdvanceCursor
  <2>. QED
    BY <1>2, <2>2, <2>3 DEF Poll, ReadCursor, FetchNothing, FetchBatch,
       HandleEvent, RetryLater, SkipPoison, DatabaseError, Restart
<1>. QED
  BY <1>1, <1>2 DEF Next, ConsumerStep, TableStep, vars

\* At-least-once delivery, up to the two ways of losing an event: holds for any
\* number of overlapping processes, failures, restarts and writers.
THEOREM ConsumerNoSilentLoss == Spec => []NoSilentLoss
<1>1. LossInv => NoSilentLoss
  BY DEF LossInv, Covered, NoSilentLoss
<1>2. TypeOK /\ LossInv /\ [Next]_vars => LossInv'
  BY LossInvNext
<1>. QED
  BY <1>1, <1>2, LossInvInit, ConsumerTypeCorrect, PTL DEF Spec

\* A committed row that is still in the table and that no fetch overtook is
\* never left behind the cursor: what remains of the documented guarantee.
THEOREM LostOnlyIfOvertaken ==
  Spec => [](\A s \in 1 .. cursor :
               s \in Table \ overtaken => s \in applied \cup skipped)
<1>1. NoSilentLoss =>
        \A s \in 1 .. cursor :
          s \in Table \ overtaken => s \in applied \cup skipped
  BY DEF NoSilentLoss, Accounted, Table
<1>. QED
  BY <1>1, ConsumerNoSilentLoss, PTL

\* The first time an event takes effect, every earlier one is accounted for.
LEMMA StepInOrder ==
  ASSUME TypeOK, LossInv, Next, NEW s \in applied' \ applied,
         NEW t \in 1 .. (s - 1)
  PROVE  Accounted(t)
<1>1. PICK p \in Procs : HandleEvent(p)
  BY DEF Next, ConsumerStep, Poll, ReadCursor, FetchNothing, FetchBatch,
     RetryLater, SkipPoison, AdvanceCursor, DatabaseError, Restart, TableStep,
     historyVars
<1>2. s \in todo[p] /\ \A u \in todo[p] : s <= u
  BY <1>1 DEF HandleEvent, IsLeast
<1>3. /\ todo[p] \subseteq 1 .. top[p]
      /\ \A u \in 1 .. top[p] : Accounted(u) \/ u \in todo[p]
  BY <1>1 DEF HandleEvent, LossInv, BatchInv
<1>4. top[p] \in Nat
  BY OutboxAssumption DEF TypeOK, OutboxTypeOK
<1>5. t \in 1 .. top[p] /\ ~ (s <= t)
  BY <1>2, <1>3, <1>4
<1>. QED
  BY <1>2, <1>3, <1>5

\* Events take effect in the order of their sequence numbers.
THEOREM ConsumerInOrder == Spec => InOrder
<1>1. TypeOK /\ LossInv /\ [Next]_vars =>
        [\A s \in applied' \ applied : \A t \in 1 .. (s - 1) : Accounted(t)]_vars
  BY StepInOrder
<1>2. TypeOK /\ LossInv /\ [Next]_vars => LossInv'
  BY LossInvNext
<1>. QED
  BY <1>1, <1>2, LossInvInit, ConsumerTypeCorrect, PTL DEF Spec, InOrder

-----------------------------------------------------------------------------
(* Poison events, and the direction of the cursor.                          *)

\* A process has counted no more failures of an event than there were, and a batch
\* ends beyond the cursor it was fetched from.
CountInv ==
  /\ \A p \in Procs, s \in Seqs : retryCounts[p][s] <= failures[s]
  /\ \A p \in Procs : pc[p] = "handle" => from[p] < top[p]

PoisonInv == CountInv /\ PoisonFailedEnough

LEMMA PoisonInit == Init => PoisonInv
  BY DEF Init, ConsumerInit, PoisonInv, CountInv, PoisonFailedEnough

\* The process moves on, or gives its batch up.
LEMMA BatchEnds ==
  ASSUME TypeOK, PoisonInv, NEW p \in Procs,
         FetchNothing(p) \/ AdvanceCursor(p) \/ DatabaseError(p) \/ Restart(p)
  PROVE  PoisonInv'
<1>1. EndBatch(p) /\ UNCHANGED <<failures, skipped>>
  BY DEF FetchNothing, AdvanceCursor, DatabaseError, Restart, historyVars
<1>2. \/ retryCounts' = retryCounts
      \/ retryCounts' = [retryCounts EXCEPT ![p] = [s \in Seqs |-> 0]]
  BY DEF FetchNothing, AdvanceCursor, DatabaseError, Restart, historyVars
<1>3. \A q \in Procs, s \in Seqs : retryCounts'[q][s] <= failures'[s]
  BY <1>1, <1>2, ConsumerAssumption DEF PoisonInv, CountInv, TypeOK
<1>4. \A q \in Procs : pc'[q] = "handle" => from'[q] < top'[q]
  BY <1>1 DEF EndBatch, PoisonInv, CountInv, TypeOK
<1>. QED
  BY <1>1, <1>3, <1>4 DEF PoisonInv, CountInv, PoisonFailedEnough

\* A failure is counted, for good and for all.
LEMMA FailureCounted ==
  ASSUME TypeOK, PoisonInv, NEW p \in Procs, RetryLater(p) \/ SkipPoison(p)
  PROVE  PoisonInv'
<1>1. PICK s \in todo[p] :
        /\ failures' = [failures EXCEPT ![s] = Smaller(@ + 1, MaxRetries)]
        /\ \/ /\ retryCounts[p][s] + 1 < MaxRetries
              /\ retryCounts' = [retryCounts EXCEPT ![p][s] = @ + 1]
              /\ skipped' = skipped
           \/ /\ retryCounts[p][s] + 1 >= MaxRetries
              /\ retryCounts' = [retryCounts EXCEPT ![p][s] = 0]
              /\ skipped' = skipped \cup {s}
  BY DEF RetryLater, SkipPoison
<1>2. s \in Seqs
  BY OutboxAssumption DEF TypeOK, OutboxTypeOK, Seqs
<1>3. /\ MaxRetries \in Nat \ {0}
      /\ failures[s] \in Nat /\ failures[s] <= MaxRetries
      /\ retryCounts[p][s] \in Nat /\ retryCounts[p][s] <= failures[s]
  BY <1>2, ConsumerAssumption DEF TypeOK, PoisonInv, CountInv
<1>4. /\ failures'[s] = Smaller(failures[s] + 1, MaxRetries)
      /\ \A t \in Seqs \ {s} : failures'[t] = failures[t]
  BY <1>1, <1>2 DEF TypeOK
<1>5. /\ failures[s] <= failures'[s] /\ failures'[s] \in Nat
      /\ failures[s] = MaxRetries => failures'[s] = MaxRetries
      /\ retryCounts[p][s] + 1 < MaxRetries => retryCounts[p][s] + 1 <= failures'[s]
      /\ retryCounts[p][s] + 1 >= MaxRetries => failures'[s] = MaxRetries
  BY <1>3, <1>4 DEF Smaller
<1>6. \A q \in Procs, t \in Seqs : retryCounts'[q][t] <= failures'[t]
  <2>. SUFFICES ASSUME NEW q \in Procs, NEW t \in Seqs
                PROVE  retryCounts'[q][t] <= failures'[t]
    OBVIOUS
  <2>1. CASE q # p \/ t # s
    <3>1. retryCounts'[q][t] = retryCounts[q][t]
      BY <1>1, <1>2, <2>1 DEF TypeOK
    <3>2. retryCounts[q][t] \in Nat /\ failures[t] \in Nat /\ retryCounts[q][t] <= failures[t]
      BY ConsumerAssumption DEF TypeOK, PoisonInv, CountInv
    <3>. QED
      BY <1>3, <1>4, <1>5, <3>1, <3>2
  <2>2. CASE q = p /\ t = s
    <3>1. \/ retryCounts[p][s] + 1 < MaxRetries /\ retryCounts'[p][s] = retryCounts[p][s] + 1
          \/ retryCounts'[p][s] = 0
      BY <1>1, <1>2 DEF TypeOK
    <3>. QED
      BY <1>5, <2>2, <3>1
  <2>. QED
    BY <2>1, <2>2
<1>7. \A q \in Procs : pc'[q] = "handle" => pc[q] = "handle" /\ from'[q] = from[q] /\ top'[q] = top[q]
  BY DEF RetryLater, SkipPoison, EndBatch, TypeOK
<1>8. PoisonFailedEnough'
  <2>. SUFFICES ASSUME NEW t \in skipped' PROVE failures'[t] = MaxRetries
    BY DEF PoisonFailedEnough
  <2>1. CASE t \in skipped
    <3>1. t \in Seqs /\ failures[t] = MaxRetries
      BY <2>1, OutboxAssumption DEF TypeOK, OutboxTypeOK, Seqs, PoisonInv, PoisonFailedEnough
    <3>. QED
      BY <1>4, <1>5, <3>1
  <2>2. CASE t \notin skipped
    BY <1>1, <1>5, <2>2
  <2>. QED
    BY <2>1, <2>2
<1>. QED
  BY <1>6, <1>7, <1>8 DEF PoisonInv, CountInv

LEMMA PoisonNext == TypeOK /\ PoisonInv /\ [Next]_vars => PoisonInv'
<1>. SUFFICES ASSUME TypeOK, PoisonInv, [Next]_vars PROVE PoisonInv'
  OBVIOUS
<1>1. ASSUME NEW p \in Procs, ReadCursor(p)
      PROVE  PoisonInv'
  BY <1>1 DEF ReadCursor, historyVars, PoisonInv, CountInv, PoisonFailedEnough, TypeOK
<1>2. ASSUME NEW p \in Procs, FetchBatch(p)
      PROVE  PoisonInv'
  <2>1. PICK m \in After(p) : top' = [top EXCEPT ![p] = m]
    BY <1>2 DEF FetchBatch
  <2>2. from[p] < m
    BY <2>1, OutboxAssumption DEF After, Table, TypeOK, OutboxTypeOK
  <2>. QED
    BY <1>2, <2>1, <2>2 DEF FetchBatch, PoisonInv, CountInv, PoisonFailedEnough, TypeOK
<1>3. ASSUME NEW p \in Procs, HandleEvent(p)
      PROVE  PoisonInv'
  <2>1. PICK s \in todo[p] : retryCounts' = [retryCounts EXCEPT ![p][s] = 0]
    BY <1>3 DEF HandleEvent
  <2>2. \A q \in Procs, t \in Seqs : retryCounts'[q][t] <= failures[t]
    BY <2>1, ConsumerAssumption DEF TypeOK, PoisonInv, CountInv
  <2>. QED
    BY <1>3, <2>2 DEF HandleEvent, PoisonInv, CountInv, PoisonFailedEnough
<1>4. CASE TableStep \/ UNCHANGED vars
  BY <1>4 DEF TableStep, vars, procVars, historyVars, PoisonInv, CountInv, PoisonFailedEnough
<1>. QED
  BY <1>1, <1>2, <1>3, <1>4, BatchEnds, FailureCounted DEF Next, ConsumerStep, Poll

\* An event is given up only after MaxRetries failures of its own, whatever restarts
\* forget and however many processes count.
THEOREM ConsumerPoisonFailedEnough == Spec => []PoisonFailedEnough
<1>1. PoisonInv => PoisonFailedEnough
  BY DEF PoisonInv
<1>. QED
  BY <1>1, PoisonInit, PoisonNext, ConsumerTypeCorrect, PTL DEF Spec

\* The stored cursor moves back only if another process moved it while a batch that
\* began at another cursor was being handled.
THEOREM ConsumerCursorMonotonic == Spec => CursorMonotonic
<1>1. TypeOK /\ PoisonInv /\ [Next]_vars =>
        [cursor' < cursor => \E p \in Procs : pc[p] = "handle" /\ from[p] # cursor]_vars
  <2>. SUFFICES ASSUME TypeOK, PoisonInv, Next, cursor' < cursor
                PROVE  \E p \in Procs : pc[p] = "handle" /\ from[p] # cursor
    OBVIOUS
  <2>1. cursor \in Nat
    BY OutboxAssumption DEF TypeOK, OutboxTypeOK
  <2>2. cursor' # cursor
    BY <2>1
  <2>3. PICK p \in Procs : AdvanceCursor(p)
    BY <2>2 DEF Next, ConsumerStep, Poll, ReadCursor, FetchNothing, FetchBatch, HandleEvent,
       RetryLater, SkipPoison, DatabaseError, Restart, TableStep
  <2>4. pc[p] = "handle" /\ cursor' = top[p] /\ from[p] < top[p]
        /\ top[p] \in Nat /\ from[p] \in Nat
    BY <2>3, OutboxAssumption DEF AdvanceCursor, PoisonInv, CountInv, TypeOK, OutboxTypeOK
  <2>. QED
    BY <2>1, <2>4
<1>. QED
  BY <1>1, PoisonInit, PoisonNext, ConsumerTypeCorrect, PTL DEF Spec, CursorMonotonic

=============================================================================
