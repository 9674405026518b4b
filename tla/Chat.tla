-------------------------------- MODULE Chat --------------------------------
(***************************************************************************)
(* Chat sessions of logged-in users.  Sessions live in one process's       *)
(* memory, where requests share the session object, or in Redis, where     *)
(* every request reads and overwrites the whole session.  The audit rows   *)
(* belong to the request's transaction, which commits after the response.  *)
(* A message and its answer are one entry of the turns.                    *)
(***************************************************************************)
EXTENDS Accounts

CONSTANTS KBs, Owner,   \* knowledge bases and their owners
          Sessions, Messages, Requests,
          ChatTtl,      \* in lapses of time
          MaxFaults     \* bound on requests cut off

ASSUME ChatAssumption == Owner \in [KBs -> Users] /\ ChatTtl \in Nat \ {0}

VARIABLES backend,   \* "memory" or "redis"
          session,   \* per session: its owner, what is left of its time, its turns
          request,   \* per request: what it is doing
          rows,      \* sessions whose interaction row is committed
          audited,   \* messages whose two interaction turns are committed
          answered,  \* history: messages whose answer has been stored
          crossed,   \* history: messages in flight together with one of the same session
          early,     \* history: messages answered before their session's row was there
          faults,
          cut        \* history: messages whose request was cut off

chatVars == <<backend, session, request, rows, audited, answered, crossed, early, faults, cut>>
vars == <<accountVars, chatVars>>

Idle == [pc |-> "idle"]

ChatInit ==
  /\ backend \in {"memory", "redis"}
  /\ session = [s \in Sessions |-> [user |-> None, left |-> 0, turns |-> <<>>]]
  /\ request = [r \in Requests |-> Idle]
  /\ rows = {} /\ audited = {} /\ answered = {} /\ crossed = {} /\ early = {}
  /\ faults = 0 /\ cut = {}

Go(r, pc) == request' = [request EXCEPT ![r].pc = pc]
End(r) == request' = [request EXCEPT ![r] = Idle]

Message(r) == <<request[r].session, request[r].message>>

\* The message the request is at work on, if it is one of send_message.
Work(r) == IF request[r].pc \in {"idle", "started"} THEN {} ELSE {Message(r)}

\* _persist_session: the whole session, with a new lease of life.
Store(s, u, turns) == session' = [session EXCEPT ![s] = [user |-> u, left |-> ChatTtl, turns |-> turns]]

\* add_turn: the foreign key wants the session's interaction row.
TurnsAccepted(s) == s \in rows

AtWork(pcs) == {r \in Requests : request[r].pc \in pcs}

Answering == {"asking", "stored", "recorded", "unrecorded"}

\* start_session: the session is stored, and the response sent, before the
\* interaction row is committed.
StartSession(r, u, s) ==
  /\ request[r] = Idle
  /\ session[s].user = None
  /\ Store(s, u, <<>>)
  /\ request' = [request EXCEPT ![r] = [pc |-> "started", session |-> s]]
  /\ UNCHANGED <<accountVars, backend, rows, audited, answered, crossed, early, faults, cut>>

\* start_chat: 404 unless the knowledge base is the user's.
StartChat(r, b, u, k, s) == Authenticated(b, u) /\ Owner[k] = u /\ StartSession(r, u, s)

CommitStart(r) ==
  /\ request[r].pc = "started"
  /\ rows' = rows \cup {request[r].session}
  /\ End(r)
  /\ UNCHANGED <<accountVars, backend, session, audited, answered, crossed, early, faults, cut>>

\* send_message up to the completion, for a live session of the user's.  What retrieval finds, or that it fails, only changes the prompt.
LoadSession(r, u, s, m) ==
  LET others == {q \in AtWork({"asking"}) : request[q].session = s}
  IN /\ request[r] = Idle
     /\ session[s].user = u /\ session[s].left > 0
     /\ <<s, m>> \notin answered \cup cut \cup {Message(q) : q \in AtWork(Answering)}
     /\ request' = [request EXCEPT ![r] =
          [pc |-> "asking", session |-> s, message |-> m, copy |-> session[s].turns]]
     /\ crossed' = IF others = {} THEN crossed
                   ELSE crossed \cup {<<s, m>>} \cup {Message(q) : q \in others}
     /\ UNCHANGED <<accountVars, backend, session, rows, audited, answered, early, faults, cut>>

\* The router of send_message: 404 without a session, 403 for another user's.
SendMessage(r, b, u, s, m) == Authenticated(b, u) /\ LoadSession(r, u, s, m)

\* The gateway raises.
CompletionFails(r) ==
  /\ request[r].pc = "asking"
  /\ End(r)
  /\ UNCHANGED <<accountVars, backend, session, rows, audited, answered, crossed, early, faults, cut>>

\* Mutant of History: the session read at the beginning, in memory too.
HistoryRead(r) == request[r].copy

\* What the request appends to: the object all requests share, or what it read.
History(r) == IF backend = "memory" THEN session[request[r].session].turns ELSE request[r].copy

\* The answer is appended and the session stored.
PersistSession(r) ==
  /\ request[r].pc = "asking"
  /\ LET s == request[r].session
     IN Store(s, session[s].user, Append(History(r), request[r].message))
  /\ answered' = answered \cup {Message(r)}
  /\ Go(r, "stored")
  /\ UNCHANGED <<accountVars, backend, rows, audited, crossed, early, faults, cut>>

\* Mutant of RecordTurns: the second turn is recorded though the first failed.
RecordAnyway(r) ==
  /\ request[r].pc = "stored"
  /\ Go(r, "recorded")
  /\ early' = IF request[r].session \in rows THEN early ELSE early \cup {Message(r)}
  /\ UNCHANGED <<accountVars, backend, session, rows, audited, answered, crossed, faults, cut>>

\* add_turn twice.  Without the interaction row the foreign key fails them, which is
\* only logged.
RecordTurns(r) ==
  /\ request[r].pc = "stored"
  /\ IF TurnsAccepted(request[r].session)
     THEN Go(r, "recorded") /\ UNCHANGED early
     ELSE Go(r, "unrecorded") /\ early' = early \cup {Message(r)}
  /\ UNCHANGED <<accountVars, backend, session, rows, audited, answered, crossed, faults, cut>>

\* The response is sent and the request's transaction ends.
CommitMessage(r) ==
  /\ request[r].pc \in {"recorded", "unrecorded"}
  /\ audited' = IF request[r].pc = "recorded" THEN audited \cup {Message(r)} ELSE audited
  /\ End(r)
  /\ UNCHANGED <<accountVars, backend, session, rows, answered, crossed, early, faults, cut>>

\* A request is cut off: a store fails, or the commit fails after the response.
CutOff(r) ==
  /\ request[r] # Idle /\ faults < MaxFaults
  /\ faults' = faults + 1
  /\ cut' = cut \cup Work(r)
  /\ End(r)
  /\ UNCHANGED <<accountVars, backend, session, rows, audited, answered, crossed, early>>

\* The process dies, with its requests and the sessions in its memory.
Crash ==
  /\ faults < MaxFaults
  /\ faults' = faults + 1
  /\ cut' = cut \cup UNION {Work(r) : r \in Requests}
  /\ request' = [r \in Requests |-> Idle]
  /\ session' = IF backend = "memory" THEN [s \in Sessions |-> [session[s] EXCEPT !.left = 0]]
                 ELSE session
  /\ UNCHANGED <<accountVars, backend, rows, audited, answered, crossed, early>>

TimePasses ==
  /\ Lapse
  /\ session' = [s \in Sessions |->
       [session[s] EXCEPT !.left = IF @ = 0 THEN 0 ELSE @ - 1]]
  /\ UNCHANGED <<backend, request, rows, audited, answered, crossed, early, faults, cut>>

Init == AccountsInit /\ ChatInit

Next ==
  \/ AccountsStep /\ UNCHANGED chatVars
  \/ \E r \in Requests :
       \/ CommitStart(r) \/ CompletionFails(r) \/ PersistSession(r) \/ RecordTurns(r) \/ CommitMessage(r)
       \/ CutOff(r)
       \/ \E b \in Browsers, u \in Users, s \in Sessions :
            \/ \E k \in KBs : StartChat(r, b, u, k, s)
            \/ \E m \in Messages : SendMessage(r, b, u, s, m)
  \/ Crash \/ TimePasses

Spec == Init /\ [][Next]_vars

-----------------------------------------------------------------------------
Kept(s) == {session[s].turns[i] : i \in DOMAIN session[s].turns}

\* An answered message stays in its session for as long as that lives, even if the
\* session expired while the model was asked; only with Redis may it be
\* overwritten, by a message that was in flight together with it.
AnsweredIsKept ==
  \A s \in Sessions, m \in Messages :
    <<s, m>> \in answered /\ session[s].left > 0 =>
      m \in Kept(s) \/ (backend = "redis" /\ <<s, m>> \in crossed)

\* Exactly the answered messages are audited, except those answered before their
\* session's row was committed, those cut off and those not yet committed.
AuditComplete ==
  audited = answered \ (early \cup cut \cup {Message(r) : r \in AtWork(Answering)})

=============================================================================
