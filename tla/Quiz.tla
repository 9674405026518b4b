-------------------------------- MODULE Quiz --------------------------------
(***************************************************************************)
(* Quiz sessions beside flashcard reviews.  A session is created and       *)
(* deleted by the session store in transactions of its own; the review of  *)
(* an answer, its audit turns and its event belong to the transaction of   *)
(* the request, which commits only after the response has been sent.  The  *)
(* card id of a question is a hash of its session, so a question is named  *)
(* by its session.  Events and turns of an answer are those of its review  *)
(* in log.                                                                 *)
(***************************************************************************)
EXTENDS StudyProgress

CONSTANTS Owned,      \* the decks whose knowledge base belongs to the user
          RawScores,  \* what the model may answer as a score
          None

ASSUME QuizAssumption == Owned \subseteq Decks /\ None \notin Decks /\ RawScores \subseteq Int

VARIABLES store,      \* per session: its deck, and its row in quiz_sessions
          req,        \* per request, which session it serves
          announced,  \* sessions whose QuizSessionStarted is committed
          rushed,     \* history: sessions with two submissions in flight at once
          severed     \* history: sessions cut off between their two transactions

quizVars == <<store, req, announced, rushed, severed>>
vars == <<quizVars, studyVars>>

Idle == [pc |-> "idle"]

Init ==
  /\ StudyInit
  /\ store = [s \in Questions |-> [deck |-> None, row |-> "none", expired |-> FALSE]]
  /\ req = [r \in Requests |-> Idle]
  /\ announced = {} /\ rushed = {} /\ severed = {}

Free(r) == req[r] = Idle /\ tx[r] = Closed

Serve(r, pc, s, d) == req' = [req EXCEPT ![r] = [pc |-> pc, session |-> s, deck |-> d]]

Go(r, pc) == req' = [req EXCEPT ![r].pc = pc]

On(s, pcs) == {r \in Requests : req[r] # Idle /\ req[r].session = s /\ req[r].pc \in pcs}

Starting == {"generating", "asked"}
Answering == {"evaluating", "grading", "answered"}

\* start_session: there is a weak concept, and the generator is asked about it.
StartSession(r, d, s) ==
  /\ Free(r)
  /\ store[s].row = "none" /\ On(s, Starting) = {}
  /\ Serve(r, "generating", s, d)
  /\ UNCHANGED <<store, announced, rushed, severed, studyVars>>

\* start_quiz: 404 unless the knowledge base is the user's.
StartQuiz(r, d, s) == d \in Owned /\ StartSession(r, d, s)

\* No context, no answer from the model, or one that cannot be read: 500.
GenerationFails(r) ==
  /\ req[r].pc = "generating"
  /\ req' = [req EXCEPT ![r] = Idle]
  /\ UNCHANGED <<store, announced, rushed, severed, studyVars>>

\* create_session, in the store's own transaction; the response follows.
CreateSession(r) ==
  /\ req[r].pc = "generating"
  /\ store' = [store EXCEPT ![req[r].session] =
       [deck |-> req[r].deck, row |-> "open", expired |-> FALSE]]
  /\ Go(r, "asked")
  /\ UNCHANGED <<announced, rushed, severed, studyVars>>

\* delete_session, in the store's own transaction.
Delete(s) == store' = [store EXCEPT ![s].row = "gone"]

\* The request that started the session commits its turns and its event.
CommitStart(r) ==
  /\ req[r].pc = "asked"
  /\ announced' = announced \cup {req[r].session}
  /\ req' = [req EXCEPT ![r] = Idle]
  /\ UNCHANGED <<store, rushed, severed, studyVars>>

Expire(s) ==
  /\ store[s].row = "open" /\ ~store[s].expired
  /\ store' = [store EXCEPT ![s].expired = TRUE]
  /\ UNCHANGED <<req, announced, rushed, severed, studyVars>>

\* get_session deletes a session it finds expired; submit_answer says 404.
FindExpired(s) ==
  /\ store[s].row = "open" /\ store[s].expired
  /\ Delete(s)
  /\ UNCHANGED <<req, announced, rushed, severed, studyVars>>

\* Mutant of LoadSession: a session that was deleted is still found.
LoadAnySession(r, d, s) ==
  /\ Free(r)
  /\ store[s].row # "none" /\ ~store[s].expired /\ store[s].deck = d
  /\ Serve(r, "evaluating", s, d)
  /\ rushed' = IF On(s, Answering) = {} THEN rushed ELSE rushed \cup {s}
  /\ UNCHANGED <<store, announced, severed, studyVars>>

\* submit_answer, steps 1 to 3: 404 for no session, 403 for another deck's.
LoadSession(r, d, s) ==
  /\ Free(r)
  /\ store[s].row = "open" /\ ~store[s].expired /\ store[s].deck = d
  /\ Serve(r, "evaluating", s, d)
  /\ rushed' = IF On(s, Answering) = {} THEN rushed ELSE rushed \cup {s}
  /\ UNCHANGED <<store, announced, severed, studyVars>>

\* The router of submit_answer: 404 unless the knowledge base is the user's.
SubmitAnswer(r, d, s) == d \in Owned /\ LoadSession(r, d, s)

\* The evaluator fails: 500, and the session can be answered again.
EvaluationFails(r) ==
  /\ req[r].pc = "evaluating"
  /\ req' = [req EXCEPT ![r] = Idle]
  /\ UNCHANGED <<store, announced, rushed, severed, studyVars>>

\* The evaluator's clamp.
Score(n) == IF n < 0 THEN 0 ELSE IF n > 5 THEN 5 ELSE n

\* Steps 4 and 5: the answer is graded, and its review begins.
Grade(r, n) ==
  /\ req[r].pc = "evaluating"
  /\ SelectRow(r, <<req[r].deck, req[r].session>>, Score(n))
  /\ Go(r, "grading")
  /\ UNCHANGED <<store, announced, rushed, severed, day, flashcards, active, rows, faults, log>>

\* Mutant of DeleteSession: deleted before the review is written.
DeleteEarly(r) ==
  /\ req[r].pc = "evaluating" /\ store[req[r].session].row = "open"
  /\ Delete(req[r].session)
  /\ UNCHANGED <<req, announced, rushed, severed, studyVars>>

\* Step 8, in the store's own transaction; the response is sent.
DeleteSession(r) ==
  /\ req[r].pc = "grading" /\ tx[r].pc = "written"
  /\ Delete(req[r].session)
  /\ Go(r, "answered")
  /\ UNCHANGED <<announced, rushed, severed, studyVars>>

\* The request's transaction commits.
Commit(r) ==
  /\ req[r].pc \in {"idle", "answered"}
  /\ CommitReview(r)
  /\ req' = [req EXCEPT ![r] = Idle]
  /\ UNCHANGED <<store, announced, rushed, severed>>

\* The request is cut off: an error, the process dies, or the commit fails after
\* the response.
CutOff(r) ==
  /\ ~Free(r) /\ faults < MaxFaults
  /\ faults' = faults + 1
  /\ req' = [req EXCEPT ![r] = Idle]
  /\ tx' = [tx EXCEPT ![r] = Closed]
  /\ severed' = severed \cup {s \in Questions : r \in On(s, {"answered"})}
  /\ UNCHANGED <<store, announced, rushed, day, flashcards, active, rows, reviews, log, overlapped>>

Next ==
  \/ \E r \in Requests :
       \/ GenerationFails(r) \/ CreateSession(r) \/ CommitStart(r)
       \/ EvaluationFails(r) \/ DeleteSession(r) \/ Commit(r) \/ CutOff(r)
       \/ \E n \in RawScores : Grade(r, n)
       \/ \E d \in Decks, s \in Questions : StartQuiz(r, d, s) \/ SubmitAnswer(r, d, s)
       \/ UpsertRow(r) /\ UNCHANGED quizVars
       \/ \E d \in Decks, c \in Cards, q \in Ratings :
            Free(r) /\ Review(r, <<d, c>>, q) /\ UNCHANGED quizVars
  \/ \E s \in Questions : Expire(s) \/ FindExpired(s)
  \/ /\ NewRevision \/ \E x \in Documents, cards \in SUBSET Cards : GenerateFlashcards(x, cards)
     /\ UNCHANGED quizVars
  \/ NextDay /\ UNCHANGED quizVars

Spec == Init /\ [][Next]_vars

-----------------------------------------------------------------------------
TypeOK ==
  /\ StudyTypeOK
  /\ store \in [Questions -> [deck : Decks \cup {None}, row : {"none", "open", "gone"},
                              expired : BOOLEAN]]
  /\ req \in [Requests -> {Idle} \cup [pc : Starting \cup Answering, session : Questions, deck : Decks]]
  /\ announced \cup rushed \cup severed \subseteq Questions

Answers(s) == IF store[s].deck = None THEN 0 ELSE Len(log[<<store[s].deck, s>>])

\* A question is graded once, however its session expires, its evaluation fails or
\* its requests are cut off; only submissions that were in flight together are
\* all graded.
AnsweredOnce ==
  \A s \in Questions : Answers(s) <= IF s \in rushed THEN Cardinality(Requests) ELSE 1

\* A session is never used up for nothing: when it is gone it has expired, or its
\* review is committed or about to be, or one of its own submissions was cut off after
\* deleting it and before its commit; nothing that happens to other requests does it.
GoneOnlyIfAnswered ==
  \A s \in Questions : store[s].row = "gone" =>
    \/ store[s].expired
    \/ Answers(s) > 0
    \/ \E r \in On(s, {"answered"}) : tx[r] # Closed /\ tx[r].pc = "written"
    \/ s \in severed

=============================================================================
