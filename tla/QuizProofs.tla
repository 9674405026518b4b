------------------------------ MODULE QuizProofs ------------------------------
(***************************************************************************)
(* Proofs about quiz sessions and study progress, for any decks, cards,    *)
(* questions and number of requests at a time.                             *)
(*                                                                         *)
(* AnsweredOnce: the answers a session was given and the submissions still *)
(* in flight are together one, or at most the requests served at a time;   *)
(* no answer is committed while the session can still be loaded.           *)
(* WellSpaced and ScheduleExplained: the schedule an open review has read  *)
(* or computed is itself explained by reviews committed on the card, and   *)
(* is the present one unless two reviews overlapped.                       *)
(***************************************************************************)
EXTENDS Quiz, FiniteSetTheorems, WellFoundedInduction, TLAPS

(* SM-2.                                                                    *)

Spaced(c) ==
  /\ c.ease >= 130
  /\ c.reps <= 1 => c.interval = 1
  /\ c.reps = 2 => c.interval = 6
  /\ c.reps > 2 => c.interval >= 5 + c.reps

LEMMA EaseType ==
  ASSUME NEW e \in Nat, NEW q \in 0 .. 5
  PROVE  Ease(e, q) \in Nat /\ Ease(e, q) >= 130
<1>. DEFINE n == e + 10 - (5 - q) * (8 + (5 - q) * 2)
<1>1. n \in Int
  OBVIOUS
<1>2. Ease(e, q) = IF n < 130 THEN 130 ELSE n
  BY DEF Ease
<1>. HIDE DEF n
<1>. QED
  BY <1>1, <1>2

\* An interval times an ease of 1.3 or more, rounded either way.
LEMMA RoundedType ==
  ASSUME NEW n \in Nat, NEW k \in Rounded(n)
  PROVE  k \in Nat /\ 100 * k + 50 >= n
BY DEF Rounded

LEMMA RoundedGrows ==
  ASSUME NEW i \in Nat, NEW e \in Nat, NEW k \in Rounded(i * e), i >= 6, e >= 130
  PROVE  k >= i + 2
<1>1. i * e \in Nat
  OBVIOUS
<1>2. i * e >= i * 130
  BY SMT
<1>3. k \in Nat /\ 100 * k + 50 >= i * e
  BY <1>1, RoundedType
<1>. QED
  BY <1>2, <1>3, <1>1

LEMMA Sm2Type ==
  ASSUME NEW c \in Schedules, NEW q \in 0 .. 5
  PROVE  Sm2(c, q) \subseteq Schedules
<1>1. c.ease \in Nat /\ c.interval \in Nat /\ c.reps \in Nat
  BY DEF Schedules
<1>2. Ease(c.ease, q) \in Nat
  BY <1>1, EaseType
<1>3. c.interval * c.ease \in Nat
  BY <1>1
<1>4. Rounded(c.interval * c.ease) \subseteq Nat
  BY <1>3, RoundedType
<1>. QED
  BY <1>1, <1>2, <1>4 DEF Sm2, Schedules

LEMMA Sm2Spaced ==
  ASSUME NEW c \in Schedules, NEW q \in 0 .. 5, c = Fresh \/ Spaced(c),
         NEW x \in Sm2(c, q)
  PROVE  Spaced(x)
<1>1. c.ease \in Nat /\ c.interval \in Nat /\ c.reps \in Nat
  BY DEF Schedules
<1>2. Ease(c.ease, q) \in Nat /\ Ease(c.ease, q) >= 130
  BY <1>1, EaseType
<1>3. CASE q < 3
  BY <1>2, <1>3 DEF Sm2, Spaced
<1>4. CASE q >= 3 /\ c.reps <= 1
  <2>1. PICK i \in {1, 6} : /\ x = [ease |-> Ease(c.ease, q), interval |-> i, reps |-> c.reps + 1]
                            /\ i = 1 <=> c.reps = 0
    <3>1. CASE c.reps = 0
      BY <1>4, <3>1 DEF Sm2
    <3>2. CASE c.reps = 1
      BY <1>4, <3>2 DEF Sm2
    <3>. QED
      BY <1>1, <1>4, <3>1, <3>2
  <2>. QED
    BY <1>1, <1>2, <1>4, <2>1 DEF Spaced
<1>5. CASE q >= 3 /\ c.reps >= 2
  <2>1. c.interval >= 6 /\ c.interval >= 4 + c.reps /\ c.ease >= 130 /\ (c.reps > 2 => c.interval >= 5 + c.reps)
    BY <1>1, <1>5 DEF Fresh, Spaced
  <2>2. PICK k \in Rounded(c.interval * c.ease) :
          x = [ease |-> Ease(c.ease, q), interval |-> k, reps |-> c.reps + 1]
    BY <1>1, <1>5 DEF Sm2
  <2>3. k >= c.interval + 2
    BY <1>1, <2>1, RoundedGrows
  <2>4. c.interval * c.ease \in Nat
    BY <1>1
  <2>5. k \in Nat
    BY <2>4, RoundedType
  <2>. QED
    BY <1>1, <1>2, <1>5, <2>1, <2>2, <2>3, <2>5 DEF Spaced
<1>. QED
  BY <1>1, <1>3, <1>4, <1>5

LEMMA FreshType == Fresh \in Schedules
BY DEF Fresh, Schedules

(* The schedules that a card's reviews explain.                             *)

LEMMA LeastElement ==
  ASSUME NEW T \in SUBSET Nat, T # {}
  PROVE  \E x \in T : \A y \in T : x <= y
<1>. DEFINE R == {ss \in Nat \X Nat : ss[1] < ss[2]}
<1>1. IsWellFoundedOn(R, Nat)
  BY NatLessThanWellFounded DEF OpToRel
<1>. HIDE DEF R
<1>2. PICK x \in T : \A y \in T : <<y, x>> \notin R
  BY <1>1, WFMin
<1>3. \A y \in T : ~(y < x)
  BY <1>2 DEF R
<1>. QED
  BY <1>3

\* The schedules after the review i of s, given those before it.
Reviewed(s, D, i, before) ==
  IF i = 0 THEN {Fresh} ELSE IF i \in D THEN UNION {Sm2(c, s[i]) : c \in before} ELSE before

HistoryTo(h, s, D, n) == h = [i \in 0 .. n |-> Reviewed(s, D, i, h[i - 1])]

LEMMA HistoryStarts ==
  ASSUME NEW s, NEW D
  PROVE  \E h : HistoryTo(h, s, D, 0)
<1>. DEFINE h == [i \in 0 .. 0 |-> {Fresh}]
<1>1. HistoryTo(h, s, D, 0)
  BY DEF HistoryTo, Reviewed
<1>. QED
  BY <1>1

LEMMA HistoryContinues ==
  ASSUME NEW s, NEW D, NEW n \in Nat, NEW h, HistoryTo(h, s, D, n)
  PROVE  \E g : HistoryTo(g, s, D, n + 1)
<1>. DEFINE g == [i \in 0 .. n + 1 |-> IF i = n + 1 THEN Reviewed(s, D, n + 1, h[n]) ELSE h[i]]
<1>1. \A i \in 0 .. n : h[i] = Reviewed(s, D, i, h[i - 1])
  BY DEF HistoryTo
<1>2. ASSUME NEW i \in 0 .. n + 1
      PROVE  g[i] = Reviewed(s, D, i, g[i - 1])
  <2>1. CASE i = 0
    <3>1. g[0] = h[0]
      OBVIOUS
    <3>2. h[0] = Reviewed(s, D, 0, h[0 - 1])
      BY <1>1
    <3>. HIDE DEF g
    <3>. QED
      BY <2>1, <3>1, <3>2 DEF Reviewed
  <2>2. CASE i \in 1 .. n
    <3>1. g[i] = h[i] /\ g[i - 1] = h[i - 1]
      BY <2>2
    <3>. HIDE DEF g
    <3>. QED
      BY <1>1, <2>2, <3>1
  <2>3. CASE i = n + 1
    <3>1. g[n + 1] = Reviewed(s, D, n + 1, h[n]) /\ g[n] = h[n]
      OBVIOUS
    <3>2. i - 1 = n
      BY <2>3
    <3>. HIDE DEF g
    <3>. QED
      BY <2>3, <3>1, <3>2
  <2>. QED
    BY <2>1, <2>2, <2>3
<1>3. HistoryTo(g, s, D, n + 1)
  <2>1. g = [i \in 0 .. n + 1 |-> g[i]]
    OBVIOUS
  <2>. HIDE DEF g
  <2>2. [i \in 0 .. n + 1 |-> g[i]] = [i \in 0 .. n + 1 |-> Reviewed(s, D, i, g[i - 1])]
    BY <1>2
  <2>. QED
    BY <2>1, <2>2 DEF HistoryTo
<1>. QED
  BY <1>3

LEMMA HistoryExists ==
  ASSUME NEW s, NEW D, NEW n \in Nat
  PROVE  \E h : HistoryTo(h, s, D, n)
<1>. DEFINE T == {m \in Nat : ~ \E h : HistoryTo(h, s, D, m)}
<1>1. SUFFICES ASSUME T # {}
               PROVE  FALSE
  OBVIOUS
<1>2. PICK m \in T : \A y \in T : m <= y
  BY <1>1, LeastElement
<1>3. m # 0
  BY HistoryStarts
<1>4. m - 1 \in Nat /\ m - 1 \notin T /\ m = (m - 1) + 1
  BY <1>2, <1>3
<1>5. PICK h : HistoryTo(h, s, D, m - 1)
  BY <1>4
<1>6. \E g : HistoryTo(g, s, D, (m - 1) + 1)
  BY <1>4, <1>5, HistoryContinues
<1>. QED
  BY <1>4, <1>6

\* Two histories agree as far as their reviews do.
LEMMA HistoriesAgree ==
  ASSUME NEW s, NEW D, NEW n \in Nat, NEW h, HistoryTo(h, s, D, n),
         NEW t, NEW E, NEW m \in Nat, NEW g, HistoryTo(g, t, E, m),
         NEW l \in Nat, l <= n, l <= m,
         \A i \in 1 .. l : s[i] = t[i] /\ (i \in D <=> i \in E)
  PROVE  h[l] = g[l]
<1>. DEFINE T == {i \in Nat : i <= l /\ h[i] # g[i]}
<1>1. SUFFICES ASSUME T # {}
               PROVE  FALSE
  OBVIOUS
<1>2. PICK i \in T : \A y \in T : i <= y
  BY <1>1, LeastElement
<1>3. /\ h[i] = Reviewed(s, D, i, h[i - 1])
      /\ g[i] = Reviewed(t, E, i, g[i - 1])
  BY <1>2 DEF HistoryTo
<1>4. i # 0
  BY <1>2, <1>3 DEF Reviewed
<1>5. i - 1 \in Nat /\ i - 1 \notin T /\ i - 1 <= l
  BY <1>2, <1>4
<1>6. h[i - 1] = g[i - 1]
  BY <1>5
<1>7. s[i] = t[i] /\ (i \in D <=> i \in E)
  BY <1>2, <1>4
<1>. QED
  BY <1>2, <1>3, <1>6, <1>7 DEF Reviewed

LEMMA ScheduleAfterHistory ==
  ASSUME NEW s \in Seq(0 .. 5), NEW D
  PROVE  \E h : HistoryTo(h, s, D, Len(s)) /\ ScheduleAfter(s, D) = h[Len(s)]
<1>. DEFINE after == CHOOSE h : HistoryTo(h, s, D, Len(s))
<1>1. HistoryTo(after, s, D, Len(s))
  BY HistoryExists
<1>2. ScheduleAfter(s, D) = after[Len(s)]
  BY DEF ScheduleAfter, HistoryTo, Reviewed
<1>. QED
  BY <1>1, <1>2

\* A card without reviews has the default schedule.
LEMMA ScheduleAfterNone ==
  ASSUME NEW D
  PROVE  ScheduleAfter(<<>>, D) = {Fresh}
<1>1. <<>> \in Seq(0 .. 5) /\ Len(<<>>) = 0
  OBVIOUS
<1>2. PICK h : HistoryTo(h, <<>>, D, 0) /\ ScheduleAfter(<<>>, D) = h[0]
  BY <1>1, ScheduleAfterHistory
<1>3. h[0] = Reviewed(<<>>, D, 0, h[0 - 1])
  BY <1>2 DEF HistoryTo
<1>. QED
  BY <1>2, <1>3 DEF Reviewed

\* A review more: it is counted, or it is not.
LEMMA ScheduleAfterAppend ==
  ASSUME NEW s \in Seq(0 .. 5), NEW q \in 0 .. 5, NEW D \in SUBSET DOMAIN s
  PROVE  /\ ScheduleAfter(Append(s, q), D) = ScheduleAfter(s, D)
         /\ ScheduleAfter(Append(s, q), D \cup {Len(s) + 1})
              = UNION {Sm2(c, q) : c \in ScheduleAfter(s, D)}
<1>. DEFINE t == Append(s, q)
            n == Len(s)
            E == D \cup {n + 1}
<1>1. /\ n \in Nat /\ t \in Seq(0 .. 5) /\ Len(t) = n + 1 /\ t[n + 1] = q
      /\ \A i \in 1 .. n : s[i] = t[i]
      /\ D \subseteq 1 .. n
  OBVIOUS
<1>2. ScheduleAfter(Append(s, q), D) = ScheduleAfter(t, D)
      /\ ScheduleAfter(Append(s, q), D \cup {Len(s) + 1}) = ScheduleAfter(t, E)
  OBVIOUS
<1>3. PICK h : HistoryTo(h, s, D, n) /\ ScheduleAfter(s, D) = h[n]
  BY ScheduleAfterHistory
<1>. HIDE DEF t, n
<1>4. n + 1 \notin D
  BY <1>1
<1>5. ScheduleAfter(t, D) = ScheduleAfter(s, D)
  <2>1. PICK g : HistoryTo(g, t, D, n + 1) /\ ScheduleAfter(t, D) = g[n + 1]
    BY <1>1, ScheduleAfterHistory
  <2>2. g[n + 1] = Reviewed(t, D, n + 1, g[n])
    BY <1>1, <2>1 DEF HistoryTo
  <2>3. g[n + 1] = g[n]
    BY <1>1, <1>4, <2>2 DEF Reviewed
  <2>4. h[n] = g[n]
    BY <1>1, <1>3, <2>1, HistoriesAgree
  <2>. QED
    BY <1>3, <2>1, <2>3, <2>4
<1>6. ScheduleAfter(t, E) = UNION {Sm2(c, q) : c \in ScheduleAfter(s, D)}
  <2>1. n + 1 \in E /\ \A i \in 1 .. n : s[i] = t[i] /\ (i \in D <=> i \in E)
    BY <1>1
  <2>. HIDE DEF E
  <2>2. PICK g : HistoryTo(g, t, E, n + 1) /\ ScheduleAfter(t, E) = g[n + 1]
    BY <1>1, ScheduleAfterHistory
  <2>3. g[n + 1] = Reviewed(t, E, n + 1, g[n])
    BY <1>1, <2>2 DEF HistoryTo
  <2>4. g[n + 1] = UNION {Sm2(c, q) : c \in g[n]}
    BY <1>1, <2>3, <2>1 DEF Reviewed
  <2>5. h[n] = g[n]
    BY <1>1, <1>3, <2>2, <2>1, HistoriesAgree
  <2>. QED
    BY <1>3, <2>2, <2>4, <2>5
<1>. QED
  BY <1>2, <1>5, <1>6

(* The passes since the last failure.                                       *)

LEMMA PassedAppend ==
  ASSUME NEW s \in Seq(0 .. 5), NEW q \in 0 .. 5
  PROVE  /\ IsFiniteSet(Passed(s))
         /\ Cardinality(Passed(Append(s, q)))
              = IF q < 3 THEN 0 ELSE Cardinality(Passed(s)) + 1
<1>. DEFINE t == Append(s, q)
            n == Len(s)
<1>1. /\ n \in Nat /\ Len(t) = n + 1 /\ t[n + 1] = q /\ DOMAIN t = 1 .. n + 1 /\ DOMAIN s = 1 .. n
      /\ \A i \in 1 .. n : t[i] = s[i]
      /\ n = Len(s)
  OBVIOUS
<1>. HIDE DEF t, n
<1>2. Passed(s) \subseteq 1 .. n
  BY <1>1 DEF Passed
<1>3. IsFiniteSet(1 .. n)
  BY <1>1, FS_Interval
<1>4. IsFiniteSet(Passed(s))
  BY <1>2, <1>3, FS_Subset
<1>5. CASE q < 3
  <2>1. \A i \in 1 .. n + 1 : n + 1 \in i .. n + 1
    BY <1>1
  <2>2. Passed(t) = {}
    BY <1>1, <1>5, <2>1 DEF Passed
  <2>3. Cardinality(Passed(t)) = 0
    BY <2>2, FS_EmptySet
  <2>. QED
    BY <1>4, <1>5, <2>3 DEF t
<1>6. CASE ~(q < 3)
  <2>1. n + 1 \in Passed(t)
    BY <1>1, <1>6 DEF Passed
  <2>2. ASSUME NEW i \in 1 .. n
        PROVE  i \in Passed(t) <=> i \in Passed(s)
    <3>1. i .. n + 1 = i .. n \cup {n + 1}
      BY <1>1
    <3>2. \A j \in i .. n : t[j] = s[j]
      BY <1>1
    <3>3. (\A j \in i .. n + 1 : t[j] >= 3) <=> (\A j \in i .. n : s[j] >= 3)
      BY <1>1, <1>6, <3>1, <3>2
    <3>. QED
      BY <1>1, <3>3 DEF Passed
  <2>3. Passed(t) \subseteq 1 .. n + 1
    BY <1>1 DEF Passed
  <2>4. Passed(t) = Passed(s) \cup {n + 1} /\ n + 1 \notin Passed(s)
    BY <1>1, <1>2, <2>1, <2>2, <2>3
  <2>5. Cardinality(Passed(t)) = Cardinality(Passed(s)) + 1
    BY <1>4, <2>4, FS_AddElement
  <2>. QED
    BY <1>4, <1>6, <2>5 DEF t
<1>. QED
  BY <1>5, <1>6

-----------------------------------------------------------------------------
(* What a step does to the reviews.                                         *)

SelectsRow(r, key, q) ==
  /\ key \in Keys /\ q \in 0 .. 5
  /\ SelectRow(r, key, q)
  /\ UNCHANGED <<rows, log>>

Closes(r) ==
  /\ tx' = [tx EXCEPT ![r] = Closed]
  /\ UNCHANGED <<rows, log, overlapped>>

LEMMA ScoreType ==
  ASSUME NEW n \in RawScores
  PROVE  Score(n) \in 0 .. 5
BY QuizAssumption DEF QuizAssumption, Score

LEMMA StudySteps ==
  ASSUME TypeOK, [Next]_vars
  PROVE  \/ \E r \in Requests, key \in Keys, q \in 0 .. 5 : SelectsRow(r, key, q)
         \/ \E r \in Requests : UpsertRow(r) \/ CommitReview(r) \/ Closes(r)
         \/ UNCHANGED <<rows, tx, log, overlapped>>
<1>. USE DEF quizVars, studyVars
<1>1. ASSUME NEW r \in Requests, NEW n \in RawScores, Grade(r, n)
      PROVE  \E key \in Keys, q \in 0 .. 5 : SelectsRow(r, key, q)
  <2>1. req[r].session \in Questions /\ req[r].deck \in Decks
    BY <1>1 DEF Grade, TypeOK, Idle
  <2>2. <<req[r].deck, req[r].session>> \in Keys
    BY <2>1 DEF Keys
  <2>3. Score(n) \in 0 .. 5
    BY ScoreType
  <2>. QED
    BY <1>1, <2>2, <2>3 DEF Grade, SelectsRow
<1>2. ASSUME NEW r \in Requests, NEW d \in Decks, NEW c \in Cards, NEW q \in Ratings,
             Review(r, <<d, c>>, q)
      PROVE  \E key \in Keys, x \in 0 .. 5 : SelectsRow(r, key, x)
  <2>1. <<d, c>> \in Keys
    BY DEF Keys
  <2>2. q \in 0 .. 5
    BY StudyAssumption DEF StudyAssumption
  <2>. QED
    BY <1>2, <2>1, <2>2 DEF Review, SelectsRow
<1>3. ASSUME NEW r \in Requests, GenerationFails(r) \/ CreateSession(r) \/ CommitStart(r)
                                 \/ EvaluationFails(r) \/ DeleteSession(r)
      PROVE  UNCHANGED <<rows, tx, log, overlapped>>
  BY <1>3 DEF GenerationFails, CreateSession, CommitStart, EvaluationFails, DeleteSession
<1>4. ASSUME NEW r \in Requests, NEW d \in Decks, NEW s \in Questions,
             StartQuiz(r, d, s) \/ SubmitAnswer(r, d, s)
      PROVE  UNCHANGED <<rows, tx, log, overlapped>>
  BY <1>4 DEF StartQuiz, StartSession, SubmitAnswer, LoadSession
<1>5. ASSUME NEW s \in Questions, Expire(s) \/ FindExpired(s)
      PROVE  UNCHANGED <<rows, tx, log, overlapped>>
  BY <1>5 DEF Expire, FindExpired
<1>6. ASSUME NewRevision \/ (\E x \in Documents, cards \in SUBSET Cards : GenerateFlashcards(x, cards))
             \/ NextDay
      PROVE  UNCHANGED <<rows, tx, log, overlapped>>
  BY <1>6 DEF NewRevision, GenerateFlashcards, NextDay
<1>7. ASSUME NEW r \in Requests, Commit(r)
      PROVE  CommitReview(r)
  BY <1>7 DEF Commit
<1>8. ASSUME NEW r \in Requests, CutOff(r)
      PROVE  Closes(r)
  BY <1>8 DEF CutOff, Closes
<1>9. ASSUME UNCHANGED vars
      PROVE  UNCHANGED <<rows, tx, log, overlapped>>
  BY <1>9 DEF vars
<1>. HIDE DEF quizVars, studyVars
<1>. QED
  BY <1>1, <1>2, <1>3, <1>4, <1>5, <1>6, <1>7, <1>8, <1>9 DEF Next

-----------------------------------------------------------------------------
(* Types.                                                                   *)

LEMMA TxCases ==
  ASSUME StudyTypeOK, NEW r \in Requests
  PROVE  /\ tx[r] = Closed <=> tx[r].pc \notin {"read", "written"}
         /\ tx[r].pc = "read" => tx[r] \in Selected
         /\ tx[r].pc = "written" => tx[r] \in Written
BY DEF StudyTypeOK, Closed, Selected, Written

LEMMA CurrentType ==
  ASSUME StudyTypeOK, NEW key \in Keys
  PROVE  (IF rows[key] = NoRow THEN Fresh ELSE rows[key].sm) \in Schedules
<1>1. rows[key] = NoRow \/ rows[key] \in Rows
  BY DEF StudyTypeOK
<1>2. rows[key] \in Rows => rows[key].sm \in Schedules
  BY DEF Rows
<1>. QED
  BY <1>1, <1>2, FreshType

TxTypes ==
  /\ rows \in [Keys -> Rows \cup {NoRow}]
  /\ tx \in [Requests -> {Closed} \cup Selected \cup Written]
  /\ log \in [Keys -> Seq(0 .. 5)]
  /\ overlapped \subseteq Keys

LEMMA SelectsRowTypes ==
  ASSUME StudyTypeOK, NEW r \in Requests, NEW key \in Keys, NEW q \in 0 .. 5, SelectsRow(r, key, q)
  PROVE  TxTypes'
<1>. DEFINE sm == IF rows[key] = NoRow THEN Fresh ELSE rows[key].sm
            t == [pc |-> "read", key |-> key, rating |-> q, sm |-> sm]
<1>1. sm \in Schedules
  BY CurrentType
<1>2. tx' = [tx EXCEPT ![r] = t]
  BY DEF SelectsRow, SelectRow
<1>. HIDE DEF sm
<1>3. t \in Selected
  BY <1>1 DEF Selected
<1>. HIDE DEF t
<1>4. tx' \in [Requests -> {Closed} \cup Selected \cup Written]
  BY <1>2, <1>3 DEF StudyTypeOK
<1>5. overlapped' \subseteq Keys
  BY DEF SelectsRow, SelectRow, StudyTypeOK
<1>. QED
  BY <1>4, <1>5 DEF SelectsRow, TxTypes, StudyTypeOK

\* The upsert leaves the schedule sm.
Upserts(r, sm) ==
  /\ sm \in Sm2(tx[r].sm, tx[r].rating) /\ sm \in Schedules
  /\ \E n \in Nat \ {0} :
       tx' = [tx EXCEPT ![r] = [pc |-> "written", key |-> tx[r].key, rating |-> tx[r].rating,
                                sm |-> sm, due |-> n]]

LEMMA UpsertRowSteps ==
  ASSUME StudyTypeOK, NEW r \in Requests, UpsertRow(r)
  PROVE  /\ tx[r] \in Selected
         /\ \E sm \in Schedules : Upserts(r, sm)
         /\ UNCHANGED <<day, flashcards, active, rows, reviews, faults, log, overlapped>>
<1>1. tx[r] \in Selected
  BY TxCases DEF UpsertRow
<1>2. tx[r].key \in Keys /\ tx[r].rating \in 0 .. 5 /\ tx[r].sm \in Schedules
  BY <1>1 DEF Selected
<1>. DEFINE due(sm) == day + IF sm.interval < 1 THEN 1 ELSE sm.interval
<1>3. PICK sm \in Sm2(tx[r].sm, tx[r].rating) :
        tx' = [tx EXCEPT ![r] = [pc |-> "written", key |-> tx[r].key, rating |-> tx[r].rating,
                                 sm |-> sm, due |-> due(sm)]]
  BY DEF UpsertRow
<1>4. sm \in Schedules
  BY <1>2, Sm2Type
<1>5. sm.interval \in Nat /\ day \in Nat
  BY <1>4 DEF Schedules, StudyTypeOK
<1>6. due(sm) \in Nat \ {0}
  BY <1>5
<1>. HIDE DEF due
<1>7. Upserts(r, sm)
  BY <1>3, <1>4, <1>6 DEF Upserts
<1>. QED
  BY <1>1, <1>4, <1>7 DEF UpsertRow

LEMMA UpsertRowTypes ==
  ASSUME StudyTypeOK, NEW r \in Requests, UpsertRow(r)
  PROVE  TxTypes'
<1>1. tx[r] \in Selected
  BY UpsertRowSteps
<1>2. tx[r].key \in Keys /\ tx[r].rating \in 0 .. 5
  BY <1>1 DEF Selected
<1>3. PICK sm \in Schedules : Upserts(r, sm)
  BY UpsertRowSteps
<1>4. PICK n \in Nat \ {0} :
       tx' = [tx EXCEPT ![r] = [pc |-> "written", key |-> tx[r].key, rating |-> tx[r].rating,
                                sm |-> sm, due |-> n]]
  BY <1>3 DEF Upserts
<1>. DEFINE t == [pc |-> "written", key |-> tx[r].key, rating |-> tx[r].rating, sm |-> sm, due |-> n]
<1>5. t \in Written
  BY <1>2 DEF Written
<1>6. tx' = [tx EXCEPT ![r] = t]
  BY <1>4
<1>. HIDE DEF t
<1>7. tx' \in [Requests -> {Closed} \cup Selected \cup Written]
  BY <1>5, <1>6 DEF StudyTypeOK
<1>. QED
  BY <1>7, UpsertRowSteps DEF TxTypes, StudyTypeOK

LEMMA CommitReviewTypes ==
  ASSUME StudyTypeOK, NEW r \in Requests, CommitReview(r)
  PROVE  /\ TxTypes'
         /\ tx[r] \in Written
         /\ UNCHANGED <<day, flashcards, active, reviews, faults, overlapped>>
<1>1. tx[r] \in Written
  BY TxCases DEF CommitReview
<1>2. tx[r].key \in Keys /\ tx[r].rating \in 0 .. 5 /\ tx[r].sm \in Schedules /\ tx[r].due \in Nat \ {0}
  BY <1>1 DEF Written
<1>. DEFINE row == [sm |-> tx[r].sm, due |-> tx[r].due]
<1>3. row \in Rows
  BY <1>2 DEF Rows
<1>. HIDE DEF row
<1>4. rows' = [rows EXCEPT ![tx[r].key] = row]
  BY DEF CommitReview, row
<1>5. rows' \in [Keys -> Rows \cup {NoRow}]
  BY <1>3, <1>4 DEF StudyTypeOK
<1>6. log[tx[r].key] \in Seq(0 .. 5)
  BY <1>2 DEF StudyTypeOK
<1>7. Append(log[tx[r].key], tx[r].rating) \in Seq(0 .. 5)
  BY <1>2, <1>6
<1>8. log' \in [Keys -> Seq(0 .. 5)]
  BY <1>7 DEF CommitReview, StudyTypeOK
<1>9. tx' \in [Requests -> {Closed} \cup Selected \cup Written]
  BY DEF CommitReview, StudyTypeOK
<1>. QED
  BY <1>1, <1>5, <1>8, <1>9 DEF TxTypes, StudyTypeOK, CommitReview

LEMMA ClosesTypes ==
  ASSUME StudyTypeOK, NEW r \in Requests, Closes(r)
  PROVE  TxTypes'
BY DEF StudyTypeOK, Closes, TxTypes

LEMMA TxTypesStep ==
  ASSUME TypeOK, [Next]_vars
  PROVE  TxTypes'
<1>1. StudyTypeOK
  BY DEF TypeOK
<1>2. CASE UNCHANGED <<rows, tx, log, overlapped>>
  BY <1>1, <1>2 DEF StudyTypeOK, TxTypes
<1>. QED
  BY <1>1, <1>2, StudySteps, SelectsRowTypes, UpsertRowTypes, CommitReviewTypes, ClosesTypes
     DEF SelectsRow

Sessions == [deck : Decks \cup {None}, row : {"none", "open", "gone"}, expired : BOOLEAN]
Serving == [pc : Starting \cup Answering, session : Questions, deck : Decks]

SessionTypes ==
  /\ store \in [Questions -> Sessions]
  /\ req \in [Requests -> {Idle} \cup Serving]
  /\ announced \cup rushed \cup severed \subseteq Questions

Counters ==
  /\ day \in 0 .. MaxDay /\ flashcards \in [Documents -> SUBSET Cards] /\ active \in Documents
  /\ reviews \in 0 .. MaxReviews /\ faults \in 0 .. MaxFaults

LEMMA TypeParts == TypeOK <=> Counters /\ TxTypes /\ SessionTypes
BY DEF TypeOK, StudyTypeOK, Counters, TxTypes, SessionTypes, Sessions, Serving

LEMMA ReqCases ==
  ASSUME SessionTypes, NEW r \in Requests
  PROVE  /\ req[r] = Idle <=> req[r].pc = "idle"
         /\ req[r].pc \in Starting \cup Answering \cup {"idle"}
         /\ req[r] # Idle => req[r] \in Serving
         /\ req[r] \in Serving => req[r].session \in Questions /\ req[r].deck \in Decks
BY DEF SessionTypes, Idle, Serving, Starting, Answering

\* A request served by req' does not change the types.
LEMMA ReqTypes ==
  ASSUME SessionTypes, NEW r \in Requests,
         \/ req' = [req EXCEPT ![r] = Idle]
         \/ \E pc \in Starting \cup Answering : Go(r, pc) /\ req[r] # Idle
         \/ \E pc \in Starting \cup Answering, s \in Questions, d \in Decks : Serve(r, pc, s, d)
  PROVE  req' \in [Requests -> {Idle} \cup Serving]
<1>1. CASE req' = [req EXCEPT ![r] = Idle]
  BY <1>1 DEF SessionTypes
<1>2. ASSUME NEW pc \in Starting \cup Answering, Go(r, pc), req[r] # Idle
      PROVE  req' \in [Requests -> {Idle} \cup Serving]
  <2>1. req[r] \in Serving
    BY <1>2 DEF SessionTypes
  <2>2. [req[r] EXCEPT !.pc = pc] \in Serving
    BY <2>1 DEF Serving
  <2>3. req' = [req EXCEPT ![r] = [req[r] EXCEPT !.pc = pc]]
    BY <1>2 DEF Go
  <2>. QED
    BY <2>2, <2>3 DEF SessionTypes
<1>3. ASSUME NEW pc \in Starting \cup Answering, NEW s \in Questions, NEW d \in Decks, Serve(r, pc, s, d)
      PROVE  req' \in [Requests -> {Idle} \cup Serving]
  <2>1. [pc |-> pc, session |-> s, deck |-> d] \in Serving
    BY DEF Serving
  <2>. QED
    BY <1>3, <2>1 DEF SessionTypes, Serve
<1>. QED
  BY <1>1, <1>2, <1>3

\* A session that is created, deleted or found expired keeps the types of the store.
LEMMA StoreTypes ==
  ASSUME SessionTypes, NEW s \in Questions,
         \/ \E d \in Decks : store' = [store EXCEPT ![s] = [deck |-> d, row |-> "open", expired |-> FALSE]]
         \/ Delete(s)
         \/ store' = [store EXCEPT ![s].expired = TRUE]
  PROVE  /\ store' \in [Questions -> Sessions]
         /\ store'[s].row = "none" => store[s].row = "none"
         /\ \A x \in Questions : x # s => store'[x] = store[x]
<1>1. ASSUME NEW d \in Decks, store' = [store EXCEPT ![s] = [deck |-> d, row |-> "open", expired |-> FALSE]]
      PROVE  /\ store' \in [Questions -> Sessions]
             /\ store'[s].row # "none"
             /\ \A x \in Questions : x # s => store'[x] = store[x]
  BY <1>1 DEF SessionTypes, Sessions
<1>2. store[s] \in Sessions
  BY DEF SessionTypes
<1>3. ASSUME NEW y \in Sessions, store' = [store EXCEPT ![s] = y], y.row = "none" => store[s].row = "none"
      PROVE  /\ store' \in [Questions -> Sessions]
             /\ store'[s].row = "none" => store[s].row = "none"
             /\ \A x \in Questions : x # s => store'[x] = store[x]
  BY <1>3 DEF SessionTypes
<1>4. [store[s] EXCEPT !.row = "gone"] \in Sessions /\ [store[s] EXCEPT !.row = "gone"].row = "gone"
  BY <1>2 DEF Sessions
<1>5. [store[s] EXCEPT !.expired = TRUE] \in Sessions
      /\ [store[s] EXCEPT !.expired = TRUE].row = store[s].row
  BY <1>2 DEF Sessions
<1>6. Delete(s) => store' = [store EXCEPT ![s] = [store[s] EXCEPT !.row = "gone"]]
  BY DEF Delete
<1>7. store' = [store EXCEPT ![s].expired = TRUE]
      => store' = [store EXCEPT ![s] = [store[s] EXCEPT !.expired = TRUE]]
  OBVIOUS
<1>8. CASE Delete(s)
  BY <1>3, <1>4, <1>6, <1>8
<1>9. CASE store' = [store EXCEPT ![s].expired = TRUE]
  BY <1>3, <1>5, <1>7, <1>9
<1>. QED
  BY <1>1, <1>8, <1>9

LEMMA StepTypes ==
  ASSUME TypeOK, [Next]_vars
  PROVE  TypeOK'
<1>1. Counters /\ TxTypes /\ SessionTypes
  BY TypeParts
<1>2. TxTypes'
  BY TxTypesStep
<1>. SUFFICES Counters' /\ SessionTypes'
  BY <1>2, TypeParts DEF TypeOK, StudyTypeOK, Counters, TxTypes, SessionTypes, Sessions, Serving
<1>. USE DEF quizVars, studyVars
<1>3. ASSUME NEW r \in Requests,
             GenerationFails(r) \/ EvaluationFails(r)
      PROVE  Counters' /\ SessionTypes'
  <2>1. UNCHANGED <<store, announced, rushed, severed, studyVars>> /\ req' = [req EXCEPT ![r] = Idle]
    BY <1>3 DEF GenerationFails, EvaluationFails
  <2>2. req' \in [Requests -> {Idle} \cup Serving]
    BY <1>1, <2>1, ReqTypes
  <2>. QED
    BY <1>1, <2>1, <2>2 DEF Counters, SessionTypes
<1>4. ASSUME NEW r \in Requests, req[r].pc # "idle"
      PROVE  req[r] # Idle /\ req[r].session \in Questions /\ req[r].deck \in Decks
  <2>1. req[r] # Idle
    BY <1>4 DEF Idle
  <2>. QED
    BY <1>1, <2>1, ReqCases
<1>5. ASSUME NEW r \in Requests, CommitStart(r)
      PROVE  Counters' /\ SessionTypes'
  <2>1. Counters'
    BY <1>1, <1>5 DEF CommitStart, Counters
  <2>2. req' \in [Requests -> {Idle} \cup Serving]
    BY <1>1, <1>5, ReqTypes DEF CommitStart
  <2>3. req[r].session \in Questions
    BY <1>4, <1>5 DEF CommitStart
  <2>. QED
    BY <1>1, <1>5, <2>1, <2>2, <2>3 DEF CommitStart, SessionTypes
<1>6. ASSUME NEW r \in Requests, CreateSession(r)
      PROVE  Counters' /\ SessionTypes'
  <2>1. Counters'
    BY <1>1, <1>6 DEF CreateSession, Counters
  <2>2. req[r] # Idle /\ req[r].session \in Questions /\ req[r].deck \in Decks
    BY <1>4, <1>6 DEF CreateSession
  <2>3. "asked" \in Starting \cup Answering
    BY DEF Starting
  <2>4. req' \in [Requests -> {Idle} \cup Serving]
    BY <1>1, <1>6, <2>2, <2>3, ReqTypes DEF CreateSession
  <2>5. store' \in [Questions -> Sessions]
    BY <1>1, <1>6, <2>2, StoreTypes DEF CreateSession
  <2>. QED
    BY <1>1, <1>6, <2>1, <2>4, <2>5 DEF CreateSession, SessionTypes
<1>7. ASSUME NEW r \in Requests, DeleteSession(r)
      PROVE  Counters' /\ SessionTypes'
  <2>1. Counters'
    BY <1>1, <1>7 DEF DeleteSession, Counters
  <2>2. req[r] # Idle /\ req[r].session \in Questions
    BY <1>4, <1>7 DEF DeleteSession
  <2>3. "answered" \in Starting \cup Answering
    BY DEF Answering
  <2>4. req' \in [Requests -> {Idle} \cup Serving]
    BY <1>1, <1>7, <2>2, <2>3, ReqTypes DEF DeleteSession
  <2>5. store' \in [Questions -> Sessions]
    BY <1>1, <1>7, <2>2, StoreTypes DEF DeleteSession
  <2>. QED
    BY <1>1, <1>7, <2>1, <2>4, <2>5 DEF DeleteSession, SessionTypes
<1>8. ASSUME NEW r \in Requests, Commit(r)
      PROVE  Counters' /\ SessionTypes'
  <2>1. Counters'
    BY <1>1, <1>8 DEF Commit, CommitReview, Counters
  <2>2. req' \in [Requests -> {Idle} \cup Serving]
    BY <1>1, <1>8, ReqTypes DEF Commit
  <2>. QED
    BY <1>1, <1>8, <2>1, <2>2 DEF Commit, SessionTypes
<1>9. ASSUME NEW r \in Requests, CutOff(r)
      PROVE  Counters' /\ SessionTypes'
  <2>1. Counters'
    BY <1>1, <1>9, StudyAssumption DEF StudyAssumption, CutOff, Counters
  <2>2. req' \in [Requests -> {Idle} \cup Serving]
    BY <1>1, <1>9, ReqTypes DEF CutOff
  <2>. QED
    BY <1>1, <1>9, <2>1, <2>2 DEF CutOff, SessionTypes
<1>10. ASSUME NEW r \in Requests, NEW n \in RawScores, Grade(r, n)
       PROVE  Counters' /\ SessionTypes'
  <2>1. Counters'
    BY <1>1, <1>10, StudyAssumption DEF StudyAssumption, Grade, SelectRow, Counters
  <2>2. req[r] # Idle
    BY <1>4, <1>10 DEF Grade
  <2>3. "grading" \in Starting \cup Answering
    BY DEF Answering
  <2>4. req' \in [Requests -> {Idle} \cup Serving]
    BY <1>1, <1>10, <2>2, <2>3, ReqTypes DEF Grade
  <2>. QED
    BY <1>1, <1>10, <2>1, <2>4 DEF Grade, SessionTypes
<1>11. ASSUME NEW r \in Requests, NEW d \in Decks, NEW s \in Questions, StartQuiz(r, d, s)
       PROVE  Counters' /\ SessionTypes'
  <2>1. Counters'
    BY <1>1, <1>11 DEF StartQuiz, StartSession, Counters
  <2>2. "generating" \in Starting \cup Answering
    BY DEF Starting
  <2>3. req' \in [Requests -> {Idle} \cup Serving]
    BY <1>1, <1>11, <2>2, ReqTypes DEF StartQuiz, StartSession
  <2>. QED
    BY <1>1, <1>11, <2>1, <2>3 DEF StartQuiz, StartSession, SessionTypes
<1>12. ASSUME NEW r \in Requests, NEW d \in Decks, NEW s \in Questions, SubmitAnswer(r, d, s)
       PROVE  Counters' /\ SessionTypes'
  <2>1. Counters'
    BY <1>1, <1>12 DEF SubmitAnswer, LoadSession, Counters
  <2>2. "evaluating" \in Starting \cup Answering
    BY DEF Answering
  <2>3. req' \in [Requests -> {Idle} \cup Serving]
    BY <1>1, <1>12, <2>2, ReqTypes DEF SubmitAnswer, LoadSession
  <2>. QED
    BY <1>1, <1>12, <2>1, <2>3 DEF SubmitAnswer, LoadSession, SessionTypes
<1>13. ASSUME NEW s \in Questions, Expire(s) \/ FindExpired(s)
       PROVE  Counters' /\ SessionTypes'
  <2>1. Counters'
    BY <1>1, <1>13 DEF Expire, FindExpired, Counters
  <2>2. store' \in [Questions -> Sessions]
    BY <1>1, <1>13, StoreTypes DEF Expire, FindExpired
  <2>. QED
    BY <1>1, <1>13, <2>1, <2>2 DEF Expire, FindExpired, SessionTypes
<1>14. ASSUME UNCHANGED quizVars
       PROVE  SessionTypes'
  BY <1>1, <1>14 DEF SessionTypes
<1>15. ASSUME NEW r \in Requests, UpsertRow(r)
       PROVE  Counters'
  BY <1>1, <1>15 DEF UpsertRow, Counters
<1>16. ASSUME NEW r \in Requests, NEW key, NEW q \in Ratings, Review(r, key, q)
       PROVE  Counters'
  BY <1>1, <1>16, StudyAssumption DEF StudyAssumption, Review, SelectRow, Counters
<1>17. ASSUME NewRevision \/ NextDay \/ \E x \in Documents, cards \in SUBSET Cards : GenerateFlashcards(x, cards)
       PROVE  Counters'
  BY <1>1, <1>17, StudyAssumption DEF StudyAssumption, NewRevision, NextDay, GenerateFlashcards, Documents, Counters
<1>18. ASSUME UNCHANGED vars
       PROVE  Counters' /\ SessionTypes'
  BY <1>1, <1>18 DEF vars, Counters, SessionTypes
<1>. HIDE DEF quizVars, studyVars
<1>. QED
  BY <1>3, <1>5, <1>6, <1>7, <1>8, <1>9, <1>10, <1>11, <1>12, <1>13, <1>14, <1>15, <1>16, <1>17, <1>18 DEF Next

\* Every request, row, log and session keeps to its type: in particular a review in
\* progress (save_review) has a card and a rating, and an answered session a deck.
THEOREM QuizTypeCorrect == Spec => []TypeOK
<1>1. Init => TypeOK
  BY StudyAssumption DEF StudyAssumption, Init, StudyInit, TypeOK, StudyTypeOK, Documents, Keys
<1>2. TypeOK /\ [Next]_vars => TypeOK'
  BY StepTypes
<1>. QED
  BY <1>1, <1>2, PTL DEF Spec

-----------------------------------------------------------------------------
(* Requests, their transactions and their sessions.                         *)

Bound(r) ==
  /\ req[r].pc \in Starting \cup {"evaluating"} => tx[r] = Closed
  /\ req[r] = Idle /\ tx[r] # Closed => tx[r].key[2] \in Cards
  /\ req[r].pc \in {"grading", "answered"}
     => tx[r] # Closed /\ tx[r].key = <<req[r].deck, req[r].session>>
  /\ req[r].pc = "answered" => tx[r].pc = "written"

\* The session that the request serves.
Lives(r) ==
  /\ req[r].pc = "generating" => store[req[r].session].row = "none"
  /\ req[r].pc = "answered" => store[req[r].session].row = "gone"
  /\ req[r].pc \in Answering => /\ store[req[r].session].deck = req[r].deck
                                /\ store[req[r].session].row # "none"

OneStarts ==
  \A r, q \in Requests :
    req[r].pc = "generating" /\ req[q].pc = "generating" /\ req[r].session = req[q].session => r = q

LinkedInv == OneStarts /\ \A r \in Requests : Bound(r) /\ Lives(r)

LEMMA BoundStep ==
  ASSUME TypeOK, LinkedInv, [Next]_vars, NEW q \in Requests
  PROVE  Bound(q)'
<1>1. Counters /\ TxTypes /\ SessionTypes /\ StudyTypeOK
  BY TypeParts DEF TypeOK
<1>2. Bound(q)
  BY DEF LinkedInv
<1>. USE DEF quizVars, studyVars
<1>3. ASSUME req'[q] = req[q], tx'[q] = tx[q]
      PROVE  Bound(q)'
  BY <1>2, <1>3 DEF Bound
<1>4. ASSUME req'[q] = Idle, tx'[q] = Closed
      PROVE  Bound(q)'
  BY <1>4 DEF Bound, Idle, Starting
<1>5. ASSUME req'[q].pc \in Starting \cup {"evaluating"}, tx'[q] = Closed
      PROVE  Bound(q)'
  BY <1>5 DEF Bound, Idle, Starting
<1>6. ASSUME NEW r \in Requests, tx' = tx, \/ req' = [req EXCEPT ![r] = Idle]
                                           \/ \E pc : Go(r, pc)
                                           \/ \E pc, s, d : Serve(r, pc, s, d),
             r # q
      PROVE  Bound(q)'
  BY <1>1, <1>3, <1>6 DEF Go, Serve, SessionTypes
<1>7. ASSUME NEW r \in Requests, req[r].pc \in Starting \cup {"evaluating"}
      PROVE  tx[r] = Closed
  BY <1>7 DEF LinkedInv, Bound
<1>8. ASSUME NEW r \in Requests, GenerationFails(r) \/ EvaluationFails(r) \/ CommitStart(r)
      PROVE  Bound(q)'
  <2>1. tx' = tx /\ req' = [req EXCEPT ![r] = Idle] /\ tx[r] = Closed
    BY <1>7, <1>8 DEF GenerationFails, EvaluationFails, CommitStart, Starting
  <2>. QED
    BY <1>1, <1>4, <1>6, <2>1 DEF SessionTypes
<1>9. ASSUME NEW r \in Requests, CreateSession(r)
      PROVE  Bound(q)'
  <2>1. tx' = tx /\ Go(r, "asked") /\ tx[r] = Closed /\ req[r] # Idle
    BY <1>7, <1>9 DEF CreateSession, Starting, Idle
  <2>2. req'[r].pc = "asked"
    BY <1>1, <2>1 DEF Go, SessionTypes, Serving, Idle
  <2>. QED
    BY <1>5, <1>6, <2>1, <2>2 DEF Starting
<1>10. ASSUME NEW r \in Requests, DeleteSession(r)
       PROVE  Bound(q)'
  <2>1. tx' = tx /\ Go(r, "answered") /\ req[r].pc = "grading" /\ tx[r].pc = "written"
    BY <1>10 DEF DeleteSession
  <2>2. req[r] \in Serving
    BY <1>1, <2>1, ReqCases DEF Idle
  <2>3. req'[r] = [req[r] EXCEPT !.pc = "answered"]
    BY <1>1, <2>1 DEF Go, SessionTypes
  <2>4. req'[r].pc = "answered" /\ req'[r].deck = req[r].deck /\ req'[r].session = req[r].session
    BY <2>2, <2>3 DEF Serving
  <2>5. tx[r] # Closed /\ tx[r].key = <<req[r].deck, req[r].session>>
    BY <2>1 DEF LinkedInv, Bound
  <2>6. CASE q = r
    BY <2>1, <2>4, <2>5, <2>6 DEF Bound, Starting, Idle
  <2>. QED
    BY <1>6, <2>1, <2>6
<1>11. ASSUME NEW r \in Requests, Commit(r) \/ CutOff(r)
       PROVE  Bound(q)'
  <2>1. tx' = [tx EXCEPT ![r] = Closed] /\ req' = [req EXCEPT ![r] = Idle]
    BY <1>11 DEF Commit, CommitReview, CutOff
  <2>2. tx \in [Requests -> {Closed} \cup Selected \cup Written] /\ req \in [Requests -> {Idle} \cup Serving]
    BY <1>1 DEF TxTypes, SessionTypes
  <2>3. CASE q = r
    <3>1. req'[q] = Idle /\ tx'[q] = Closed
      BY <2>1, <2>2, <2>3
    <3>. QED
      BY <1>4, <3>1
  <2>4. CASE q # r
    <3>1. req'[q] = req[q] /\ tx'[q] = tx[q]
      BY <2>1, <2>2, <2>4
    <3>. QED
      BY <1>3, <3>1
  <2>. QED
    BY <2>3, <2>4
<1>12. ASSUME NEW r \in Requests, NEW n \in RawScores, Grade(r, n)
       PROVE  Bound(q)'
  <2>. DEFINE key == <<req[r].deck, req[r].session>>
              sm == IF rows[key] = NoRow THEN Fresh ELSE rows[key].sm
  <2>1. /\ tx' = [tx EXCEPT ![r] = [pc |-> "read", key |-> key, rating |-> Score(n), sm |-> sm]]
        /\ Go(r, "grading") /\ req[r].pc = "evaluating"
    BY <1>12 DEF Grade, SelectRow
  <2>. HIDE DEF sm
  <2>2. tx \in [Requests -> {Closed} \cup Selected \cup Written] /\ req \in [Requests -> {Idle} \cup Serving]
    BY <1>1 DEF TxTypes, SessionTypes
  <2>3. CASE q # r
    <3>1. req'[q] = req[q] /\ tx'[q] = tx[q]
      BY <2>1, <2>2, <2>3 DEF Go
    <3>. QED
      BY <1>3, <3>1
  <2>4. CASE q = r
    <3>1. req[r] \in Serving
      BY <1>1, <2>1, ReqCases DEF Idle
    <3>2. req'[r] = [req[r] EXCEPT !.pc = "grading"]
      BY <2>1, <2>2 DEF Go
    <3>3. req'[r].pc = "grading" /\ req'[r].deck = req[r].deck /\ req'[r].session = req[r].session
      BY <3>1, <3>2 DEF Serving
    <3>4. tx'[r].key = key /\ tx'[r].pc = "read"
      BY <2>1, <2>2
    <3>. QED
      BY <2>4, <3>3, <3>4 DEF Bound, Starting, Idle, Closed
  <2>. QED
    BY <2>3, <2>4
<1>13. ASSUME NEW r \in Requests, NEW d \in Decks, NEW s \in Questions,
              StartQuiz(r, d, s) \/ SubmitAnswer(r, d, s)
       PROVE  Bound(q)'
  <2>1. PICK pc \in {"generating", "evaluating"} : Serve(r, pc, s, d)
    BY <1>13 DEF StartQuiz, StartSession, SubmitAnswer, LoadSession
  <2>2. tx' = tx /\ tx[r] = Closed
    BY <1>13 DEF StartQuiz, StartSession, SubmitAnswer, LoadSession, Free
  <2>3. CASE q = r
    <3>1. req'[r].pc = pc
      BY <1>1, <2>1 DEF Serve, SessionTypes
    <3>. QED
      BY <1>5, <2>2, <2>3, <3>1 DEF Starting
  <2>. QED
    BY <1>6, <2>1, <2>2, <2>3
<1>14. ASSUME NEW s \in Questions, Expire(s) \/ FindExpired(s)
       PROVE  Bound(q)'
  BY <1>3, <1>14 DEF Expire, FindExpired
<1>15. ASSUME NEW r \in Requests, UpsertRow(r), UNCHANGED quizVars
       PROVE  Bound(q)'
  <2>1. tx[r] \in Selected /\ req' = req
    BY <1>1, <1>15, UpsertRowSteps
  <2>2. PICK sm, n : tx' = [tx EXCEPT ![r] = [pc |-> "written", key |-> tx[r].key, rating |-> tx[r].rating,
                                              sm |-> sm, due |-> n]]
    BY <1>1, <1>15, UpsertRowSteps DEF Upserts
  <2>3. CASE q # r
    BY <1>1, <1>3, <2>1, <2>2, <2>3 DEF TxTypes
  <2>4. CASE q = r
    <3>1. tx'[r].pc = "written" /\ tx'[r].key = tx[r].key
      BY <1>1, <2>2 DEF TxTypes
    <3>2. tx[r] # Closed /\ tx'[r] # Closed
      BY <2>1, <3>1 DEF Selected, Closed
    <3>. QED
      BY <1>2, <2>1, <2>4, <3>1, <3>2 DEF Bound
  <2>. QED
    BY <2>3, <2>4
<1>16. ASSUME NEW r \in Requests, NEW d \in Decks, NEW c \in Cards, NEW x \in Ratings,
              Free(r), Review(r, <<d, c>>, x), UNCHANGED quizVars
       PROVE  Bound(q)'
  <2>. DEFINE key == <<d, c>>
              sm == IF rows[key] = NoRow THEN Fresh ELSE rows[key].sm
  <2>1. /\ tx' = [tx EXCEPT ![r] = [pc |-> "read", key |-> key, rating |-> x, sm |-> sm]]
        /\ req[r] = Idle /\ req' = req
    BY <1>16 DEF Review, SelectRow, Free
  <2>. HIDE DEF sm
  <2>2. tx \in [Requests -> {Closed} \cup Selected \cup Written]
    BY <1>1 DEF TxTypes
  <2>3. CASE q # r
    BY <1>3, <2>1, <2>2, <2>3
  <2>4. CASE q = r
    <3>1. tx'[r].key[2] = c
      BY <2>1, <2>2
    <3>. QED
      BY <2>1, <2>4, <3>1 DEF Bound, Idle, Starting
  <2>. QED
    BY <2>3, <2>4
<1>17. ASSUME NewRevision \/ NextDay \/ (\E x \in Documents, cards \in SUBSET Cards : GenerateFlashcards(x, cards)),
              UNCHANGED quizVars
       PROVE  Bound(q)'
  BY <1>3, <1>17 DEF NewRevision, NextDay, GenerateFlashcards
<1>18. ASSUME UNCHANGED vars
       PROVE  Bound(q)'
  BY <1>3, <1>18 DEF vars
<1>. HIDE DEF quizVars, studyVars
<1>. QED
  BY <1>8, <1>9, <1>10, <1>11, <1>12, <1>13, <1>14, <1>15, <1>16, <1>17, <1>18 DEF Next

\* What becomes of the session s.
Kept(s) == store'[s] = store[s]

Opens(r, s) ==
  /\ req[r].pc = "generating" /\ req[r].session = s /\ req[r].deck \in Decks
  /\ store'[s] = [deck |-> req[r].deck, row |-> "open", expired |-> FALSE]

Proceeds(s) ==
  /\ store[s].row # "none"
  /\ store'[s].row # "none" /\ store'[s].deck = store[s].deck
  /\ store[s].row = "gone" => store'[s].row = "gone"
  /\ store[s].expired => store'[s].expired

LEMMA StoreSteps ==
  ASSUME TypeOK, LinkedInv, [Next]_vars, NEW s \in Questions
  PROVE  Kept(s) \/ Proceeds(s) \/ \E r \in Requests : Opens(r, s) /\ CreateSession(r)
<1>1. Counters /\ TxTypes /\ SessionTypes
  BY TypeParts
<1>. USE DEF quizVars, studyVars
<1>2. ASSUME NEW x \in Questions, Delete(x), store[x].row # "none"
      PROVE  Kept(s) \/ Proceeds(s)
  <2>1. store[x] \in Sessions
    BY <1>1 DEF SessionTypes
  <2>2. store'[x] = [store[x] EXCEPT !.row = "gone"]
    BY <1>1, <1>2 DEF Delete, SessionTypes
  <2>3. store'[x].row = "gone" /\ store'[x].deck = store[x].deck /\ store'[x].expired = store[x].expired
    BY <2>1, <2>2 DEF Sessions
  <2>4. CASE s = x
    BY <1>2, <2>3, <2>4 DEF Proceeds
  <2>5. CASE s # x
    BY <1>1, <1>2, <2>5 DEF Delete, SessionTypes, Kept
  <2>. QED
    BY <2>4, <2>5
<1>3. ASSUME NEW x \in Questions, Expire(x)
      PROVE  Kept(s) \/ Proceeds(s)
  <2>1. store[x] \in Sessions /\ store[x].row = "open"
    BY <1>1, <1>3 DEF SessionTypes, Expire
  <2>2. store'[x] = [store[x] EXCEPT !.expired = TRUE]
    BY <1>1, <1>3 DEF Expire, SessionTypes
  <2>3. store'[x].row = "open" /\ store'[x].deck = store[x].deck /\ store'[x].expired
    BY <2>1, <2>2 DEF Sessions
  <2>4. CASE s = x
    BY <2>1, <2>3, <2>4 DEF Proceeds
  <2>5. CASE s # x
    BY <1>1, <1>3, <2>5 DEF Expire, SessionTypes, Kept
  <2>. QED
    BY <2>4, <2>5
<1>4. ASSUME NEW x \in Questions, FindExpired(x)
      PROVE  Kept(s) \/ Proceeds(s)
  BY <1>2, <1>4 DEF FindExpired
<1>5. ASSUME NEW r \in Requests, DeleteSession(r)
      PROVE  Kept(s) \/ Proceeds(s)
  <2>1. req[r].pc = "grading" /\ Delete(req[r].session)
    BY <1>5 DEF DeleteSession
  <2>2. req[r].session \in Questions
    BY <1>1, <2>1, ReqCases DEF Idle
  <2>3. store[req[r].session].row # "none"
    BY <2>1 DEF LinkedInv, Lives, Answering
  <2>. QED
    BY <1>2, <2>1, <2>2, <2>3
<1>6. ASSUME NEW r \in Requests, CreateSession(r)
      PROVE  Kept(s) \/ Opens(r, s)
  <2>1. /\ req[r].pc = "generating"
        /\ store' = [store EXCEPT ![req[r].session] =
                       [deck |-> req[r].deck, row |-> "open", expired |-> FALSE]]
    BY <1>6 DEF CreateSession
  <2>2. req[r].session \in Questions /\ req[r].deck \in Decks
    BY <1>1, <2>1, ReqCases DEF Idle
  <2>. QED
    BY <1>1, <2>1, <2>2 DEF SessionTypes, Kept, Opens
<1>7. ASSUME NEW r \in Requests, GenerationFails(r) \/ CommitStart(r) \/ EvaluationFails(r)
                                 \/ Commit(r) \/ CutOff(r) \/ \E n \in RawScores : Grade(r, n)
      PROVE  Kept(s)
  BY <1>7 DEF GenerationFails, CommitStart, EvaluationFails, Commit, CutOff, Grade, Kept
<1>8. ASSUME NEW r \in Requests, NEW d \in Decks, NEW x \in Questions,
             StartQuiz(r, d, x) \/ SubmitAnswer(r, d, x)
      PROVE  Kept(s)
  BY <1>8 DEF StartQuiz, StartSession, SubmitAnswer, LoadSession, Kept
<1>9. ASSUME UNCHANGED quizVars \/ UNCHANGED vars
      PROVE  Kept(s)
  BY <1>9 DEF vars, Kept
<1>. HIDE DEF quizVars, studyVars
<1>. QED
  BY <1>3, <1>4, <1>5, <1>6, <1>7, <1>8, <1>9 DEF Next

LEMMA LivesFrame ==
  ASSUME TypeOK, LinkedInv, [Next]_vars, NEW q \in Requests, req'[q] = req[q]
  PROVE  Lives(q)' \/ (req[q].pc = "generating" /\ CreateSession(q))
<1>1. SessionTypes
  BY TypeParts
<1>2. CASE req[q] = Idle
  BY <1>2 DEF Lives, Idle, Answering
<1>3. CASE req[q] # Idle
  <2>. DEFINE s == req[q].session
  <2>1. s \in Questions
    BY <1>1, <1>3, ReqCases
  <2>2. Lives(q)
    BY DEF LinkedInv
  <2>3. CASE Kept(s)
    BY <2>2, <2>3 DEF Kept, Lives
  <2>4. CASE Proceeds(s)
    BY <2>2, <2>4 DEF Proceeds, Lives
  <2>5. ASSUME NEW r \in Requests, Opens(r, s), CreateSession(r)
        PROVE  Lives(q)' \/ (req[q].pc = "generating" /\ CreateSession(q))
    <3>1. store[s].row = "none"
      BY <2>5 DEF LinkedInv, Lives, Opens
    <3>2. req[q].pc = "generating" => q = r
      BY <2>5 DEF Opens, LinkedInv, OneStarts
    <3>. QED
      BY <2>2, <2>5, <3>1, <3>2 DEF Lives
  <2>. HIDE DEF s
  <2>. QED
    BY <2>1, <2>3, <2>4, <2>5, StoreSteps
<1>. QED
  BY <1>2, <1>3

\* What becomes of what the request q serves: nothing, it ends, or it moves on.
Starts(q) ==
  \E s \in Questions, d \in Decks :
    /\ req[q] = Idle /\ req' = [req EXCEPT ![q] = [pc |-> "generating", session |-> s, deck |-> d]]
    /\ store[s].row = "none" /\ On(s, Starting) = {} /\ store' = store

Loads(q) ==
  \E s \in Questions, d \in Decks :
    /\ req[q] = Idle /\ req' = [req EXCEPT ![q] = [pc |-> "evaluating", session |-> s, deck |-> d]]
    /\ store[s].row = "open" /\ store[s].deck = d /\ store' = store /\ log' = log
    /\ rushed' = IF On(s, Answering) = {} THEN rushed ELSE rushed \cup {s}

Moves(q, pc, next) ==
  /\ req[q].pc = pc /\ req[q] \in Serving /\ req'[q] = [req[q] EXCEPT !.pc = next]

LEMMA ReqSteps ==
  ASSUME TypeOK, [Next]_vars, NEW q \in Requests
  PROVE  \/ req'[q] = req[q]
         \/ req'[q] = Idle
         \/ Starts(q) \/ Loads(q)
         \/ Moves(q, "generating", "asked") /\ CreateSession(q)
         \/ Moves(q, "evaluating", "grading") /\ store' = store
         \/ Moves(q, "grading", "answered") /\ DeleteSession(q)
<1>1. SessionTypes
  BY TypeParts
<1>. USE DEF quizVars, studyVars
<1>2. ASSUME NEW r \in Requests, req' = [req EXCEPT ![r] = Idle]
      PROVE  req'[q] = req[q] \/ req'[q] = Idle
  BY <1>1, <1>2 DEF SessionTypes
<1>3. ASSUME NEW r \in Requests, NEW pc, NEW next, Go(r, next), req[r].pc = pc, pc # "idle"
      PROVE  req'[q] = req[q] \/ (q = r /\ Moves(r, pc, next))
  <2>1. req[r] \in Serving
    BY <1>1, <1>3, ReqCases
  <2>2. req' = [req EXCEPT ![r] = [req[r] EXCEPT !.pc = next]]
    BY <1>3 DEF Go
  <2>3. req'[r] = [req[r] EXCEPT !.pc = next]
    BY <1>1, <2>2 DEF SessionTypes
  <2>4. Moves(r, pc, next)
    BY <1>3, <2>1, <2>3 DEF Moves
  <2>. QED
    BY <1>1, <2>2, <2>4 DEF SessionTypes
<1>4. ASSUME NEW r \in Requests, GenerationFails(r) \/ EvaluationFails(r) \/ CommitStart(r)
                                 \/ Commit(r) \/ CutOff(r)
      PROVE  req'[q] = req[q] \/ req'[q] = Idle
  BY <1>2, <1>4 DEF GenerationFails, EvaluationFails, CommitStart, Commit, CutOff
<1>5. ASSUME NEW r \in Requests, CreateSession(r)
      PROVE  req'[q] = req[q] \/ (Moves(q, "generating", "asked") /\ CreateSession(q))
  <2>1. req[r].pc = "generating" /\ Go(r, "asked")
    BY <1>5 DEF CreateSession
  <2>2. req'[q] = req[q] \/ (q = r /\ Moves(r, "generating", "asked"))
    BY <1>3, <2>1
  <2>. QED
    BY <1>5, <2>2
<1>6. ASSUME NEW r \in Requests, DeleteSession(r)
      PROVE  req'[q] = req[q] \/ (Moves(q, "grading", "answered") /\ DeleteSession(q))
  <2>1. req[r].pc = "grading" /\ Go(r, "answered")
    BY <1>6 DEF DeleteSession
  <2>2. req'[q] = req[q] \/ (q = r /\ Moves(r, "grading", "answered"))
    BY <1>3, <2>1
  <2>. QED
    BY <1>6, <2>2
<1>7. ASSUME NEW r \in Requests, NEW n \in RawScores, Grade(r, n)
      PROVE  req'[q] = req[q] \/ (Moves(q, "evaluating", "grading") /\ store' = store)
  <2>1. req[r].pc = "evaluating" /\ Go(r, "grading") /\ store' = store
    BY <1>7 DEF Grade
  <2>2. req'[q] = req[q] \/ (q = r /\ Moves(r, "evaluating", "grading"))
    BY <1>3, <2>1
  <2>. QED
    BY <2>1, <2>2
<1>8. ASSUME NEW r \in Requests, NEW d \in Decks, NEW s \in Questions, StartQuiz(r, d, s)
      PROVE  req'[q] = req[q] \/ Starts(q)
  <2>1. CASE q = r
    BY <1>8, <2>1 DEF StartQuiz, StartSession, Serve, Free, Starts
  <2>2. CASE q # r
    BY <1>1, <1>8, <2>2 DEF StartQuiz, StartSession, Serve, SessionTypes
  <2>. QED
    BY <2>1, <2>2
<1>9. ASSUME NEW r \in Requests, NEW d \in Decks, NEW s \in Questions, SubmitAnswer(r, d, s)
      PROVE  req'[q] = req[q] \/ Loads(q)
  <2>1. CASE q = r
    BY <1>9, <2>1 DEF SubmitAnswer, LoadSession, Serve, Free, Loads
  <2>2. CASE q # r
    BY <1>1, <1>9, <2>2 DEF SubmitAnswer, LoadSession, Serve, SessionTypes
  <2>. QED
    BY <2>1, <2>2
<1>10. ASSUME NEW s \in Questions, Expire(s) \/ FindExpired(s)
       PROVE  req'[q] = req[q]
  BY <1>10 DEF Expire, FindExpired
<1>11. ASSUME UNCHANGED quizVars \/ UNCHANGED vars
       PROVE  req'[q] = req[q]
  BY <1>11 DEF vars
<1>. HIDE DEF quizVars, studyVars
<1>. QED
  BY <1>4, <1>5, <1>6, <1>7, <1>8, <1>9, <1>10, <1>11 DEF Next

LEMMA LivesStep ==
  ASSUME TypeOK, LinkedInv, [Next]_vars, NEW q \in Requests
  PROVE  Lives(q)'
<1>1. SessionTypes /\ SessionTypes'
  BY TypeParts, StepTypes DEF TypeOK, StudyTypeOK, SessionTypes, Serving, Sessions
<1>2. Lives(q)
  BY DEF LinkedInv
<1>3. CASE req'[q] = Idle
  BY <1>3 DEF Lives, Idle, Answering
<1>4. CASE Starts(q)
  <2>1. PICK s \in Questions, d \in Decks :
          /\ req' = [req EXCEPT ![q] = [pc |-> "generating", session |-> s, deck |-> d]]
          /\ store[s].row = "none" /\ store' = store
    BY <1>4 DEF Starts
  <2>2. req'[q].pc = "generating" /\ req'[q].session = s
    BY <1>1, <2>1 DEF SessionTypes
  <2>. QED
    BY <2>1, <2>2 DEF Lives, Answering
<1>5. CASE Loads(q)
  <2>1. PICK s \in Questions, d \in Decks :
          /\ req' = [req EXCEPT ![q] = [pc |-> "evaluating", session |-> s, deck |-> d]]
          /\ store[s].row = "open" /\ store[s].deck = d /\ store' = store
    BY <1>5 DEF Loads
  <2>2. req'[q].pc = "evaluating" /\ req'[q].session = s /\ req'[q].deck = d
    BY <1>1, <2>1 DEF SessionTypes
  <2>. QED
    BY <2>1, <2>2 DEF Lives
<1>6. ASSUME Moves(q, "generating", "asked")
      PROVE  Lives(q)'
  <2>1. req'[q].pc = "asked"
    BY <1>6 DEF Moves, Serving
  <2>. QED
    BY <2>1 DEF Lives, Answering
<1>7. ASSUME Moves(q, "evaluating", "grading"), store' = store
      PROVE  Lives(q)'
  <2>1. req'[q].pc = "grading" /\ req'[q].session = req[q].session /\ req'[q].deck = req[q].deck
        /\ req[q].pc = "evaluating"
    BY <1>7 DEF Moves, Serving
  <2>. QED
    BY <1>2, <1>7, <2>1 DEF Lives, Answering
<1>8. ASSUME Moves(q, "grading", "answered"), DeleteSession(q)
      PROVE  Lives(q)'
  <2>1. req'[q].pc = "answered" /\ req'[q].session = req[q].session /\ req'[q].deck = req[q].deck
        /\ req[q].pc = "grading" /\ req[q].session \in Questions
    BY <1>8 DEF Moves, Serving
  <2>2. store'[req[q].session] = [store[req[q].session] EXCEPT !.row = "gone"]
    BY <1>1, <1>8, <2>1 DEF DeleteSession, Delete, SessionTypes
  <2>3. store[req[q].session] \in Sessions
    BY <1>1, <2>1 DEF SessionTypes
  <2>4. store'[req[q].session].row = "gone" /\ store'[req[q].session].deck = store[req[q].session].deck
    BY <2>2, <2>3 DEF Sessions
  <2>. QED
    BY <1>2, <2>1, <2>4 DEF Lives, Answering
<1>9. CASE req'[q] = req[q]
  <2>1. ASSUME req[q].pc = "generating", CreateSession(q)
        PROVE  FALSE
    <3>1. req[q] \in Serving /\ req'[q] = [req[q] EXCEPT !.pc = "asked"]
      BY <1>1, <2>1, ReqCases DEF CreateSession, Go, SessionTypes, Idle
    <3>2. req'[q].pc = "asked"
      BY <3>1 DEF Serving
    <3>. QED
      BY <1>9, <2>1, <3>2
  <2>. QED
    BY <1>9, <2>1, LivesFrame
<1>. QED
  BY <1>3, <1>4, <1>5, <1>6, <1>7, <1>8, <1>9, ReqSteps

LEMMA OneStartsStep ==
  ASSUME TypeOK, LinkedInv, [Next]_vars
  PROVE  OneStarts'
<1>. SUFFICES ASSUME NEW r \in Requests, NEW q \in Requests,
                     req'[r].pc = "generating", req'[q].pc = "generating",
                     req'[r].session = req'[q].session, r # q
              PROVE  FALSE
  BY DEF OneStarts
<1>1. SessionTypes
  BY TypeParts
<1>2. ASSUME NEW x \in Requests, req'[x].pc = "generating"
      PROVE  req'[x] = req[x] \/ Starts(x)
  <2>1. ~Loads(x)
    BY <1>1, <1>2 DEF Loads, SessionTypes
  <2>2. ~(req'[x] = Idle)
    BY <1>2 DEF Idle
  <2>3. ~Moves(x, "generating", "asked") /\ ~Moves(x, "evaluating", "grading")
        /\ ~Moves(x, "grading", "answered")
    BY <1>2 DEF Moves, Serving
  <2>. QED
    BY <2>1, <2>2, <2>3, ReqSteps
<1>3. ASSUME NEW x \in Requests, NEW y \in Requests, x # y, Starts(x),
             req'[x].session = req'[y].session, req'[y].pc = "generating"
      PROVE  FALSE
  <2>1. PICK s \in Questions, d \in Decks :
          /\ req' = [req EXCEPT ![x] = [pc |-> "generating", session |-> s, deck |-> d]]
          /\ On(s, Starting) = {}
    BY <1>3 DEF Starts
  <2>. DEFINE t == [pc |-> "generating", session |-> s, deck |-> d]
  <2>2. req'[x] = t /\ req'[y] = req[y]
    BY <1>1, <1>3, <2>1 DEF SessionTypes
  <2>3. y \in On(s, Starting)
    <3>1. t.session = s
      OBVIOUS
    <3>. HIDE DEF t
    <3>2. req[y].pc = "generating" /\ req[y].session = s
      BY <1>3, <2>2, <3>1
    <3>. QED
      BY <3>2 DEF On, Idle, Starting
  <2>. QED
    BY <2>1, <2>3
<1>4. CASE Starts(r)
  BY <1>3, <1>4
<1>5. CASE Starts(q)
  BY <1>3, <1>5
<1>6. CASE req'[r] = req[r] /\ req'[q] = req[q]
  BY <1>6 DEF LinkedInv, OneStarts
<1>. QED
  BY <1>2, <1>4, <1>5, <1>6

LEMMA LinkedInvariant == Spec => [](TypeOK /\ LinkedInv)
<1>1. Init => TypeOK /\ LinkedInv
  <2>1. Init => TypeOK
    BY StudyAssumption DEF StudyAssumption, Init, StudyInit, TypeOK, StudyTypeOK, Documents, Keys
  <2>2. Init => LinkedInv
    BY DEF Init, StudyInit, LinkedInv, OneStarts, Bound, Lives, Idle, Starting, Answering
  <2>. QED
    BY <2>1, <2>2
<1>2. TypeOK /\ LinkedInv /\ [Next]_vars => (TypeOK /\ LinkedInv)'
  BY StepTypes, BoundStep, LivesStep, OneStartsStep DEF LinkedInv
<1>. QED
  BY <1>1, <1>2, PTL DEF Spec

-----------------------------------------------------------------------------
(* Answers.                                                                 *)

Opened(s) ==
  /\ store[s].row = "none" => store[s].deck = None
  /\ store[s].row # "none" => store[s].deck \in Decks
  /\ store[s].row # "gone" => \A d \in Decks : log[<<d, s>>] = <<>>

LogsAnswer(r, d, s) ==
  /\ Commit(r)
  /\ req[r].pc = "answered" /\ req[r].session = s /\ req[r].deck = d
  /\ Len(log'[<<d, s>>]) = Len(log[<<d, s>>]) + 1

\* Only a request that has used up the session adds to the log of its question.
LEMMA LogSteps ==
  ASSUME TypeOK, LinkedInv, [Next]_vars, NEW d \in Decks, NEW s \in Questions
  PROVE  \/ log'[<<d, s>>] = log[<<d, s>>]
         \/ \E r \in Requests : LogsAnswer(r, d, s)
<1>1. TxTypes /\ SessionTypes /\ StudyTypeOK
  BY TypeParts DEF TypeOK
<1>. USE DEF quizVars, studyVars
<1>2. ASSUME NEW r \in Requests, Commit(r), log'[<<d, s>>] # log[<<d, s>>]
      PROVE  LogsAnswer(r, d, s)
  <2>1. tx[r] \in Written /\ log' = [log EXCEPT ![tx[r].key] = Append(@, tx[r].rating)]
    BY <1>1, <1>2, CommitReviewTypes DEF Commit, CommitReview
  <2>2. tx[r].key \in Keys /\ tx[r] # Closed
    BY <2>1 DEF Written, Closed
  <2>3. tx[r].key = <<d, s>>
    BY <1>1, <1>2, <2>1 DEF TxTypes, Keys
  <2>4. req[r] # Idle
    <3>1. req[r] = Idle => tx[r].key[2] \in Cards
      BY <2>2 DEF LinkedInv, Bound
    <3>2. tx[r].key[2] = s
      BY <2>3
    <3>. QED
      BY <3>1, <3>2, StudyAssumption DEF StudyAssumption
  <2>5. req[r].pc = "answered"
    BY <1>1, <1>2, <2>4, ReqCases DEF Commit
  <2>6. tx[r].key = <<req[r].deck, req[r].session>>
    BY <2>5 DEF LinkedInv, Bound
  <2>7. req[r].session = s /\ req[r].deck = d
    BY <2>3, <2>6
  <2>8. log[<<d, s>>] \in Seq(0 .. 5) /\ log'[<<d, s>>] = Append(log[<<d, s>>], tx[r].rating)
    BY <1>1, <2>1, <2>2, <2>3 DEF TxTypes
  <2>9. Len(log'[<<d, s>>]) = Len(log[<<d, s>>]) + 1
    BY <2>8
  <2>. QED
    BY <1>2, <2>5, <2>7, <2>9 DEF LogsAnswer
<1>3. ASSUME NEW r \in Requests, GenerationFails(r) \/ CreateSession(r) \/ CommitStart(r)
                                 \/ EvaluationFails(r) \/ DeleteSession(r) \/ CutOff(r)
                                 \/ UpsertRow(r) \/ \E n \in RawScores : Grade(r, n)
      PROVE  log' = log
  BY <1>3 DEF GenerationFails, CreateSession, CommitStart, EvaluationFails, DeleteSession, CutOff,
              UpsertRow, Grade
<1>4. ASSUME NEW r \in Requests, NEW x \in Decks, NEW y \in Questions,
             StartQuiz(r, x, y) \/ SubmitAnswer(r, x, y)
      PROVE  log' = log
  BY <1>4 DEF StartQuiz, StartSession, SubmitAnswer, LoadSession
<1>5. ASSUME NEW y \in Questions, Expire(y) \/ FindExpired(y)
      PROVE  log' = log
  BY <1>5 DEF Expire, FindExpired
<1>6. ASSUME \/ NewRevision
             \/ \E x \in Documents, cards \in SUBSET Cards : GenerateFlashcards(x, cards)
             \/ NextDay
             \/ \E r \in Requests, x \in Decks, c \in Cards, q \in Ratings : Review(r, <<x, c>>, q)
             \/ UNCHANGED vars
      PROVE  log' = log
  BY <1>6 DEF NewRevision, GenerateFlashcards, NextDay, Review, vars
<1>. HIDE DEF quizVars, studyVars
<1>. QED
  BY <1>2, <1>3, <1>4, <1>5, <1>6 DEF Next

LEMMA OpenedStep ==
  ASSUME TypeOK, LinkedInv, [Next]_vars, NEW s \in Questions, Opened(s)
  PROVE  Opened(s)'
<1>1. ASSUME store[s].row # "gone", NEW d \in Decks
      PROVE  log'[<<d, s>>] = <<>>
  <2>1. ASSUME NEW r \in Requests, LogsAnswer(r, d, s)
        PROVE  FALSE
    BY <1>1, <2>1 DEF LogsAnswer, LinkedInv, Lives
  <2>. QED
    BY <1>1, <2>1, LogSteps DEF Opened
<1>2. CASE Kept(s)
  BY <1>1, <1>2 DEF Kept, Opened
<1>3. CASE Proceeds(s)
  BY <1>1, <1>3 DEF Proceeds, Opened
<1>4. ASSUME NEW r \in Requests, Opens(r, s)
      PROVE  Opened(s)'
  <2>1. store[s].row = "none"
    BY <1>4 DEF Opens, LinkedInv, Lives
  <2>. QED
    BY <1>1, <1>4, <2>1 DEF Opens, Opened
<1>. QED
  BY <1>2, <1>3, <1>4, StoreSteps

\* The answers of a session and its submissions in flight.
Counted(s) ==
  Answers(s) + Cardinality(On(s, Answering)) <= IF s \in rushed THEN Cardinality(Requests) ELSE 1

LEMMA InFlightFinite ==
  ASSUME NEW s
  PROVE  /\ IsFiniteSet(On(s, Answering)) /\ Cardinality(On(s, Answering)) \in Nat
         /\ Cardinality(On(s, Answering)) <= Cardinality(Requests) /\ Cardinality(Requests) \in Nat
<1>1. On(s, Answering) \subseteq Requests
  BY DEF On
<1>2. IsFiniteSet(Requests)
  BY StudyAssumption DEF StudyAssumption
<1>. QED
  BY <1>1, <1>2, FS_Subset, FS_CardinalityType

LEMMA AnswersType ==
  ASSUME TypeOK, NEW s \in Questions
  PROVE  Answers(s) \in Nat
<1>1. SessionTypes /\ TxTypes
  BY TypeParts
<1>2. store[s].deck \in Decks \cup {None}
  BY <1>1 DEF SessionTypes, Sessions
<1>3. store[s].deck \in Decks => log[<<store[s].deck, s>>] \in Seq(0 .. 5)
  BY <1>1 DEF TxTypes, Keys
<1>. QED
  BY <1>2, <1>3 DEF Answers

LEMMA RushedGrows ==
  ASSUME [Next]_vars
  PROVE  /\ rushed \subseteq rushed'
         /\ rushed' = rushed \/ Requests # {}
<1>. USE DEF quizVars, studyVars
<1>1. ASSUME NEW r \in Requests, GenerationFails(r) \/ CreateSession(r) \/ CommitStart(r)
                                 \/ EvaluationFails(r) \/ DeleteSession(r) \/ CutOff(r) \/ Commit(r)
                                 \/ \E n \in RawScores : Grade(r, n)
      PROVE  rushed' = rushed
  BY <1>1 DEF GenerationFails, CreateSession, CommitStart, EvaluationFails, DeleteSession, CutOff,
              Commit, Grade
<1>2. ASSUME NEW r \in Requests, NEW d \in Decks, NEW s \in Questions,
             StartQuiz(r, d, s) \/ SubmitAnswer(r, d, s)
      PROVE  rushed \subseteq rushed'
  BY <1>2 DEF StartQuiz, StartSession, SubmitAnswer, LoadSession
<1>3. ASSUME NEW s \in Questions, Expire(s) \/ FindExpired(s)
      PROVE  rushed' = rushed
  BY <1>3 DEF Expire, FindExpired
<1>4. ASSUME UNCHANGED quizVars \/ UNCHANGED vars
      PROVE  rushed' = rushed
  BY <1>4 DEF vars
<1>. HIDE DEF quizVars, studyVars
<1>. QED
  BY <1>1, <1>2, <1>3, <1>4 DEF Next

\* A submission more is in flight only if the session could be loaded.
LoadedBy(q, s) ==
  /\ q \in Requests \ On(s, Answering)
  /\ On(s, Answering)' = On(s, Answering) \cup {q}
  /\ store[s].row = "open" /\ store' = store /\ log' = log
  /\ rushed' = IF On(s, Answering) = {} THEN rushed ELSE rushed \cup {s}

LEMMA InFlightSteps ==
  ASSUME TypeOK, [Next]_vars, NEW s \in Questions
  PROVE  On(s, Answering)' \subseteq On(s, Answering) \/ \E q \in Requests : LoadedBy(q, s)
<1>1. SessionTypes
  BY TypeParts
<1>. SUFFICES ASSUME NEW q \in On(s, Answering)', q \notin On(s, Answering)
              PROVE  LoadedBy(q, s)
  BY DEF On
<1>2. q \in Requests /\ req'[q] # Idle /\ req'[q].session = s /\ req'[q].pc \in Answering
  BY DEF On
<1>3. req'[q] # req[q]
  BY <1>2 DEF On
<1>4. ~Starts(q)
  BY <1>1, <1>2 DEF Starts, SessionTypes, Answering
<1>5. ~Moves(q, "generating", "asked")
  BY <1>2 DEF Moves, Serving, Answering
<1>6. ASSUME NEW pc \in Answering, NEW next \in Answering, Moves(q, pc, next)
      PROVE  FALSE
  <2>1. req[q].session = s /\ req[q].pc \in Answering
    BY <1>2, <1>6 DEF Moves, Serving
  <2>2. req[q] # Idle
    BY <2>1 DEF Idle, Answering
  <2>. QED
    BY <1>2, <2>1, <2>2 DEF On
<1>7. Loads(q)
  BY <1>2, <1>3, <1>4, <1>5, <1>6, ReqSteps DEF Answering
<1>8. PICK x \in Questions, d \in Decks :
        /\ req' = [req EXCEPT ![q] = [pc |-> "evaluating", session |-> x, deck |-> d]]
        /\ store[x].row = "open" /\ store' = store /\ log' = log
        /\ rushed' = IF On(x, Answering) = {} THEN rushed ELSE rushed \cup {x}
  BY <1>7 DEF Loads
<1>9. x = s
  BY <1>1, <1>2, <1>8 DEF SessionTypes
<1>10. \A y \in Requests : y # q => req'[y] = req[y]
  BY <1>1, <1>8 DEF SessionTypes
<1>11. On(s, Answering)' = On(s, Answering) \cup {q}
  BY <1>2, <1>10 DEF On
<1>. QED
  BY <1>2, <1>8, <1>9, <1>11 DEF LoadedBy

\* The number of answers of s changes only when one is committed.
LEMMA AnswersSteps ==
  ASSUME TypeOK, LinkedInv, [Next]_vars, NEW s \in Questions, Opened(s)
  PROVE  \/ Answers(s)' = Answers(s)
         \/ \E r \in Requests : /\ Commit(r) /\ req[r].pc = "answered" /\ req[r].session = s
                                /\ store' = store /\ Answers(s)' = Answers(s) + 1
<1>1. SessionTypes /\ TxTypes
  BY TypeParts
<1>2. ASSUME Kept(s) \/ Proceeds(s), store[s].row # "none"
      PROVE  \/ Answers(s)' = Answers(s)
             \/ \E r \in Requests : /\ Commit(r) /\ req[r].pc = "answered" /\ req[r].session = s
                                    /\ store' = store /\ Answers(s)' = Answers(s) + 1
  <2>. DEFINE d == store[s].deck
  <2>1. store'[s].deck = d /\ d \in Decks /\ d # None
    BY <1>2, QuizAssumption DEF Kept, Proceeds, Opened, QuizAssumption
  <2>2. Answers(s) = Len(log[<<d, s>>]) /\ Answers(s)' = Len(log'[<<d, s>>])
    BY <2>1 DEF Answers
  <2>. HIDE DEF d
  <2>3. CASE log'[<<d, s>>] = log[<<d, s>>]
    BY <2>2, <2>3
  <2>4. ASSUME NEW r \in Requests, LogsAnswer(r, d, s)
        PROVE  /\ Commit(r) /\ req[r].pc = "answered" /\ req[r].session = s
               /\ store' = store /\ Answers(s)' = Answers(s) + 1
    BY <2>2, <2>4 DEF LogsAnswer, Commit
  <2>. QED
    BY <2>1, <2>3, <2>4, LogSteps
<1>3. ASSUME NEW d \in Decks, store[s].row = "none"
      PROVE  log[<<d, s>>] = <<>> /\ log'[<<d, s>>] = <<>>
  <2>1. log[<<d, s>>] = <<>>
    BY <1>3 DEF Opened
  <2>2. ASSUME NEW r \in Requests, LogsAnswer(r, d, s)
        PROVE  FALSE
    BY <1>3, <2>2 DEF LogsAnswer, LinkedInv, Lives
  <2>. QED
    BY <2>1, <2>2, LogSteps
<1>4. CASE store[s].row = "none"
  <2>1. Answers(s) = 0
    BY <1>4 DEF Opened, Answers
  <2>2. store'[s].deck \in Decks \cup {None}
    <3>1. CASE Kept(s)
      BY <1>1, <3>1 DEF Kept, SessionTypes, Sessions
    <3>2. ASSUME NEW r \in Requests, Opens(r, s)
          PROVE  store'[s].deck \in Decks
      BY <3>2 DEF Opens
    <3>. QED
      BY <1>4, <3>1, <3>2, StoreSteps DEF Proceeds
  <2>3. Answers(s)' = 0
    BY <1>3, <1>4, <2>2 DEF Answers
  <2>. QED
    BY <2>1, <2>3
<1>5. CASE store[s].row # "none"
  <2>1. ASSUME NEW r \in Requests, Opens(r, s)
        PROVE  FALSE
    BY <1>5, <2>1 DEF Opens, LinkedInv, Lives
  <2>. QED
    BY <1>2, <1>5, <2>1, StoreSteps
<1>. QED
  BY <1>4, <1>5

LEMMA CountedStep ==
  ASSUME TypeOK, LinkedInv, [Next]_vars, NEW s \in Questions, Opened(s), Counted(s)
  PROVE  Counted(s)'
<1>. DEFINE c == Cardinality(On(s, Answering))
            cc == Cardinality(On(s, Answering)')
            bound == Cardinality(Requests)
            n == Answers(s)
            nn == Answers(s)'
<1>1. SessionTypes
  BY TypeParts
<1>2. n \in Nat
  BY AnswersType
<1>3. c \in Nat /\ bound \in Nat /\ IsFiniteSet(On(s, Answering))
  BY InFlightFinite
<1>4. n + c <= IF s \in rushed THEN bound ELSE 1
  BY DEF Counted
<1>5. cc \in Nat /\ cc <= bound
  <2>1. On(s, Answering)' \subseteq Requests
    BY DEF On
  <2>2. IsFiniteSet(Requests)
    BY StudyAssumption DEF StudyAssumption
  <2>. QED
    BY <2>1, <2>2, FS_Subset, FS_CardinalityType
<1>6. SUFFICES nn + cc <= IF s \in rushed' THEN bound ELSE 1
  BY DEF Counted
<1>7. (s \in rushed => s \in rushed') /\ (s \in rushed' => s \in rushed \/ bound >= 1)
  <2>1. IsFiniteSet(Requests)
    BY StudyAssumption DEF StudyAssumption
  <2>2. Requests # {} => bound # 0
    BY <2>1, FS_EmptySet
  <2>. HIDE DEF bound
  <2>. QED
    BY <1>3, <2>2, RushedGrows
<1>8. On(s, Answering)' \subseteq On(s, Answering) => cc <= c
  BY <1>3, FS_Subset
<1>9. ASSUME NEW q \in Requests, LoadedBy(q, s)
      PROVE  nn + cc <= IF s \in rushed' THEN bound ELSE 1
  <2>1. n = 0
    BY <1>1, <1>9 DEF LoadedBy, Opened, Answers
  <2>2. nn = 0
    BY <1>1, <1>9, <2>1 DEF LoadedBy, Answers
  <2>3. cc = c + 1
    BY <1>3, <1>9, FS_AddElement DEF LoadedBy
  <2>4. CASE On(s, Answering) = {}
    <3>1. c = 0 /\ rushed' = rushed
      BY <1>9, <2>4, FS_EmptySet DEF LoadedBy
    <3>. HIDE DEF n, nn, c, cc, bound
    <3>. QED
      BY <1>3, <1>5, <2>2, <2>3, <3>1
  <2>5. CASE On(s, Answering) # {}
    <3>1. s \in rushed'
      BY <1>9, <2>5 DEF LoadedBy
    <3>. HIDE DEF n, nn, c, cc, bound
    <3>. QED
      BY <1>5, <2>2, <3>1
  <2>. QED
    BY <2>4, <2>5
<1>10. ASSUME NEW r \in Requests, Commit(r), req[r].pc = "answered", req[r].session = s,
              store' = store, nn = n + 1, On(s, Answering)' \subseteq On(s, Answering)
       PROVE  nn + cc <= IF s \in rushed' THEN bound ELSE 1
  <2>1. r \in On(s, Answering)
    BY <1>10 DEF On, Idle, Answering
  <2>2. req'[r] = Idle
    BY <1>1, <1>10 DEF Commit, SessionTypes
  <2>3. r \notin On(s, Answering)'
    BY <2>2 DEF On
  <2>4. On(s, Answering)' \subseteq On(s, Answering) \ {r}
    BY <1>10, <2>3
  <2>5. /\ IsFiniteSet(On(s, Answering) \ {r})
        /\ Cardinality(On(s, Answering) \ {r}) = c - 1
    BY <1>3, <2>1, FS_RemoveElement
  <2>6. cc <= c - 1
    BY <2>4, <2>5, FS_Subset
  <2>. HIDE DEF n, nn, c, cc, bound
  <2>. QED
    BY <1>2, <1>3, <1>4, <1>5, <1>7, <1>10, <2>6
<1>11. ASSUME nn = n, On(s, Answering)' \subseteq On(s, Answering)
       PROVE  nn + cc <= IF s \in rushed' THEN bound ELSE 1
  <2>1. cc <= c
    BY <1>8, <1>11
  <2>. HIDE DEF n, nn, c, cc, bound
  <2>. QED
    BY <1>2, <1>3, <1>4, <1>5, <1>7, <1>11, <2>1
<1>. HIDE DEF n, nn, c, cc, bound
<1>12. \/ nn = n
       \/ \E r \in Requests : /\ Commit(r) /\ req[r].pc = "answered" /\ req[r].session = s
                              /\ store' = store /\ nn = n + 1
  BY AnswersSteps DEF n, nn
<1>. QED
  BY <1>9, <1>10, <1>11, <1>12, InFlightSteps

\* A session that is gone has expired, or was answered.
Accounted(s) ==
  store[s].row = "gone" =>
    store[s].expired \/ Answers(s) > 0 \/ On(s, {"answered"}) # {} \/ s \in severed

\* Who deletes a session.
LEMMA GoneSteps ==
  ASSUME TypeOK, [Next]_vars, NEW s \in Questions,
         store[s].row # "gone", store'[s].row = "gone"
  PROVE  store'[s].expired \/ On(s, {"answered"})' # {}
<1>1. SessionTypes
  BY TypeParts
<1>. USE DEF quizVars, studyVars
<1>2. ASSUME NEW r \in Requests, DeleteSession(r)
      PROVE  On(s, {"answered"})' # {}
  <2>1. req[r].pc = "grading" /\ Delete(req[r].session) /\ Go(r, "answered")
    BY <1>2 DEF DeleteSession
  <2>2. req[r] \in Serving /\ req[r].session \in Questions
    BY <1>1, <2>1, ReqCases DEF Idle
  <2>3. req[r].session = s
    BY <1>1, <2>1, <2>2 DEF Delete, SessionTypes
  <2>4. req'[r] = [req[r] EXCEPT !.pc = "answered"]
    BY <1>1, <2>1 DEF Go, SessionTypes
  <2>5. req'[r].pc = "answered" /\ req'[r].session = s
    BY <2>2, <2>3, <2>4 DEF Serving
  <2>6. r \in On(s, {"answered"})'
    BY <2>5 DEF On, Idle
  <2>. QED
    BY <2>6
<1>3. ASSUME NEW x \in Questions, FindExpired(x)
      PROVE  store'[s].expired
  <2>1. store[x].expired /\ store' = [store EXCEPT ![x].row = "gone"] /\ store[x] \in Sessions
    BY <1>1, <1>3 DEF FindExpired, Delete, SessionTypes
  <2>2. x = s
    BY <1>1, <2>1 DEF SessionTypes
  <2>3. store'[x] = [store[x] EXCEPT !.row = "gone"]
    BY <1>1, <2>1 DEF SessionTypes
  <2>. QED
    BY <2>1, <2>2, <2>3 DEF Sessions
<1>4. ASSUME NEW x \in Questions, Expire(x)
      PROVE  FALSE
  <2>1. store[x] \in Sessions /\ store' = [store EXCEPT ![x] = [store[x] EXCEPT !.expired = TRUE]]
    BY <1>1, <1>4 DEF Expire, SessionTypes
  <2>2. [store[x] EXCEPT !.expired = TRUE].row = store[x].row
    BY <2>1 DEF Sessions
  <2>. QED
    BY <1>1, <2>1, <2>2 DEF SessionTypes
<1>5. ASSUME NEW r \in Requests, CreateSession(r)
      PROVE  FALSE
  BY <1>1, <1>5 DEF CreateSession, SessionTypes
<1>6. ASSUME NEW r \in Requests, GenerationFails(r) \/ CommitStart(r) \/ EvaluationFails(r)
                                 \/ Commit(r) \/ CutOff(r) \/ \E n \in RawScores : Grade(r, n)
      PROVE  store' = store
  BY <1>6 DEF GenerationFails, CommitStart, EvaluationFails, Commit, CutOff, Grade
<1>7. ASSUME NEW r \in Requests, NEW d \in Decks, NEW x \in Questions,
             StartQuiz(r, d, x) \/ SubmitAnswer(r, d, x)
      PROVE  store' = store
  BY <1>7 DEF StartQuiz, StartSession, SubmitAnswer, LoadSession
<1>8. ASSUME UNCHANGED quizVars \/ UNCHANGED vars
      PROVE  store' = store
  BY <1>8 DEF vars
<1>. HIDE DEF quizVars, studyVars
<1>. QED
  BY <1>2, <1>3, <1>4, <1>5, <1>6, <1>7, <1>8 DEF Next

\* A request that has used up its session ends by its commit, or is cut off.
LEMMA AnsweredEnds ==
  ASSUME TypeOK, [Next]_vars, NEW r \in Requests, req[r].pc = "answered", req'[r] # req[r]
  PROVE  Commit(r) \/ CutOff(r)
<1>1. SessionTypes
  BY TypeParts
<1>. USE DEF quizVars, studyVars
<1>2. ASSUME NEW q \in Requests,
             \/ GenerationFails(q) \/ CommitStart(q) \/ EvaluationFails(q) \/ DeleteSession(q)
             \/ CreateSession(q) \/ \E n \in RawScores : Grade(q, n)
             \/ \E d \in Decks, s \in Questions : StartQuiz(q, d, s) \/ SubmitAnswer(q, d, s)
      PROVE  req[q].pc # "answered" /\ \A x \in Requests : x # q => req'[x] = req[x]
  BY <1>1, <1>2 DEF GenerationFails, CommitStart, EvaluationFails, DeleteSession, CreateSession, Grade,
     StartQuiz, StartSession, SubmitAnswer, LoadSession, Free, Idle, Go, Serve, SessionTypes
<1>3. ASSUME NEW q \in Requests, Commit(q) \/ CutOff(q), q # r
      PROVE  FALSE
  BY <1>1, <1>3 DEF Commit, CutOff, SessionTypes
<1>4. ASSUME NEW s \in Questions, Expire(s) \/ FindExpired(s)
      PROVE  FALSE
  BY <1>4 DEF Expire, FindExpired
<1>5. ASSUME UNCHANGED quizVars \/ UNCHANGED vars
      PROVE  FALSE
  BY <1>5 DEF vars
<1>. HIDE DEF quizVars, studyVars
<1>. QED
  BY <1>2, <1>3, <1>4, <1>5 DEF Next

\* What is severed stays so; a submission cut off after the deletion severs its session.
LEMMA SeveredGrows ==
  ASSUME [Next]_vars
  PROVE  severed \subseteq severed'
<1>. USE DEF quizVars, studyVars
<1>1. ASSUME NEW r \in Requests, GenerationFails(r) \/ CreateSession(r) \/ CommitStart(r)
                                 \/ EvaluationFails(r) \/ DeleteSession(r) \/ Commit(r)
                                 \/ \E n \in RawScores : Grade(r, n)
      PROVE  severed' = severed
  BY <1>1 DEF GenerationFails, CreateSession, CommitStart, EvaluationFails, DeleteSession, Commit,
              Grade
<1>2. ASSUME NEW r \in Requests, NEW d \in Decks, NEW s \in Questions,
             StartQuiz(r, d, s) \/ SubmitAnswer(r, d, s)
      PROVE  severed' = severed
  BY <1>2 DEF StartQuiz, StartSession, SubmitAnswer, LoadSession
<1>3. ASSUME NEW r \in Requests, CutOff(r)
      PROVE  severed \subseteq severed'
  BY <1>3 DEF CutOff
<1>4. ASSUME NEW s \in Questions, Expire(s) \/ FindExpired(s)
      PROVE  severed' = severed
  BY <1>4 DEF Expire, FindExpired
<1>5. ASSUME UNCHANGED quizVars \/ UNCHANGED vars
      PROVE  severed' = severed
  BY <1>5 DEF vars
<1>. HIDE DEF quizVars, studyVars
<1>. QED
  BY <1>1, <1>2, <1>3, <1>4, <1>5 DEF Next

\* The commit of an answer is one answer more of the session.
LEMMA CommitAnswers ==
  ASSUME TypeOK, LinkedInv, NEW r \in Requests, req[r].pc = "answered", Commit(r),
         NEW s \in Questions, req[r].session = s, Opened(s)
  PROVE  Answers(s)' > 0
<1>1. SessionTypes /\ TxTypes /\ StudyTypeOK
  BY TypeParts DEF TypeOK
<1>. DEFINE d == store[s].deck
<1>2. tx[r] \in Written /\ log' = [log EXCEPT ![tx[r].key] = Append(@, tx[r].rating)]
  BY <1>1, CommitReviewTypes DEF Commit, CommitReview
<1>3. tx[r].key = <<req[r].deck, s>> /\ req[r].deck = d /\ store[s].row = "gone"
  BY DEF LinkedInv, Bound, Lives, Answering
<1>4. d \in Decks /\ d # None /\ store' = store
  BY <1>3, QuizAssumption DEF Opened, QuizAssumption, Commit
<1>5. Answers(s)' = Len(log'[<<d, s>>])
  BY <1>4 DEF Answers
<1>. HIDE DEF d
<1>6. <<d, s>> \in Keys
  BY <1>4 DEF Keys
<1>7. log[<<d, s>>] \in Seq(0 .. 5) /\ log'[<<d, s>>] = Append(log[<<d, s>>], tx[r].rating)
  BY <1>1, <1>2, <1>3, <1>6 DEF TxTypes
<1>8. Len(log'[<<d, s>>]) = Len(log[<<d, s>>]) + 1 /\ Len(log[<<d, s>>]) \in Nat
  BY <1>7
<1>. QED
  BY <1>5, <1>8

LEMMA AccountedStep ==
  ASSUME TypeOK, LinkedInv, [Next]_vars, NEW s \in Questions, Opened(s), Accounted(s)
  PROVE  Accounted(s)'
<1>. SUFFICES ASSUME store'[s].row = "gone"
              PROVE  store'[s].expired \/ Answers(s)' > 0 \/ On(s, {"answered"})' # {} \/ s \in severed'
  BY DEF Accounted
<1>1. CASE store[s].row # "gone"
  BY <1>1, GoneSteps
<1>2. CASE store[s].row = "gone" /\ store[s].expired
  <2>1. ASSUME NEW r \in Requests, Opens(r, s)
        PROVE  FALSE
    BY <1>2, <2>1 DEF Opens, LinkedInv, Lives
  <2>. QED
    BY <1>2, <2>1, StoreSteps DEF Kept, Proceeds
<1>3. CASE Answers(s) > 0
  <2>1. Answers(s) \in Nat
    BY AnswersType
  <2>2. Answers(s)' = Answers(s) \/ Answers(s)' = Answers(s) + 1
    BY AnswersSteps
  <2>. QED
    BY <1>3, <2>1, <2>2
<1>4. CASE s \in severed
  BY <1>4, SeveredGrows
<1>5. ASSUME NEW r \in On(s, {"answered"})
      PROVE  Answers(s)' > 0 \/ On(s, {"answered"})' # {} \/ s \in severed'
  <2>1. r \in Requests /\ req[r].pc = "answered" /\ req[r].session = s /\ req[r] # Idle
    BY <1>5 DEF On
  <2>2. CASE req'[r] = req[r]
    <3>1. r \in On(s, {"answered"})'
      BY <2>1, <2>2 DEF On
    <3>. QED
      BY <3>1
  <2>3. CASE CutOff(r)
    BY <1>5, <2>3 DEF CutOff
  <2>4. CASE Commit(r)
    BY <2>1, <2>4, CommitAnswers
  <2>. QED
    BY <2>1, <2>2, <2>3, <2>4, AnsweredEnds
<1>. QED
  BY <1>1, <1>2, <1>3, <1>4, <1>5 DEF Accounted

SessionInv == \A s \in Questions : Opened(s) /\ Counted(s) /\ Accounted(s)

LEMMA SessionInvariant == Spec => [](TypeOK /\ LinkedInv /\ SessionInv)
<1>1. ASSUME Init
      PROVE  SessionInv
  <2>. SUFFICES ASSUME NEW s \in Questions
                PROVE  Opened(s) /\ Counted(s) /\ Accounted(s)
    BY DEF SessionInv
  <2>1. store[s] = [deck |-> None, row |-> "none", expired |-> FALSE] /\ rushed = {}
    BY <1>1 DEF Init
  <2>2. \A d \in Decks : log[<<d, s>>] = <<>>
    BY <1>1 DEF Init, StudyInit, Keys
  <2>3. Answers(s) = 0
    BY <2>1 DEF Answers
  <2>4. On(s, Answering) = {}
    BY <1>1 DEF Init, On
  <2>5. Cardinality(On(s, Answering)) = 0
    BY <2>4, FS_EmptySet
  <2>. QED
    BY <2>1, <2>2, <2>3, <2>5 DEF Opened, Counted, Accounted
<1>2. TypeOK /\ LinkedInv /\ SessionInv /\ [Next]_vars => SessionInv'
  BY OpenedStep, CountedStep, AccountedStep DEF SessionInv
<1>. QED
  BY <1>1, <1>2, LinkedInvariant, PTL DEF Spec

\* However its session expires, its evaluation fails or its requests are cut off, a
\* question is graded once (submit_answer deletes the session before it commits);
\* only submissions that were in flight together are all graded.
THEOREM QuizAnsweredOnce == Spec => []AnsweredOnce
<1>1. TypeOK /\ SessionInv => AnsweredOnce
  <2>. SUFFICES ASSUME TypeOK, SessionInv, NEW s \in Questions
                PROVE  Answers(s) <= IF s \in rushed THEN Cardinality(Requests) ELSE 1
    BY DEF AnsweredOnce
  <2>1. Answers(s) + Cardinality(On(s, Answering)) <= IF s \in rushed THEN Cardinality(Requests) ELSE 1
    BY DEF SessionInv, Counted
  <2>2. Answers(s) \in Nat /\ Cardinality(On(s, Answering)) \in Nat /\ Cardinality(Requests) \in Nat
    BY AnswersType, InFlightFinite
  <2>. QED
    BY <2>1, <2>2
<1>. QED
  BY <1>1, SessionInvariant, PTL

\* A session that is gone expired, or its answer is committed or about to be, unless a
\* submission of it was cut off between its two transactions (submit_answer).
THEOREM QuizGoneOnlyIfAnswered == Spec => []GoneOnlyIfAnswered
<1>1. TypeOK /\ LinkedInv /\ SessionInv => GoneOnlyIfAnswered
  <2>. SUFFICES ASSUME TypeOK, LinkedInv, SessionInv, NEW s \in Questions, store[s].row = "gone"
                PROVE  \/ store[s].expired
                       \/ Answers(s) > 0
                       \/ \E r \in On(s, {"answered"}) : tx[r] # Closed /\ tx[r].pc = "written"
                       \/ s \in severed
    BY DEF GoneOnlyIfAnswered
  <2>1. ASSUME NEW r \in On(s, {"answered"})
        PROVE  tx[r] # Closed /\ tx[r].pc = "written"
    BY <2>1 DEF On, LinkedInv, Bound
  <2>. QED
    BY <2>1 DEF SessionInv, Accounted
<1>. QED
  BY <1>1, SessionInvariant, PTL

-----------------------------------------------------------------------------
(* The rows and the open reviews.                                           *)

Current(k) == IF rows[k] = NoRow THEN Fresh ELSE rows[k].sm

RowSpaced(k) ==
  /\ rows[k] = NoRow <=> log[k] = <<>>
  /\ rows[k] # NoRow => Spaced(rows[k].sm)

TxSpaced(r) ==
  /\ tx[r].pc = "read" => tx[r].sm = Fresh \/ Spaced(tx[r].sm)
  /\ tx[r].pc = "written" => Spaced(tx[r].sm)

SpacedInv == (\A k \in Keys : RowSpaced(k)) /\ \A r \in Requests : TxSpaced(r)

\* The five kinds of steps, seen from the transactions.
LEMMA SelectsRowEffect ==
  ASSUME StudyTypeOK, NEW r \in Requests, NEW key \in Keys, NEW q \in 0 .. 5, SelectsRow(r, key, q)
  PROVE  /\ tx[r] = Closed /\ tx'[r] \in Selected
         /\ tx'[r].key = key /\ tx'[r].sm = Current(key) /\ tx'[r].pc = "read"
         /\ \A x \in Requests : x # r => tx'[x] = tx[x]
         /\ UNCHANGED <<rows, log>>
         /\ overlapped' = IF OpenOn(key) = {} THEN overlapped ELSE overlapped \cup {key}
<1>. DEFINE t == [pc |-> "read", key |-> key, rating |-> q, sm |-> Current(key)]
<1>1. Current(key) \in Schedules
  BY CurrentType DEF Current
<1>2. tx' = [tx EXCEPT ![r] = t]
  BY DEF SelectsRow, SelectRow, Current
<1>3. t \in Selected /\ t.key = key /\ t.sm = Current(key) /\ t.pc = "read"
  BY <1>1 DEF Selected
<1>. HIDE DEF t
<1>. QED
  BY <1>2, <1>3 DEF SelectsRow, SelectRow, StudyTypeOK

LEMMA UpsertRowEffect ==
  ASSUME StudyTypeOK, NEW r \in Requests, UpsertRow(r)
  PROVE  /\ tx[r] \in Selected /\ tx[r].pc = "read" /\ tx'[r].pc = "written"
         /\ tx'[r].key = tx[r].key /\ tx'[r].rating = tx[r].rating
         /\ tx'[r].sm \in Sm2(tx[r].sm, tx[r].rating)
         /\ \A x \in Requests : x # r => tx'[x] = tx[x]
         /\ UNCHANGED <<rows, log, overlapped>>
<1>1. tx[r] \in Selected /\ UNCHANGED <<rows, log, overlapped>>
  BY UpsertRowSteps
<1>2. tx[r].pc = "read"
  BY <1>1 DEF Selected
<1>3. PICK sm \in Schedules : Upserts(r, sm)
  BY UpsertRowSteps
<1>4. PICK n \in Nat \ {0} :
       tx' = [tx EXCEPT ![r] = [pc |-> "written", key |-> tx[r].key, rating |-> tx[r].rating,
                                sm |-> sm, due |-> n]]
  BY <1>3 DEF Upserts
<1>5. sm \in Sm2(tx[r].sm, tx[r].rating)
  BY <1>3 DEF Upserts
<1>. DEFINE t == [pc |-> "written", key |-> tx[r].key, rating |-> tx[r].rating, sm |-> sm, due |-> n]
<1>6. t.pc = "written" /\ t.key = tx[r].key /\ t.rating = tx[r].rating /\ t.sm = sm
  OBVIOUS
<1>7. tx' = [tx EXCEPT ![r] = t]
  BY <1>4
<1>. HIDE DEF t
<1>. QED
  BY <1>1, <1>2, <1>5, <1>6, <1>7 DEF StudyTypeOK

LEMMA CommitReviewEffect ==
  ASSUME StudyTypeOK, NEW r \in Requests, CommitReview(r)
  PROVE  /\ tx[r] \in Written /\ tx[r].pc = "written" /\ tx'[r] = Closed
         /\ \A x \in Requests : x # r => tx'[x] = tx[x]
         /\ rows'[tx[r].key] \in Rows /\ rows'[tx[r].key].sm = tx[r].sm
         /\ log'[tx[r].key] = Append(log[tx[r].key], tx[r].rating)
         /\ \A k \in Keys : k # tx[r].key => rows'[k] = rows[k] /\ log'[k] = log[k]
         /\ overlapped' = overlapped
<1>1. tx[r] \in Written
  BY TxCases DEF CommitReview
<1>2. /\ tx[r].key \in Keys /\ tx[r].rating \in 0 .. 5 /\ tx[r].sm \in Schedules /\ tx[r].due \in Nat \ {0}
      /\ tx[r].pc = "written"
  BY <1>1 DEF Written
<1>. DEFINE row == [sm |-> tx[r].sm, due |-> tx[r].due]
<1>3. row \in Rows /\ row.sm = tx[r].sm
  BY <1>2 DEF Rows
<1>. HIDE DEF row
<1>4. rows' = [rows EXCEPT ![tx[r].key] = row]
  BY DEF CommitReview, row
<1>5. rows'[tx[r].key] = row /\ \A k \in Keys : k # tx[r].key => rows'[k] = rows[k]
  BY <1>2, <1>4 DEF StudyTypeOK
<1>6. /\ log'[tx[r].key] = Append(log[tx[r].key], tx[r].rating)
      /\ \A k \in Keys : k # tx[r].key => log'[k] = log[k]
  BY <1>2 DEF CommitReview, StudyTypeOK
<1>7. tx'[r] = Closed /\ \A x \in Requests : x # r => tx'[x] = tx[x]
  BY DEF CommitReview, StudyTypeOK
<1>. QED
  BY <1>1, <1>2, <1>3, <1>5, <1>6, <1>7 DEF CommitReview

LEMMA ClosesEffect ==
  ASSUME StudyTypeOK, NEW r \in Requests, Closes(r)
  PROVE  /\ tx'[r] = Closed /\ \A x \in Requests : x # r => tx'[x] = tx[x]
         /\ UNCHANGED <<rows, log, overlapped>>
BY DEF Closes, StudyTypeOK

LEMMA CurrentSpaced ==
  ASSUME StudyTypeOK, NEW k \in Keys, RowSpaced(k)
  PROVE  Current(k) \in Schedules /\ (Current(k) = Fresh \/ Spaced(Current(k)))
BY CurrentType DEF Current, RowSpaced

LEMMA SpacedStep ==
  ASSUME TypeOK, [Next]_vars, SpacedInv
  PROVE  SpacedInv'
<1>1. StudyTypeOK
  BY DEF TypeOK
<1>2. ASSUME NEW x \in Requests, tx'[x] = tx[x] \/ tx'[x] = Closed
      PROVE  TxSpaced(x)'
  BY <1>2 DEF SpacedInv, TxSpaced, Closed
<1>3. ASSUME NEW k \in Keys, rows'[k] = rows[k], log'[k] = log[k]
      PROVE  RowSpaced(k)'
  BY <1>3 DEF SpacedInv, RowSpaced
<1>4. ASSUME NEW r \in Requests, NEW key \in Keys, NEW q \in 0 .. 5, SelectsRow(r, key, q)
      PROVE  SpacedInv'
  <2>1. /\ tx'[r].pc = "read" /\ tx'[r].sm = Current(key)
        /\ \A x \in Requests : x # r => tx'[x] = tx[x]
        /\ UNCHANGED <<rows, log>>
    BY <1>1, <1>4, SelectsRowEffect
  <2>2. Current(key) = Fresh \/ Spaced(Current(key))
    BY <1>1, CurrentSpaced DEF SpacedInv
  <2>3. TxSpaced(r)'
    BY <2>1, <2>2 DEF TxSpaced
  <2>. QED
    BY <1>2, <1>3, <2>1, <2>3 DEF SpacedInv
<1>5. ASSUME NEW r \in Requests, UpsertRow(r)
      PROVE  SpacedInv'
  <2>1. /\ tx[r] \in Selected /\ tx[r].pc = "read" /\ tx'[r].pc = "written"
        /\ tx'[r].sm \in Sm2(tx[r].sm, tx[r].rating)
        /\ \A x \in Requests : x # r => tx'[x] = tx[x]
        /\ UNCHANGED <<rows, log>>
    BY <1>1, <1>5, UpsertRowEffect
  <2>2. tx[r].sm \in Schedules /\ tx[r].rating \in 0 .. 5
    BY <2>1 DEF Selected
  <2>3. tx[r].sm = Fresh \/ Spaced(tx[r].sm)
    BY <2>1 DEF SpacedInv, TxSpaced
  <2>4. Spaced(tx'[r].sm)
    BY <2>1, <2>2, <2>3, Sm2Spaced
  <2>5. TxSpaced(r)'
    BY <2>1, <2>4 DEF TxSpaced
  <2>. QED
    BY <1>2, <1>3, <2>1, <2>5 DEF SpacedInv
<1>6. ASSUME NEW r \in Requests, CommitReview(r)
      PROVE  SpacedInv'
  <2>1. /\ tx[r] \in Written /\ tx[r].pc = "written" /\ tx'[r] = Closed
        /\ \A x \in Requests : x # r => tx'[x] = tx[x]
        /\ rows'[tx[r].key] \in Rows /\ rows'[tx[r].key].sm = tx[r].sm
        /\ log'[tx[r].key] = Append(log[tx[r].key], tx[r].rating)
        /\ \A k \in Keys : k # tx[r].key => rows'[k] = rows[k] /\ log'[k] = log[k]
    BY <1>1, <1>6, CommitReviewEffect
  <2>2. tx[r].key \in Keys /\ tx[r].rating \in 0 .. 5
    BY <2>1 DEF Written
  <2>3. Spaced(tx[r].sm)
    BY <2>1 DEF SpacedInv, TxSpaced
  <2>4. PICK key \in Keys : key = tx[r].key
    BY <2>2
  <2>5. log'[key] # <<>>
    <3>1. log[key] \in Seq(0 .. 5)
      BY <1>1 DEF StudyTypeOK
    <3>2. Append(log[key], tx[r].rating) # <<>>
      BY <3>1
    <3>. QED
      BY <2>1, <2>4, <3>2
  <2>6. rows'[key] # NoRow
    <3>1. NoRow \notin Rows
      BY StudyAssumption DEF StudyAssumption
    <3>. QED
      BY <2>1, <2>4, <3>1
  <2>7. RowSpaced(key)'
    BY <2>1, <2>3, <2>4, <2>5, <2>6 DEF RowSpaced
  <2>8. \A k \in Keys : RowSpaced(k)'
    BY <1>3, <2>1, <2>4, <2>7
  <2>. QED
    BY <1>2, <2>1, <2>8 DEF SpacedInv
<1>7. ASSUME NEW r \in Requests, Closes(r)
      PROVE  SpacedInv'
  BY <1>1, <1>2, <1>3, <1>7, ClosesEffect DEF SpacedInv
<1>8. ASSUME UNCHANGED <<rows, tx, log, overlapped>>
      PROVE  SpacedInv'
  BY <1>2, <1>3, <1>8 DEF SpacedInv
<1>. QED
  BY <1>4, <1>5, <1>6, <1>7, <1>8, StudySteps

\* Of a card whose reviews never overlapped: the row counts the passes, and a review
\* that is open is the only one and starts from the row.
StartsFrom(c, r) ==
  /\ tx[r].pc = "read" => tx[r].sm = c
  /\ tx[r].pc = "written" => tx[r].sm \in Sm2(c, tx[r].rating)

Alone(k) ==
  k \notin overlapped =>
    /\ Current(k).reps = Cardinality(Passed(log[k]))
    /\ \A r \in OpenOn(k) : OpenOn(k) = {r} /\ StartsFrom(Current(k), r)

LEMMA Sm2Counts ==
  ASSUME NEW c, NEW q \in 0 .. 5, NEW x \in Sm2(c, q)
  PROVE  x.reps = IF q < 3 THEN 0 ELSE c.reps + 1
BY DEF Sm2

LEMMA OpenOnKept ==
  ASSUME NEW r \in Requests, NEW k, \A x \in Requests : x # r => tx'[x] = tx[x],
         tx[r] # Closed /\ tx[r].key = k <=> tx'[r] # Closed /\ tx'[r].key = k
  PROVE  OpenOn(k)' = OpenOn(k)
BY DEF OpenOn

LEMMA AloneFrame ==
  ASSUME NEW k \in Keys, Alone(k), rows'[k] = rows[k], log'[k] = log[k],
         k \in overlapped => k \in overlapped',
         OpenOn(k)' \subseteq OpenOn(k), \A x \in OpenOn(k)' : tx'[x] = tx[x]
  PROVE  Alone(k)'
<1>1. Current(k)' = Current(k)
  BY DEF Current
<1>. SUFFICES ASSUME k \notin overlapped'
              PROVE  /\ Current(k).reps = Cardinality(Passed(log[k]))
                     /\ \A r \in OpenOn(k)' : OpenOn(k)' = {r} /\ StartsFrom(Current(k), r)'
  BY <1>1 DEF Alone, StartsFrom
<1>2. Current(k).reps = Cardinality(Passed(log[k]))
  BY DEF Alone
<1>3. ASSUME NEW r \in OpenOn(k)'
      PROVE  OpenOn(k)' = {r} /\ StartsFrom(Current(k), r)'
  <2>1. OpenOn(k) = {r} /\ StartsFrom(Current(k), r)
    BY <1>3 DEF Alone
  <2>. QED
    BY <1>1, <1>3, <2>1 DEF StartsFrom
<1>. QED
  BY <1>2, <1>3

LEMMA AloneStep ==
  ASSUME TypeOK, [Next]_vars, NEW k \in Keys, Alone(k)
  PROVE  Alone(k)'
<1>1. StudyTypeOK
  BY DEF TypeOK
<1>2. ASSUME NEW r \in Requests, NEW key \in Keys, NEW q \in 0 .. 5, SelectsRow(r, key, q)
      PROVE  Alone(k)'
  <2>1. /\ tx[r] = Closed /\ tx'[r] \in Selected
        /\ tx'[r].key = key /\ tx'[r].sm = Current(key) /\ tx'[r].pc = "read"
        /\ \A x \in Requests : x # r => tx'[x] = tx[x]
        /\ rows' = rows /\ log' = log
        /\ overlapped' = IF OpenOn(key) = {} THEN overlapped ELSE overlapped \cup {key}
    BY <1>1, <1>2, SelectsRowEffect
  <2>2. CASE k # key
    <3>1. OpenOn(k)' = OpenOn(k)
      BY <2>1, <2>2 DEF OpenOn
    <3>2. \A x \in OpenOn(k)' : tx'[x] = tx[x]
      BY <2>1, <2>2 DEF OpenOn
    <3>. QED
      BY <2>1, <3>1, <3>2, AloneFrame
  <2>3. CASE k = key /\ OpenOn(k) = {}
    <3>1. \A x \in Requests : x # r => ~(tx[x] # Closed /\ tx[x].key = k)
      BY <2>3 DEF OpenOn
    <3>2. OpenOn(k)' \subseteq {r}
      BY <2>1, <3>1 DEF OpenOn
    <3>3. Current(k)' = Current(k)
      BY <2>1 DEF Current
    <3>4. StartsFrom(Current(k), r)'
      BY <2>1, <2>3, <3>3 DEF StartsFrom
    <3>. QED
      BY <2>1, <2>3, <3>2, <3>3, <3>4 DEF Alone
  <2>4. CASE k = key /\ OpenOn(k) # {}
    BY <2>1, <2>4 DEF Alone
  <2>. QED
    BY <2>2, <2>3, <2>4
<1>3. ASSUME NEW r \in Requests, UpsertRow(r)
      PROVE  Alone(k)'
  <2>1. /\ tx[r] \in Selected /\ tx[r].pc = "read" /\ tx'[r].pc = "written"
        /\ tx'[r].key = tx[r].key /\ tx'[r].rating = tx[r].rating
        /\ tx'[r].sm \in Sm2(tx[r].sm, tx[r].rating)
        /\ \A x \in Requests : x # r => tx'[x] = tx[x]
        /\ rows' = rows /\ log' = log /\ overlapped' = overlapped
    BY <1>1, <1>3, UpsertRowEffect
  <2>2. tx[r] # Closed /\ tx'[r] # Closed
    BY <2>1 DEF Closed
  <2>3. OpenOn(k)' = OpenOn(k)
    BY <2>1, <2>2, OpenOnKept
  <2>4. CASE tx[r].key # k
    <3>1. \A x \in OpenOn(k)' : tx'[x] = tx[x]
      BY <2>1, <2>3, <2>4 DEF OpenOn
    <3>. QED
      BY <2>1, <2>3, <3>1, AloneFrame
  <2>5. CASE tx[r].key = k
    <3>1. r \in OpenOn(k)
      BY <2>2, <2>5 DEF OpenOn
    <3>2. k \notin overlapped => OpenOn(k) = {r} /\ tx[r].sm = Current(k)
      BY <2>1, <3>1 DEF Alone, StartsFrom
    <3>3. Current(k)' = Current(k)
      BY <2>1 DEF Current
    <3>4. k \notin overlapped => StartsFrom(Current(k), r)'
      BY <2>1, <3>2, <3>3 DEF StartsFrom
    <3>. QED
      BY <2>1, <2>3, <3>2, <3>3, <3>4 DEF Alone
  <2>. QED
    BY <2>4, <2>5
<1>4. ASSUME NEW r \in Requests, CommitReview(r)
      PROVE  Alone(k)'
  <2>1. /\ tx[r] \in Written /\ tx[r].pc = "written" /\ tx'[r] = Closed
        /\ \A x \in Requests : x # r => tx'[x] = tx[x]
        /\ rows'[tx[r].key] \in Rows /\ rows'[tx[r].key].sm = tx[r].sm
        /\ log'[tx[r].key] = Append(log[tx[r].key], tx[r].rating)
        /\ \A x \in Keys : x # tx[r].key => rows'[x] = rows[x] /\ log'[x] = log[x]
        /\ overlapped' = overlapped
    BY <1>1, <1>4, CommitReviewEffect
  <2>2. tx[r] # Closed /\ tx[r].rating \in 0 .. 5
    BY <2>1 DEF Closed, Written
  <2>3. OpenOn(k)' \subseteq OpenOn(k) \ {r} /\ \A x \in OpenOn(k)' : tx'[x] = tx[x]
    BY <2>1 DEF OpenOn
  <2>4. CASE tx[r].key # k
    BY <2>1, <2>3, <2>4, AloneFrame
  <2>5. CASE tx[r].key = k
    <3>. SUFFICES ASSUME k \notin overlapped
                  PROVE  Alone(k)'
      BY <2>1 DEF Alone
    <3>1. r \in OpenOn(k)
      BY <2>2, <2>5 DEF OpenOn
    <3>2. OpenOn(k) = {r} /\ tx[r].sm \in Sm2(Current(k), tx[r].rating)
          /\ Current(k).reps = Cardinality(Passed(log[k]))
      BY <2>1, <3>1 DEF Alone, StartsFrom
    <3>3. OpenOn(k)' = {}
      BY <2>3, <3>2
    <3>4. rows'[k] # NoRow
      <4>1. NoRow \notin Rows
        BY StudyAssumption DEF StudyAssumption
      <4>. QED
        BY <2>1, <2>5, <4>1
    <3>5. Current(k)' = tx[r].sm
      BY <2>1, <2>5, <3>4 DEF Current
    <3>6. tx[r].sm.reps = IF tx[r].rating < 3 THEN 0 ELSE Current(k).reps + 1
      BY <2>2, <3>2, Sm2Counts
    <3>7. log[k] \in Seq(0 .. 5)
      BY <1>1 DEF StudyTypeOK
    <3>8. Cardinality(Passed(Append(log[k], tx[r].rating)))
            = IF tx[r].rating < 3 THEN 0 ELSE Cardinality(Passed(log[k])) + 1
      BY <2>2, <3>7, PassedAppend
    <3>9. log'[k] = Append(log[k], tx[r].rating)
      BY <2>1, <2>5
    <3>10. Cardinality(Passed(log'[k])) = tx[r].sm.reps
      BY <3>2, <3>6, <3>8, <3>9
    <3>11. Passed(log[k])' = Passed(log'[k])
      BY DEF Passed
    <3>. QED
      BY <3>3, <3>5, <3>10, <3>11 DEF Alone
  <2>. QED
    BY <2>4, <2>5
<1>5. ASSUME NEW r \in Requests, Closes(r)
      PROVE  Alone(k)'
  <2>1. /\ tx'[r] = Closed /\ \A x \in Requests : x # r => tx'[x] = tx[x]
        /\ rows' = rows /\ log' = log /\ overlapped' = overlapped
    BY <1>1, <1>5, ClosesEffect
  <2>2. OpenOn(k)' \subseteq OpenOn(k) /\ \A x \in OpenOn(k)' : tx'[x] = tx[x]
    BY <2>1 DEF OpenOn
  <2>. QED
    BY <2>1, <2>2, AloneFrame
<1>6. ASSUME UNCHANGED <<rows, tx, log, overlapped>>
      PROVE  Alone(k)'
  BY <1>6, AloneFrame DEF OpenOn
<1>. QED
  BY <1>2, <1>3, <1>4, <1>5, <1>6, StudySteps

\* The reviews s that were committed on a card explain the schedule c.
Explains(s, c) == \E D \in SUBSET DOMAIN s : c \in ScheduleAfter(s, D)

\* They explain it, the last one included, and all of them unless some overlapped.
ExplainsRow(s, c, all) ==
  \E D \in IF all THEN {DOMAIN s} ELSE SUBSET DOMAIN s : Len(s) \in D /\ c \in ScheduleAfter(s, D)

RowExplained(k) ==
  log[k] # <<>> => ExplainsRow(log[k], rows[k].sm, k \notin overlapped)

TxExplained(r) ==
  /\ tx[r].pc = "read" => Explains(log[tx[r].key], tx[r].sm)
  /\ tx[r].pc = "written"
     => \E c : Explains(log[tx[r].key], c) /\ tx[r].sm \in Sm2(c, tx[r].rating)

ExplainedInv == (\A k \in Keys : RowExplained(k)) /\ \A r \in Requests : TxExplained(r)

LEMMA ExplainsAppend ==
  ASSUME NEW s \in Seq(0 .. 5), NEW q \in 0 .. 5, NEW c, Explains(s, c)
  PROVE  /\ Explains(Append(s, q), c)
         /\ \A x \in Sm2(c, q) : ExplainsRow(Append(s, q), x, FALSE)
<1>1. PICK D \in SUBSET DOMAIN s : c \in ScheduleAfter(s, D)
  BY DEF Explains
<1>. DEFINE t == Append(s, q)
<1>2. /\ ScheduleAfter(t, D) = ScheduleAfter(s, D)
      /\ ScheduleAfter(t, D \cup {Len(s) + 1}) = UNION {Sm2(y, q) : y \in ScheduleAfter(s, D)}
  BY ScheduleAfterAppend
<1>3. DOMAIN s \subseteq DOMAIN t /\ Len(s) + 1 \in DOMAIN t /\ Len(t) = Len(s) + 1
  OBVIOUS
<1>. HIDE DEF t
<1>4. D \in SUBSET DOMAIN t /\ D \cup {Len(s) + 1} \in SUBSET DOMAIN t
  BY <1>3
<1>5. Explains(t, c)
  BY <1>1, <1>2, <1>4 DEF Explains
<1>6. ASSUME NEW x \in Sm2(c, q)
      PROVE  ExplainsRow(t, x, FALSE)
  <2>1. x \in ScheduleAfter(t, D \cup {Len(s) + 1})
    BY <1>1, <1>2
  <2>2. Len(t) \in D \cup {Len(s) + 1}
    BY <1>3
  <2>. QED
    BY <1>4, <2>1, <2>2 DEF ExplainsRow
<1>. QED
  BY <1>5, <1>6 DEF t

LEMMA ExplainsRowAppend ==
  ASSUME NEW s \in Seq(0 .. 5), NEW q \in 0 .. 5, NEW c, c \in ScheduleAfter(s, DOMAIN s),
         NEW x \in Sm2(c, q)
  PROVE  ExplainsRow(Append(s, q), x, TRUE)
<1>. DEFINE t == Append(s, q)
<1>1. ScheduleAfter(t, DOMAIN s \cup {Len(s) + 1}) = UNION {Sm2(y, q) : y \in ScheduleAfter(s, DOMAIN s)}
  BY ScheduleAfterAppend
<1>2. DOMAIN t = DOMAIN s \cup {Len(s) + 1} /\ Len(t) \in DOMAIN t
  OBVIOUS
<1>. HIDE DEF t
<1>3. x \in ScheduleAfter(t, DOMAIN t)
  BY <1>1, <1>2
<1>4. ExplainsRow(t, x, TRUE)
  BY <1>2, <1>3 DEF ExplainsRow
<1>. QED
  BY <1>4 DEF t

LEMMA ExplainsRowType ==
  ASSUME NEW s, NEW c, NEW all \in BOOLEAN, ExplainsRow(s, c, all)
  PROVE  Explains(s, c) /\ ExplainsRow(s, c, FALSE)
BY DEF Explains, ExplainsRow

\* What a review reads is explained.
LEMMA CurrentExplained ==
  ASSUME StudyTypeOK, NEW k \in Keys, RowSpaced(k), RowExplained(k)
  PROVE  /\ Explains(log[k], Current(k))
         /\ k \notin overlapped => Current(k) \in ScheduleAfter(log[k], DOMAIN log[k])
<1>1. CASE rows[k] = NoRow
  <2>1. log[k] = <<>> /\ Current(k) = Fresh
    BY <1>1 DEF RowSpaced, Current
  <2>2. Current(k) \in ScheduleAfter(log[k], DOMAIN log[k])
    BY <2>1, ScheduleAfterNone
  <2>. QED
    BY <2>2 DEF Explains
<1>2. CASE rows[k] # NoRow
  <2>1. log[k] # <<>> /\ Current(k) = rows[k].sm
    BY <1>2 DEF RowSpaced, Current
  <2>2. ExplainsRow(log[k], Current(k), k \notin overlapped)
    BY <2>1 DEF RowExplained
  <2>3. Explains(log[k], Current(k))
    BY <2>2, ExplainsRowType
  <2>4. k \notin overlapped => Current(k) \in ScheduleAfter(log[k], DOMAIN log[k])
    BY <2>2 DEF ExplainsRow
  <2>. QED
    BY <2>3, <2>4
<1>. QED
  BY <1>1, <1>2

LEMMA ExplainedStep ==
  ASSUME TypeOK, [Next]_vars, SpacedInv, \A k \in Keys : Alone(k), ExplainedInv
  PROVE  ExplainedInv'
<1>1. StudyTypeOK
  BY DEF TypeOK
<1>2. ASSUME NEW x \in Requests, tx'[x] = tx[x], log'[tx[x].key] = log[tx[x].key]
      PROVE  TxExplained(x)'
  BY <1>2 DEF ExplainedInv, TxExplained
<1>3. ASSUME NEW x \in Requests, tx'[x] = Closed
      PROVE  TxExplained(x)'
  BY <1>3 DEF TxExplained, Closed
<1>4. ASSUME NEW k \in Keys, rows'[k] = rows[k], log'[k] = log[k],
             k \in overlapped' <=> k \in overlapped
      PROVE  RowExplained(k)'
  BY <1>4 DEF ExplainedInv, RowExplained
<1>5. ASSUME NEW r \in Requests, NEW key \in Keys, NEW q \in 0 .. 5, SelectsRow(r, key, q)
      PROVE  ExplainedInv'
  <2>1. /\ tx'[r].key = key /\ tx'[r].sm = Current(key) /\ tx'[r].pc = "read"
        /\ \A x \in Requests : x # r => tx'[x] = tx[x]
        /\ rows' = rows /\ log' = log
        /\ overlapped' = IF OpenOn(key) = {} THEN overlapped ELSE overlapped \cup {key}
    BY <1>1, <1>5, SelectsRowEffect
  <2>2. Explains(log[key], Current(key))
    BY <1>1, CurrentExplained DEF SpacedInv, ExplainedInv
  <2>3. TxExplained(r)'
    BY <2>1, <2>2 DEF TxExplained
  <2>4. ASSUME NEW k \in Keys
        PROVE  RowExplained(k)'
    <3>1. CASE k \in overlapped' <=> k \in overlapped
      BY <1>4, <2>1, <3>1
    <3>2. CASE k \in overlapped' /\ k \notin overlapped
      <4>1. log[k] # <<>> => ExplainsRow(log[k], rows[k].sm, FALSE)
        BY ExplainsRowType DEF ExplainedInv, RowExplained
      <4>2. (k \notin overlapped') = FALSE
        BY <3>2
      <4>. QED
        BY <2>1, <4>1, <4>2 DEF RowExplained
    <3>. QED
      BY <2>1, <3>1, <3>2
  <2>. QED
    BY <1>2, <2>1, <2>3, <2>4 DEF ExplainedInv
<1>6. ASSUME NEW r \in Requests, UpsertRow(r)
      PROVE  ExplainedInv'
  <2>1. /\ tx[r].pc = "read" /\ tx'[r].pc = "written"
        /\ tx'[r].key = tx[r].key /\ tx'[r].rating = tx[r].rating
        /\ tx'[r].sm \in Sm2(tx[r].sm, tx[r].rating)
        /\ \A x \in Requests : x # r => tx'[x] = tx[x]
        /\ rows' = rows /\ log' = log /\ overlapped' = overlapped
    BY <1>1, <1>6, UpsertRowEffect
  <2>2. Explains(log[tx[r].key], tx[r].sm)
    BY <2>1 DEF ExplainedInv, TxExplained
  <2>3. TxExplained(r)'
    BY <2>1, <2>2 DEF TxExplained
  <2>. QED
    BY <1>2, <1>4, <2>1, <2>3 DEF ExplainedInv
<1>7. ASSUME NEW r \in Requests, CommitReview(r)
      PROVE  ExplainedInv'
  <2>1. /\ tx[r] \in Written /\ tx[r].pc = "written" /\ tx'[r] = Closed
        /\ \A x \in Requests : x # r => tx'[x] = tx[x]
        /\ rows'[tx[r].key] \in Rows /\ rows'[tx[r].key].sm = tx[r].sm
        /\ log'[tx[r].key] = Append(log[tx[r].key], tx[r].rating)
        /\ \A k \in Keys : k # tx[r].key => rows'[k] = rows[k] /\ log'[k] = log[k]
        /\ overlapped' = overlapped
    BY <1>1, <1>7, CommitReviewEffect
  <2>2. tx[r].rating \in 0 .. 5 /\ tx[r].key \in Keys /\ tx[r] # Closed
    BY <2>1 DEF Written, Closed
  <2>3. PICK key \in Keys : key = tx[r].key
    BY <2>2
  <2>4. PICK q \in 0 .. 5 : q = tx[r].rating
    BY <2>2
  <2>5. log[key] \in Seq(0 .. 5) /\ log'[key] = Append(log[key], q)
    BY <1>1, <2>1, <2>3, <2>4 DEF StudyTypeOK
  <2>6. PICK c : Explains(log[key], c) /\ tx[r].sm \in Sm2(c, q)
    BY <2>1, <2>3, <2>4 DEF ExplainedInv, TxExplained
  <2>7. ASSUME key \notin overlapped
        PROVE  /\ tx[r].sm \in Sm2(Current(key), q)
               /\ Current(key) \in ScheduleAfter(log[key], DOMAIN log[key])
    <3>1. r \in OpenOn(key)
      BY <2>2, <2>3 DEF OpenOn
    <3>2. tx[r].sm \in Sm2(Current(key), q)
      BY <2>1, <2>4, <2>7, <3>1 DEF Alone, StartsFrom
    <3>. QED
      BY <1>1, <2>7, <3>2, CurrentExplained DEF SpacedInv, ExplainedInv
  <2>8. ExplainsRow(log'[key], tx[r].sm, key \notin overlapped)
    <3>1. CASE key \in overlapped
      <4>1. ExplainsRow(Append(log[key], q), tx[r].sm, FALSE)
        BY <2>5, <2>6, ExplainsAppend
      <4>2. (key \notin overlapped) = FALSE
        BY <3>1
      <4>. QED
        BY <2>5, <4>1, <4>2
    <3>2. CASE key \notin overlapped
      <4>1. ExplainsRow(Append(log[key], q), tx[r].sm, TRUE)
        BY <2>5, <2>7, <3>2, ExplainsRowAppend
      <4>2. (key \notin overlapped) = TRUE
        BY <3>2
      <4>. QED
        BY <2>5, <4>1, <4>2
    <3>. QED
      BY <3>1, <3>2
  <2>9. RowExplained(key)'
    BY <2>1, <2>3, <2>8 DEF RowExplained
  <2>10. ASSUME NEW x \in Requests
         PROVE  TxExplained(x)'
    <3>1. CASE x = r
      BY <1>3, <2>1, <3>1
    <3>2. CASE x # r /\ (tx[x].key = key \/ tx[x].key \notin Keys)
      <4>1. tx'[x] = tx[x]
        BY <2>1, <3>2
      <4>2. TxExplained(x)
        BY DEF ExplainedInv
      <4>3. tx[x].pc \in {"read", "written"} => tx[x].key \in Keys
        BY <1>1, TxCases DEF Selected, Written
      <4>4. \A y : Explains(log[key], y) => Explains(log'[key], y)
        BY <2>5, ExplainsAppend
      <4>. QED
        BY <3>2, <4>1, <4>2, <4>3, <4>4 DEF TxExplained
    <3>3. CASE x # r /\ tx[x].key # key /\ tx[x].key \in Keys
      BY <1>2, <2>1, <2>3, <3>3
    <3>. QED
      BY <3>1, <3>2, <3>3
  <2>11. \A k \in Keys : RowExplained(k)'
    BY <1>4, <2>1, <2>3, <2>9
  <2>. QED
    BY <2>10, <2>11 DEF ExplainedInv
<1>8. ASSUME NEW r \in Requests, Closes(r)
      PROVE  ExplainedInv'
  <2>1. /\ tx'[r] = Closed /\ \A x \in Requests : x # r => tx'[x] = tx[x]
        /\ rows' = rows /\ log' = log /\ overlapped' = overlapped
    BY <1>1, <1>8, ClosesEffect
  <2>. QED
    BY <1>2, <1>3, <1>4, <2>1 DEF ExplainedInv
<1>9. ASSUME UNCHANGED <<rows, tx, log, overlapped>>
      PROVE  ExplainedInv'
  BY <1>2, <1>4, <1>9 DEF ExplainedInv
<1>. QED
  BY <1>5, <1>6, <1>7, <1>8, <1>9, StudySteps

ScheduleInv == SpacedInv /\ (\A k \in Keys : Alone(k)) /\ ExplainedInv

LEMMA ScheduleInvariant == Spec => [](TypeOK /\ ScheduleInv)
<1>1. ASSUME Init
      PROVE  ScheduleInv
  <2>1. \A r \in Requests : tx[r] = Closed
    BY <1>1 DEF Init, StudyInit
  <2>2. \A k \in Keys : rows[k] = NoRow /\ log[k] = <<>>
    BY <1>1 DEF Init, StudyInit
  <2>3. SpacedInv
    BY <2>1, <2>2 DEF SpacedInv, RowSpaced, TxSpaced, Closed
  <2>4. ASSUME NEW k \in Keys
        PROVE  Alone(k)
    <3>1. OpenOn(k) = {}
      BY <2>1 DEF OpenOn
    <3>2. Passed(<<>>) = {}
      BY DEF Passed
    <3>3. Cardinality(Passed(log[k])) = 0
      BY <2>2, <3>2, FS_EmptySet
    <3>4. Current(k).reps = 0
      BY <2>2 DEF Current, Fresh
    <3>. QED
      BY <3>1, <3>3, <3>4 DEF Alone
  <2>5. ExplainedInv
    BY <2>1, <2>2 DEF ExplainedInv, RowExplained, TxExplained, Closed
  <2>. QED
    BY <2>3, <2>4, <2>5 DEF ScheduleInv
<1>2. TypeOK /\ ScheduleInv /\ [Next]_vars => ScheduleInv'
  BY SpacedStep, AloneStep, ExplainedStep DEF ScheduleInv
<1>. QED
  BY <1>1, <1>2, QuizTypeCorrect, PTL DEF Spec

\* The intervals of a row grow as SM-2 owes the learner, and its repetitions count
\* the passes since the last failure (sm2_update, and save_review that reads the row,
\* computes and writes it back).
THEOREM StudyWellSpaced == Spec => []WellSpaced
<1>1. ScheduleInv => WellSpaced
  <2>. SUFFICES ASSUME ScheduleInv, NEW k \in Keys, rows[k] # NoRow
                PROVE  /\ Spaced(rows[k].sm)
                       /\ k \notin overlapped => rows[k].sm.reps = Cardinality(Passed(log[k]))
    BY DEF WellSpaced, Spaced
  <2>1. Current(k) = rows[k].sm
    BY DEF Current
  <2>. QED
    BY <2>1 DEF ScheduleInv, SpacedInv, RowSpaced, Alone
<1>. QED
  BY <1>1, ScheduleInvariant, PTL

\* A row is the SM-2 schedule of the reviews committed on its card, in their order
\* and all of them; of reviews that overlapped it may lack any but the last.
THEOREM StudyScheduleExplained == Spec => []ScheduleExplained
<1>1. ScheduleInv => ScheduleExplained
  <2>. SUFFICES ASSUME ScheduleInv, NEW k \in Keys
                PROVE  IF log[k] = <<>> THEN rows[k] = NoRow
                       ELSE \E D \in IF k \in overlapped THEN SUBSET DOMAIN log[k] ELSE {DOMAIN log[k]} :
                              Len(log[k]) \in D /\ rows[k].sm \in ScheduleAfter(log[k], D)
    BY DEF ScheduleExplained
  <2>1. RowSpaced(k) /\ RowExplained(k)
    BY DEF ScheduleInv, SpacedInv, ExplainedInv
  <2>. QED
    BY <2>1 DEF RowSpaced, RowExplained, ExplainsRow
<1>. QED
  BY <1>1, ScheduleInvariant, PTL

=============================================================================
