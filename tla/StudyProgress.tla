--------------------------- MODULE StudyProgress ---------------------------
(***************************************************************************)
(* Spaced repetition: the SM-2 update, the study_progress table under      *)
(* transactions that read a row, compute and write it back, and the list   *)
(* of due cards, which joins the rows with the flashcards of the knowledge *)
(* base.  A row belongs to a deck (a user and a knowledge base) and a card *)
(* id; ids are hashes of the whole card, so they are model values here.    *)
(*                                                                         *)
(* Ease factors are in hundredths.                                         *)
(***************************************************************************)
EXTENDS Integers, FiniteSets, Sequences

CONSTANTS Decks, Cards,
          Questions,   \* the card ids of quiz questions, never in a catalogue
          Requests,    \* requests served at one time
          Ratings,     \* the ratings a review may carry
          NoRow,
          MaxDay, MaxReviews, MaxRevisions, MaxFaults  \* bounds

\* What SM-2 keeps of a card, and a row of the table.
Schedules == [ease : Nat, interval : Nat, reps : Nat]
Rows == [sm : Schedules, due : Nat \ {0}]

ASSUME StudyAssumption ==
  /\ IsFiniteSet(Requests)
  /\ Ratings \subseteq 0 .. 5
  /\ {MaxDay, MaxReviews, MaxFaults} \subseteq Nat /\ MaxRevisions \in Nat \ {0}
  /\ Cards \cap Questions = {}
  /\ NoRow \notin Rows

VARIABLES day,
          flashcards,  \* per revision of a lesson, the cards of its latest artifact
          active,      \* the active revision
          rows,        \* committed rows
          tx,          \* per request, its review transaction
          reviews,     \* reviews begun
          faults,
          log,         \* history: the committed ratings of each card, in order
          overlapped   \* history: the cards two transactions reviewed at once

studyVars == <<day, flashcards, active, rows, tx, reviews, faults, log, overlapped>>

Documents == 1 .. MaxRevisions

Keys == Decks \X (Cards \cup Questions)

Closed == [pc |-> "closed"]

-----------------------------------------------------------------------------
(* SM-2.                                                                    *)

\* The default of a card without a row.
Fresh == [ease |-> 250, interval |-> 0, reps |-> 0]

\* round(n / 100); at an exact half the float may lie on either side.
Rounded(n) == {k \in (n \div 100) .. (n \div 100 + 1) : 100 * k - 50 <= n /\ n <= 100 * k + 50}

Ease(e, q) == LET n == e + 10 - (5 - q) * (8 + (5 - q) * 2) IN IF n < 130 THEN 130 ELSE n

\* Mutants of Sm2: the repetition is counted first; a failure keeps the count.
Sm2Shifted(c, q) ==
  IF q < 3 THEN {[ease |-> Ease(c.ease, q), interval |-> 1, reps |-> 0]}
  ELSE {[ease |-> Ease(c.ease, q), interval |-> i, reps |-> c.reps + 1] :
          i \in CASE c.reps = 0 -> {6} [] OTHER -> Rounded(c.interval * c.ease)}

\* sm2_update
Sm2(c, q) ==
  IF q < 3 THEN {[ease |-> Ease(c.ease, q), interval |-> 1, reps |-> 0]}
  ELSE {[ease |-> Ease(c.ease, q), interval |-> i, reps |-> c.reps + 1] :
          i \in CASE c.reps = 0 -> {1} [] c.reps = 1 -> {6} [] OTHER -> Rounded(c.interval * c.ease)}

-----------------------------------------------------------------------------
(* The due list.                                                            *)

Due(d) == {c \in Cards \cup Questions : rows[<<d, c>>] # NoRow /\ rows[<<d, c>>].due <= day}

\* list_flashcards_for_kb: the latest artifacts of active documents.
Catalogue == flashcards[active]

\* A row shows its schedule, with the card's content if there is still one.
Scheduled(d) == {[card |-> c, sm |-> rows[<<d, c>>].sm, content |-> c \in Catalogue] : c \in Due(d)}

\* The cards "without a row": those that are not among the due rows.
Unscheduled(d) == {[card |-> c, sm |-> Fresh, content |-> TRUE] : c \in Catalogue \ Due(d)}

\* get_due_cards; due_count is its size.
DueList(d) == Scheduled(d) \cup Unscheduled(d)

-----------------------------------------------------------------------------
StudyInit ==
  /\ day = 0
  /\ flashcards = [x \in Documents |-> {}] /\ active = 1
  /\ rows = [k \in Keys |-> NoRow]
  /\ tx = [r \in Requests |-> Closed]
  /\ reviews = 0 /\ faults = 0
  /\ log = [k \in Keys |-> <<>>]
  /\ overlapped = {}

OpenOn(key) == {r \in Requests : tx[r] # Closed /\ tx[r].key = key}

\* Mutant of SelectRow: the row of another review that is still open is read.
SelectDirty(r, key, q) ==
  /\ tx[r] = Closed /\ reviews < MaxReviews
  /\ tx' = [tx EXCEPT ![r] =
       [pc |-> "read", key |-> key, rating |-> q,
        sm |-> IF \E s \in OpenOn(key) : tx[s].pc = "written"
               THEN tx[CHOOSE s \in OpenOn(key) : tx[s].pc = "written"].sm
               ELSE IF rows[key] = NoRow THEN Fresh ELSE rows[key].sm]]
  /\ reviews' = reviews + 1
  /\ UNCHANGED overlapped

\* save_review: the SELECT.
SelectRow(r, key, q) ==
  /\ tx[r] = Closed /\ reviews < MaxReviews
  /\ tx' = [tx EXCEPT ![r] = [pc |-> "read", key |-> key, rating |-> q,
                              sm |-> IF rows[key] = NoRow THEN Fresh ELSE rows[key].sm]]
  /\ reviews' = reviews + 1
  /\ overlapped' = IF OpenOn(key) = {} THEN overlapped ELSE overlapped \cup {key}

\* save_review: the upsert, which waits for the row of an open one.
UpsertRow(r) ==
  /\ tx[r].pc = "read"
  /\ \A s \in OpenOn(tx[r].key) : tx[s].pc # "written"
  /\ \E sm \in Sm2(tx[r].sm, tx[r].rating) :
       tx' = [tx EXCEPT ![r] = [pc |-> "written", key |-> @.key, rating |-> @.rating, sm |-> sm,
                                due |-> day + IF sm.interval < 1 THEN 1 ELSE sm.interval]]
  /\ UNCHANGED <<day, flashcards, active, rows, reviews, faults, log, overlapped>>

CommitReview(r) ==
  /\ tx[r].pc = "written"
  /\ rows' = [rows EXCEPT ![tx[r].key] = [sm |-> tx[r].sm, due |-> tx[r].due]]
  /\ log' = [log EXCEPT ![tx[r].key] = Append(@, tx[r].rating)]
  /\ tx' = [tx EXCEPT ![r] = Closed]
  /\ UNCHANGED <<day, flashcards, active, reviews, faults, overlapped>>

\* review_card: any card id in any knowledge base, due or not.
Review(r, key, q) ==
  /\ SelectRow(r, key, q)
  /\ UNCHANGED <<day, flashcards, active, rows, faults, log>>

\* The flashcard generator replaces the cards of a document's artifact with what
\* the model answered, none if it cannot be read; the run commits them.
GenerateFlashcards(x, cards) ==
  /\ x <= active /\ cards # flashcards[x]
  /\ flashcards' = [flashcards EXCEPT ![x] = cards]
  /\ UNCHANGED <<day, active, rows, tx, reviews, faults, log, overlapped>>

\* A new revision of the lesson is uploaded.
NewRevision ==
  /\ active < MaxRevisions
  /\ active' = active + 1
  /\ UNCHANGED <<day, flashcards, rows, tx, reviews, faults, log, overlapped>>

NextDay ==
  /\ day < MaxDay
  /\ day' = day + 1
  /\ UNCHANGED <<flashcards, active, rows, tx, reviews, faults, log, overlapped>>

-----------------------------------------------------------------------------
Selected == [pc : {"read"}, key : Keys, rating : 0 .. 5, sm : Schedules]
Written == [pc : {"written"}, key : Keys, rating : 0 .. 5, sm : Schedules, due : Nat \ {0}]

StudyTypeOK ==
  /\ day \in 0 .. MaxDay /\ flashcards \in [Documents -> SUBSET Cards] /\ active \in Documents
  /\ rows \in [Keys -> Rows \cup {NoRow}]
  /\ tx \in [Requests -> {Closed} \cup Selected \cup Written]
  /\ reviews \in 0 .. MaxReviews /\ faults \in 0 .. MaxFaults
  /\ log \in [Keys -> Seq(0 .. 5)]
  /\ overlapped \subseteq Keys

\* The rows that the reviews s[i], i \in D, could have left one after the other.
ScheduleAfter(s, D) ==
  LET after[n \in 0 .. Len(s)] ==
        IF n = 0 THEN {Fresh}
        ELSE IF n \in D THEN UNION {Sm2(c, s[n]) : c \in after[n - 1]} ELSE after[n - 1]
  IN after[Len(s)]

\* A row is the SM-2 schedule of the reviews committed on its card, all of them;
\* if some overlapped it may have lost earlier ones, never the latest.
ScheduleExplained ==
  \A k \in Keys :
    IF log[k] = <<>> THEN rows[k] = NoRow
    ELSE \E D \in IF k \in overlapped THEN SUBSET DOMAIN log[k] ELSE {DOMAIN log[k]} :
           Len(log[k]) \in D /\ rows[k].sm \in ScheduleAfter(log[k], D)

Passed(s) == {i \in DOMAIN s : \A j \in i .. Len(s) : s[j] >= 3}

\* What the schedule owes the learner: the repetitions count the passes since the
\* last failure, the first two intervals are 1 and 6 days, later ones grow, and
\* the ease stays at 1.3 or more.
WellSpaced ==
  \A k \in Keys : rows[k] # NoRow =>
    LET c == rows[k].sm
    IN /\ c.ease >= 130
       /\ c.reps <= 1 => c.interval = 1
       /\ c.reps = 2 => c.interval = 6
       /\ c.reps > 2 => c.interval >= 5 + c.reps
       /\ k \notin overlapped => c.reps = Cardinality(Passed(log[k]))

\* What the docstring of get_due_cards says: a card shown as new has no row.
NewMeansNeverReviewed ==
  \A d \in Decks : \A e \in DueList(d) : e.sm = Fresh => rows[<<d, e.card>>] = NoRow

=============================================================================
