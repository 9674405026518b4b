\* Two requests at a time over one flashcard and one quiz question, of an owner and
\* of another user: three reviews, enough for the first three intervals.
CONSTANTS
  None = None
  NoRow = NoRow
  Decks = {d1, d2}
  Owned = {d1}
  Cards = {c1}
  MaxRevisions = 2
  Questions = {s1}
  Requests = {r1, r2}
  Ratings = {2, 4}
  RawScores = {2, 7}
  MaxDay = 1
  MaxReviews = 3
  MaxFaults = 1
SPECIFICATION Spec
INVARIANTS ScheduleExplained WellSpaced AnsweredOnce GoneOnlyIfAnswered
