\* One card, reviewed once: it is listed as new before it is due.
CONSTANTS
  None = None
  NoRow = NoRow
  Decks = {d1}
  Owned = {d1}
  Cards = {c1}
  MaxRevisions = 1
  Questions = {s1}
  Requests = {r1}
  Ratings = {4}
  RawScores = {4}
  MaxDay = 1
  MaxReviews = 2
  MaxFaults = 0
SPECIFICATION Spec
INVARIANTS NewMeansNeverReviewed
