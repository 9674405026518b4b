\* Two runs over three documents of two lessons, two processes that poll, one fault at
\* any time and, as far as Focus allows, a second, at which an event is given up.  The
\* system rests when the runs are used up and their events handled.
CONSTANTS
  None = None
  Unknown = Unknown
  d1 = d1  d2 = d2  d3 = d3
  l1 = l1  l2 = l2
  k1 = k1  k2 = k2
  t1 = t1  t2 = t2
  Documents = {d1, d2, d3}
  Lessons = {l1, l2}
  LessonOf <- MCLessonOf
  Indexers = {p1, p2}
  Texts = {t1, t2}
  Keys = {k1, k2}
  GuardAnswers = {"relevant"}
  SummaryAnswers <- MCOneSummary
  MapAnswers <- MCMapAnswers
  BatchSize = 2
  MaxRetries = 2
  MaxRuns = 2
  MaxFaults = 2
SPECIFICATION Spec
CONSTRAINT Focus
INVARIANTS LessonShown RetrievalFinds GraphExact CutIsRepeated ShowsLatest
SYMMETRY IndexersAlike
CHECK_DEADLOCK FALSE
