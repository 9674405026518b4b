\* Two processes run the same consumer, as while an API container is replaced,
\* with a database error or a restart.
SPECIFICATION FairSpec
CONSTANTS
  Writers = {w1, w2}
  Procs = {p1, p2}
  MaxSeq = 2
  BatchSize = 2
  MaxRetries = 2
  MaxInterrupts = 1
INVARIANTS
  NoSilentLoss
  PoisonFailedEnough
PROPERTIES
  InOrder
  CursorMonotonic
  EventuallyDelivered
