\* The relays of the API process and of a pipeline worker.
SPECIFICATION RelayFairSpec
CONSTANTS
  Writers = {w1, w2}
  Relays = {r1, r2}
  LogOnly = {}
  MaxSeq = 3
  FlushSize = 2
  MaxAborts = 1
INVARIANTS
  LocksExclusive
  PublishedWasSent
  ResentOnlyAfterAbort
PROPERTY EventuallyPublished
CHECK_DEADLOCK FALSE
