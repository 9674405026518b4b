\* Two workers, two tasks of one document, one reclaim and one crash: a task is
\* executed by up to two executions at once.  Every safety property here is proved
\* for all values of these constants in PipelineTasksProofs.
CONSTANTS
  MaxTasks = 2
  Docs = {d1}
  DocOf <- OneDoc
  Workers = {w1, w2}
  MaxConcurrent = 1
  MaxReclaims = 1
  MaxCrashes = 1
SPECIFICATION FairSpec
INVARIANTS ClaimsCounted RunningIsAccounted
PROPERTIES TerminalIsFinal SettledIfRescued
