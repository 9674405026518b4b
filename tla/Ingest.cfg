\* Two uploads at a time into one knowledge base, three contents of two lessons.
CONSTANTS
  None = None
  Files <- MCFiles
  Slug <- MCSlug
  WellFormed = {"l1", "l2", "index"}
  Long = {}
  Reserved = {"index"}
  GlobalMax = 2
  FormatMax <- MCFormatMax
  MaxPages = 2
  KBs = {k1}
  Users = {u1}
  Names = {"n1", "n2"}
  Owner <- MCOwner
  Requests = {r1, r2}
  MaxPending = 1
  MaxFaults = 1
SPECIFICATION FairSpec
INVARIANTS ActiveIsLatest PendingOvershootBounded
PROPERTIES HistoryRefined EveryUploadAnswered
