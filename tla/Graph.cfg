CONSTANTS
  n1 = n1  n2 = n2  n3 = n3  n4 = n4  stranger = stranger
  Steps <- FourSteps
  Graphs <- AllGraphs
SPECIFICATION GraphSpec
INVARIANTS ResultTopological RefusesExactlyCycles DownstreamExact
\* The algorithms stop with their result.
CHECK_DEADLOCK FALSE
