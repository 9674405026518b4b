\* Two completions of one model with one fallback: retries, timeouts and breakers interleave.
SPECIFICATION FairSpec
CONSTANTS
  small = small  fallback = fallback  m1 = m1  m2 = m2
  Calls = {c1, c2}
  Names <- Logical  ModelMap <- Mapped  FallbackModels <- Fallbacks
  Budgets = {1, 2}  TimeoutSeconds = 2  MaxRetries = 1  Waits = {1, 2}
  FailureThreshold = 2  Cooldown = 2
INVARIANTS BreakerCounts OpenSheds DurationBounded
PROPERTIES EveryCallEnds
