\* Two executions over a chain of three steps, forced or not, of workers that may ask
\* different models; each step may be upgraded and rolled back between or during runs,
\* as far as Focus allows.
CONSTANTS
  prep = prep  summ = summ  card = card
  m1 = m1  m2 = m2
  Steps <- ChainSteps
  Deps <- ChainDag
  Order <- ChainOrder
  Persisted <- ChainKept
  Execs = {e1, e2}
  Forces = {TRUE, FALSE}
  Models = {m1, m2}
  MaxVersion = 1
SPECIFICATION Spec
CONSTRAINT Focus
SYMMETRY Alike
INVARIANTS Consistent Complete
PROPERTY UpToDateWhenCompleted
