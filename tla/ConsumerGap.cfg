\* Two transactions that commit in the opposite order of their inserts.
SPECIFICATION Spec
CONSTANTS
  Writers = {w1, w2}
  Procs = {p1}
  MaxSeq = 2
  BatchSize = 2
  MaxRetries = 2
  MaxInterrupts = 0
INVARIANT NoLostEvents
