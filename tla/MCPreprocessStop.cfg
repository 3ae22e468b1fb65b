CONSTANTS
  Jobs = {j1, j2, j3}
  Workers = {w1, w2}
  QueueSize = 1
  None = None
SPECIFICATION Spec
INVARIANT SubmitNeverPanics
CHECK_DEADLOCK FALSE
