CONSTANTS
  Jobs = {j1, j2, j3, j4}
  Workers = {w1, w2}
  QueueSize = 1
  None = None
SPECIFICATION Spec
INVARIANT DaemonInv
INVARIANT AcceptedInOnePlace
INVARIANT StopDrains
PROPERTY AcceptedSettles
CHECK_DEADLOCK FALSE
