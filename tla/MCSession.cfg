CONSTANTS
  Requests = {r1, r2}
  ToolUsers = {r1, r2}
  CallNames = {c1}
  Unnamed = FALSE
  MaxRounds = 1
  MaxCalls = 1
  MaxActive = 2
  MaxOther = 0
  None = None
SPECIFICATION Spec
INVARIANT AnsweredIffRecorded
INVARIANT BlobsAreOwn
CHECK_DEADLOCK FALSE
