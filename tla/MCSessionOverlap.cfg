CONSTANTS
  Requests = {r1, r2}
  ToolUsers = {}
  CallNames = {}
  Unnamed = FALSE
  MaxRounds = 1
  MaxCalls = 0
  MaxActive = 2
  MaxOther = 0
  None = None
SPECIFICATION Spec
INVARIANT NoTurnRefused
CHECK_DEADLOCK FALSE
