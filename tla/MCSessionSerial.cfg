CONSTANTS
  Requests = {r1, r2}
  ToolUsers = {r1}
  CallNames = {}
  Unnamed = TRUE
  MaxRounds = 2
  MaxCalls = 2
  MaxActive = 1
  MaxOther = 1
  None = None
SPECIFICATION Spec
INVARIANT ToolCallsPaired
INVARIANT AloneNeverRefused
INVARIANT AloneSeesOwn
PROPERTY EveryTurnEnds
CHECK_DEADLOCK FALSE
