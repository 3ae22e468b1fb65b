CONSTANTS
  Requests = {r1, r2, r3}
  Keys <- MCKeys
  None = None
  Expired = Expired
  v = v
  w = w
  Bodies <- MCBodies
SPECIFICATION Spec
INVARIANT RecordInv
INVARIANT FollowerEventsLinkBack
INVARIANT OnePayloadPerCall
INVARIANT ResolvedLeavesConsult
INVARIANT NoOverlappingTurns
INVARIANT SharedAnswerFits
INVARIANT TwinsCoalesce
PROPERTY NeverJoinsAnswered
PROPERTY EveryCallAnswered
CHECK_DEADLOCK FALSE
