CONSTANTS
  Branches = {main, alt}
  Texts = {1, 8}
  Externals = {0, 3}
  OtherKinds = {"preprocess.extraction"}
  MaxRounds = 2
  MaxEvents = 5
  MaxTurns = 1
  MaxOther = 1
  LargeTextBytes = 3
  StaleDistance = 2
  MaxEnvelopeBytes = 12
  SafetyMarginBytes = 2
  InlineBytes = 3
  ExcerptBytes = 2
  HeadBytes = 2
  BodyFrame = 1
  ItemFrame = 1
  RefBytes = 1
  None = None
SPECIFICATION Spec
SYMMETRY Symmetry
INVARIANT NewKindsStayLocal
CHECK_DEADLOCK FALSE
