CONSTANTS
  Branches = {main, alt}
  Texts = {1, 8}
  Externals = {0, 3}
  OtherKinds = {"preprocess.extraction", "summary.checkpoint"}
  MaxRounds = 2
  MaxEvents = 9
  MaxTurns = 3
  MaxOther = 1
  LargeTextBytes = 3
  StaleDistance = 2
  MaxEnvelopeBytes = 12
  SafetyMarginBytes = 2
  InlineBytes = 3
  ExcerptBytes = 2
  HeadBytes = 2
  BodyFrame = 1
  ItemFrame = 1
  RefBytes = 1
  None = None
SPECIFICATION Spec
SYMMETRY Symmetry
INVARIANT PacketInv
INVARIANT RejectionIsLastResort
INVARIANT QuestionReaches
INVARIANT NothingPrivateSent
INVARIANT ToolOutputByReference
INVARIANT ContextDisplacesNothing
CHECK_DEADLOCK FALSE
