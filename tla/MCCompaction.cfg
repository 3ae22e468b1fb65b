SPECIFICATION Spec
CONSTANTS
  NoParent = NoParent
  None = None
  Branches = {main, other}
  Replies <- MCReplies
  TriggerTurns = 2
  CooldownTurns = 2
  MinEvents = 2
  MaxChunkEvents = 2
  MaxTurns = 4
  MaxOther = 2
SYMMETRY BranchSymmetry
INVARIANTS
  CompactionInv
  CooldownHolds
  RetriedAtOnce
  ValidatedIsWhole
CHECK_DEADLOCK FALSE
