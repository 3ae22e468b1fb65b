SPECIFICATION Spec
CONSTANTS
  None = None
  TurnTopic = turn
  DreamTopic = dream
  Task = task
  Topics = {turn, task, dream}
  Writings <- MCWritings
  Requests = {r1, r2}
  InactivityHours = 1
  MinSessions = 1
  MaxIndexEntries = 2
  MaxHour = 3
  MaxSessions = 1
  MaxEvents = 4
  MaxStarts = 2
SYMMETRY RequestSymmetry
INVARIANTS
  DreamInv
  TopicsDurable
  ThresholdDreamsSpaced
  ScoreAndAgeViews
  BudgetViews
CHECK_DEADLOCK FALSE
