CONSTANTS
  n1 = n1
  n2 = n2
  n3 = n3
  NPC = {n1, n2, n3}
  NoOne = NoOne
  Rung <- MCRung
  Makers = {n3}
  MastermindDays = 2
  ActorDays = 1
  Plans <- MCPlans
  StepBudget = 1
  MaxConcurrent = 2
  MaxAdaptations = 1
  HistoryCap = 2
  RetentionDays = 1
  Interval = 1
  MaxOutstanding = 1
  MaxClock = 6
  MaxJump = 1
  MaxPlots = 2
  MaxForced = 0
  MaxDeaths = 1
  MaxLoads = 0
  Throws = FALSE
SPECIFICATION Spec
CONSTRAINT Paced
INVARIANTS TypeOK OccupancyAgrees BoundWaitsFounded NoStalledPlot
PROPERTIES TurnsAdvance
CHECK_DEADLOCK FALSE
