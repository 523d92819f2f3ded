CONSTANTS
  n1 = n1
  n2 = n2
  n3 = n3
  NPC = {n1, n2}
  NoOne = NoOne
  Rung <- MCRung
  Makers = {}
  MastermindDays = 1
  ActorDays = 1
  Plans <- MCShortPlans
  StepBudget = 2
  MaxConcurrent = 1
  MaxAdaptations = 1
  HistoryCap = 1
  RetentionDays = 0
  Interval = 1
  MaxOutstanding = 1
  MaxClock = 2
  MaxJump = 2
  MaxPlots = 1
  MaxForced = 1
  MaxDeaths = 0
  MaxLoads = 1
  Throws = TRUE
SPECIFICATION Spec
INVARIANTS OccupancyAgrees StampsWithinHorizon WorldsKeptApart
CHECK_DEADLOCK FALSE
