CONSTANTS
  b1 = b1
  b2 = b2
  Beats = {b1}
  NoBeat = NoBeat
  PollInterval = 2
  CooldownThreshold = 1
  CooldownMax = 2
  AdvanceThreshold <- MCThreshold
  MinPhaseDuration = 1
  MaxDwell = 1
  IdealDuration <- MCIdeal
  Scores = {0}
  RecentCap = 1
  SelectAttempts = 2
  MaxEvalQueue = 1
  AbortAllowed = FALSE
  LoadAllowed = FALSE
  SavedPhases = {}
SPECIFICATION FairSpec
PROPERTIES EvaluationEnds BeatTickEnds
CHECK_DEADLOCK FALSE
