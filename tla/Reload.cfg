CONSTANTS
  b1 = b1
  b2 = b2
  Beats = {b1}
  NoBeat = NoBeat
  PollInterval = 1
  CooldownThreshold = 1
  CooldownMax = 1
  AdvanceThreshold <- MCThreshold
  MinPhaseDuration = 1
  MaxDwell = 1
  IdealDuration <- MCIdeal
  Scores = {0}
  RecentCap = 1
  SelectAttempts = 1
  MaxEvalQueue = 1
  AbortAllowed = FALSE
  LoadAllowed = TRUE
  SavedPhases = {0}
SPECIFICATION Spec
INVARIANTS SaveIsRestorable InFlightAccurate
PROPERTIES ImplementsSlot
CHECK_DEADLOCK FALSE
