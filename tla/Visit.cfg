CONSTANTS
  Visits = {1}
  MaxFailures = 1
  MaxPolls = 1
  TimeoutTicks = 1
  FillTicks = 1
  NudgeCap = 1
  MaxVm = 2
  MaxRestarts = 1
SPECIFICATION FairSpec
INVARIANTS TypeOK LeavesNothingBehind ClosesOnce
PROPERTIES UnmetIsUndone VisitEnds
CHECK_DEADLOCK FALSE
