CONSTANTS
  Slots = {1, 2}
  Letters = {1, 2, 3}
  MaxEvents = 1
  TimeoutTicks = 1
  CheckEvery = 1
  VerifyTicks = 1
  MaxRestarts = 2
  MaxVm = 1
VIEW View
SPECIFICATION Spec
CONSTRAINT Uncrossed
INVARIANTS TypeOK SenderReleased PendingIsTracked CourierClean
CHECK_DEADLOCK FALSE
