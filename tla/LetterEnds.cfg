CONSTANTS
  Slots = {1}
  Letters = {1, 2}
  MaxEvents = 1
  TimeoutTicks = 1
  CheckEvery = 1
  VerifyTicks = 1
  MaxRestarts = 1
  MaxVm = 1
SPECIFICATION FairSpec
PROPERTIES SessionEnds SlotComesBack
CHECK_DEADLOCK FALSE
