CONSTANTS
  m1 = m1
  m2 = m2
  m3 = m3
  e1 = e1
  e2 = e2
  Memories = {m1, m2, m3}
  Events = {e1, e2}
  EventsOf <- MCEventsOf
  DayOf <- MCDayOf
  NoMemory = NoMemory
  HarvestWindowDays = 1
  ClaimExpiryDays = 2
  Interval = 1
  MaxOutstandingTicks = 1
  Handles = {1, 2}
  NoHandle = NoHandle
  NoWorld = NoWorld
  EvalAttempts = 2
  MaxSeeds = 2
  MaxLiveRumors = 1
  MaxDay = 3
  MaxSetBacks = 1
  SetBackSessions = {1}
  MaxLoads = 1
  Races = FALSE
VIEW View
SYMMETRY Witnesses
SPECIFICATION Spec
INVARIANTS TypeOK ClaimsSettled HappeningOnce PoolStaysFree SnapshotCurrent StagedComplete AskedOnce
PROPERTIES ImageForward
CHECK_DEADLOCK FALSE
