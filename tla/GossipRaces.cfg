CONSTANTS
  m1 = m1
  m2 = m2
  m3 = m3
  e1 = e1
  e2 = e2
  Memories = {m1}
  Events = {e1}
  EventsOf <- MCEventsOf
  DayOf <- MCDayOf
  NoMemory = NoMemory
  HarvestWindowDays = 1
  ClaimExpiryDays = 2
  Interval = 1
  MaxOutstandingTicks = 2
  Handles = {1, 2, 3, 4}
  NoHandle = NoHandle
  NoWorld = NoWorld
  EvalAttempts = 1
  MaxSeeds = 1
  MaxLiveRumors = 1
  MaxDay = 1
  MaxSetBacks = 1
  SetBackSessions = {1}
  MaxLoads = 1
  Races = TRUE
SPECIFICATION FairSpec
PROPERTIES TickEnds
CHECK_DEADLOCK FALSE
