SPECIFICATION FairSpec
CONSTANTS
  MaxTeam = 3
  MaxTrip = 3
  Schedules = {"steal"}
  Chunks = {2}
  MaxCalls = 2
PROPERTIES
  CallReturns
  ImplementsFairForkJoin
CHECK_DEADLOCK FALSE
