SPECIFICATION FairSpec
CONSTANTS
  MaxTeam = 2
  MaxTrip = 2
  Schedules = {"static"}
  Chunks = {0}
  MaxCalls = 1
PROPERTY CallReturns
CHECK_DEADLOCK FALSE
