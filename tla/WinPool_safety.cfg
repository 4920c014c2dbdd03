SPECIFICATION Spec
CONSTANTS
  MaxTeam = 3
  MaxTrip = 3
  Schedules <- AllSchedules
  Chunks = {2}
  MaxCalls = 2
INVARIANTS
  TypeOK
  JobOnStack
  Accounted
PROPERTY ImplementsForkJoin
CHECK_DEADLOCK FALSE
