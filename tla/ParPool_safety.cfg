SPECIFICATION Spec
CONSTANTS
  MaxTeam = 3
  MaxTrip = 3
  Schedules <- AllSchedules
  Chunks = {2}
  MaxCalls = 2
INVARIANTS
  TypeOK
  NoStaleWorker
  Quiescent
  NoMissedWakeup
  EachIndexOnce
  NoSpinning
PROPERTY ImplementsForkJoin
CHECK_DEADLOCK FALSE
