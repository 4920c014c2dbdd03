SPECIFICATION Spec
CONSTANTS
  Todos <- MCTodos
  Settings <- MCSettings
  Plans <- MCPlans
  Places <- MCPlaces
INVARIANTS
  RecordsSound
  CompleteMeansDone
  CommitsKept
  NothingForgotten
PROPERTIES
  LoopEnds
CHECK_DEADLOCK FALSE
