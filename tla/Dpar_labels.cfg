SPECIFICATION Spec
CONSTANTS
  MaxWorld = 3
  Jobs <- GatherAtLast
INVARIANT GatherPlaces
CHECK_DEADLOCK FALSE
