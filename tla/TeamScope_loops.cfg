SPECIFICATION Spec
CONSTANTS
  MaxCores = 4
  HostCores = 4
  Baked = 0
  StackSize = 2
  MaxDepth = 2
  Trips = {3}
INVARIANT LoopsInScope
CHECK_DEADLOCK FALSE
