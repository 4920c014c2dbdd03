SPECIFICATION Spec
CONSTANTS
  MaxWorld = 3
  Jobs <- ThreeAllreduce
INVARIANT AllreduceSums
CHECK_DEADLOCK FALSE
