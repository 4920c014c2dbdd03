SPECIFICATION FairSpec
CONSTANTS
  MaxWorld = 4
  Jobs <- SoundJobs
INVARIANTS
  BarrierWaits
  FramesSound
  AllreduceSums
  RootDelivers
  GatherPlaces
  ScanSums
PROPERTIES
  Completes
  Connects
CHECK_DEADLOCK FALSE
