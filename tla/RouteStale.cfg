\* A slow worker replaces a newer route.
SPECIFICATION Spec
CONSTANTS
  Samples = {"s1", "s2", "s3", "s4", "s5", "s6", "s7", "s8"}
  Batches <- OneTryBatches
  LastOf <- MCLastOf
  Flagged = {"s8"}
  CapturedAt <- MCCapturedAt
  Id <- MCId
  Track <- MCTrack
  DistanceM <- MCDistanceM
  AccuracyM <- MCAccuracyM
  Workers = {"w1", "w2"}
  MaxCalls = 3
  MaxFaults = 0
INVARIANT DrainedRouteIsCurrent
CHECK_DEADLOCK FALSE
