\* Two workers process and match the same journey; two failures or recoveries.
SPECIFICATION FairSpec
CONSTANTS
  Samples = {"s1", "s2", "s3", "s4", "s5", "s6", "s7", "s8"}
  Batches <- MCBatches
  LastOf <- MCLastOf
  Flagged = {"s8"}
  CapturedAt <- MCCapturedAt
  Id <- MCId
  Track <- MCTrack
  DistanceM <- MCDistanceM
  AccuracyM <- MCAccuracyM
  Workers = {"w1", "w2"}
  MaxCalls = 3
  MaxFaults = 2
INVARIANTS
  WorkUnlessAbsorbed
  RouteFromOneRun
  CurrentWithoutOverlap
  MatchedWithoutOverlap
  RouteIsTraversable
PROPERTY
  RouteSettles
CHECK_DEADLOCK FALSE
