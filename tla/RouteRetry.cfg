\* A repeated batch with new samples is absorbed by the job at work.
SPECIFICATION Spec
CONSTANTS
  Samples = {"s1", "s2", "s3", "s4", "s5", "s6", "s7", "s8"}
  Batches <- MCBatches
  LastOf <- MCLastOf
  Flagged = {"s8"}
  CapturedAt <- MCCapturedAt
  Id <- MCId
  Track <- MCTrack
  DistanceM <- MCDistanceM
  AccuracyM <- MCAccuracyM
  Workers = {"w1"}
  MaxCalls = 3
  MaxFaults = 0
INVARIANT EverySampleHasWork
CHECK_DEADLOCK FALSE
