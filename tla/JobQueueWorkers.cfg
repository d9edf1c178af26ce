\* Two workers with batches of two rows, and one stop or failed database call.
SPECIFICATION FairSpec
CONSTANTS
  w1 = w1
  w2 = w2
  k1 = k1
  k2 = k2
  Workers = {w1, w2}
  Keys = {k1, k2}
  MaxJobs = 2
  MaxAttempts = 2
  BatchSize = 2
  BackoffCap = 1
  StaleAfter = 1
  Delays = {0}
  MaxOverdue = 0
  MaxFaults = 1
INVARIANTS
  ExclusiveUntilRequeued
  DuplicatesBounded
  AttemptsBounded
PROPERTIES
  LeaseRespected
  DeadStays
  ImplementsPromise
  SettledOrStranded
