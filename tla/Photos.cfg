\* A photo reserved, cleaned up and reserved again; two processors, one failure.
SPECIFICATION FairSpec
CONSTANTS
  p1 = p1
  p2 = p2
  photo = photo
  a1 = a1
  a2 = a2
  c1 = c1
  RequestOf <- MCRequestOf
  Decodes <- MCDecodes
  Photos = {p1, p2}
  Requests = {photo}
  Processors = {a1, a2}
  Cleaners = {c1}
  CleanupBatch = 1
  MaxAttempts = 2
  MaxFaults = 1
INVARIANTS
  TakenOverIsStored
PROPERTIES
  ProcessedStays
  UploadedIsHandled
  AbandonedIsRemoved
CHECK_DEADLOCK FALSE
