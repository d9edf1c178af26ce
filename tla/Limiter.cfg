\* Two keys whose requests sweep each other's buckets; three windows.
SPECIFICATION Spec
CONSTANTS
  Keys = {"rider", "guest"}
  MaxRequests = 2
  Window = 2
  MaxTime = 7
INVARIANT AtMostTwiceTheLimit
