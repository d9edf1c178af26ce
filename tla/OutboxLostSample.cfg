\* A sample recorded while an upload is on its way, and no failure.
SPECIFICATION Spec
CONSTANTS
  pin1 = pin1
  s1 = s1
  s2 = s2
  Pins = {pin1}
  Track <- MCTrack
  BatchLimit = 2
  MaxVersion = 0
  MaxFaults = 0
INVARIANT SampleHasRecord
CHECK_DEADLOCK FALSE
