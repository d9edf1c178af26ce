\* More samples than one upload takes, and no failure.
SPECIFICATION Spec
CONSTANTS
  pin1 = pin1
  s1 = s1
  s2 = s2
  Pins = {pin1}
  Track <- MCTrack
  BatchLimit = 1
  MaxVersion = 0
  MaxFaults = 0
INVARIANT EndAfterCapture
CHECK_DEADLOCK FALSE
