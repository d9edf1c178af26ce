\* One failed call or closed page, more samples than one upload takes, and a change elsewhere.
SPECIFICATION FairSpec
CONSTANTS
  pin1 = pin1
  s1 = s1
  s2 = s2
  Pins = {pin1}
  Track <- MCTrack
  BatchLimit = 1
  MaxVersion = 2
  MaxFaults = 1
INVARIANTS
  CreateAcknowledgedFirst
  EndAfterPins
PROPERTIES
  ImplementsDelivery
  OutboxDrains
CHECK_DEADLOCK FALSE
