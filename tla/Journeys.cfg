\* Two installations, an outing and a trip of one owner, two workers.
SPECIFICATION FairSpec
CONSTANTS
  outing1 = outing1
  trip1 = trip1
  alice = alice
  Owners = {alice}
  Owner <- MCOwner
  AskedKind <- MCAskedKind
  JourneyIds = {outing1, trip1}
  Clients = {"phone", "laptop"}
  Workers = {"w1", "w2"}
  Labels = {"a"}
  MaxVersion = 3
  MaxAttempts = 2
INVARIANTS
  VersionIsContent
  ActiveOutingHasJob
PROPERTIES
  EndedIsFinal
  OutingEnds
CHECK_DEADLOCK FALSE
