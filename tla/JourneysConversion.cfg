\* A conversion between the read and the update of the expiry.
SPECIFICATION Spec
CONSTANTS
  outing1 = outing1
  trip1 = trip1
  alice = alice
  Owners = {alice}
  Owner <- MCOwner
  AskedKind <- MCAskedKind
  JourneyIds = {outing1}
  Clients = {"phone"}
  Workers = {"w1"}
  Labels = {"a"}
  MaxVersion = 4
  MaxAttempts = 2
INVARIANT ConversionIsSafe
CHECK_DEADLOCK FALSE
