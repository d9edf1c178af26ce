\* Three calls at once, and a client that gives two slots a second.
SPECIFICATION Spec
CONSTANTS
  Keys = {"rider"}
  MaxRequests = 3
  Window = 2
  Calls = {11, 12, 13}
  BoxCalls = {}
  User <- MCUser
  Queries = {"g", "goa"}
  Meaningful = {"goa"}
  DailyBudget = 3
  DayLength = 9
  MinimumDelay = 1
  Second = 2
  ResultTTL = 2
  EmptyTTL = 1
  MaxTime = 3
  MaxEdits = 0
INVARIANT RateHolds
CHECK_DEADLOCK FALSE
