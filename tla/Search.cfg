\* Two searches of the box and a call of another page; a budget of one a day.
SPECIFICATION FairSpec
CONSTANTS
  Keys = {"rider"}
  MaxRequests = 1
  Window = 2
  Calls = {1, 2, 11}
  BoxCalls = {1, 2}
  User <- MCUser
  Queries = {"g", "goa", "delhi"}
  Meaningful = {"goa", "delhi"}
  DailyBudget = 1
  DayLength = 3
  MinimumDelay = 1
  Second = 2
  ResultTTL = 2
  EmptyTTL = 1
  MaxTime = 3
  MaxEdits = 2
INVARIANTS
  WithinDailyBudget
  SpinnerUntilAnswered
PROPERTIES
  SlotsApart
  NewestSearchWins
  SpinnerStops
CHECK_DEADLOCK FALSE
