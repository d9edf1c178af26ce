\* Two calls race for the numbers of a journey that is shared meanwhile.
SPECIFICATION ShareFairSpec
CONSTANTS
  c1 = c1
  c2 = c2
  p1 = p1
  p2 = p2
  p3 = p3
  j1 = j1
  h1 = h1
  ph1 = ph1
  Journeys = {j1}
  Requests = {p1, p2}
  Calls = {c1, c2}
  Saves = {p3}
  MaxChanges = 2
  JourneyOf <- MCJourneyOf
  Shares = {h1}
  SharedJourney <- MCSharedJourney
  Photos = {ph1}
  StopOf <- MCStopOf
  Selections <- MCSelections
INVARIANTS
  Contiguous
  EndedSnapshotIsComplete
  WholeSnapshotIsTimeline
PROPERTIES
  ImplementsJourneyLog
  RepeatsUndoNothing
  CallsEnd
  RevokedIsGone
CHECK_DEADLOCK FALSE
