SPECIFICATION FairSpec
CONSTANTS
  NumRows = 1
  Start <- MCOneStart
  End <- MCOneEnd
  Target <- MCOneTarget
  Powerful <- MCOnePowerful
  Day <- MCOneDay
  DayLength = 9
  Standoff <- MCOneStandoff
  Hold = 1
  Grace = 2
  Lag = 1
  Backoff <- MCBackoff
  GiveUp = 2
  Hands = {}
  MaxTime = 6
  MaxBoosts = 1
  MaxTroubles = 2
INVARIANTS
  AttemptsBounded
PROPERTIES
  BoostCloses
  RowsTerminate
