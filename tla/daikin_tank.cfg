SPECIFICATION Spec
CONSTANTS
  NumRows = 2
  Start <- MCStart
  End <- MCEnd
  Target <- MCTarget
  Powerful <- MCPowerful
  Day <- MCDay
  DayLength = 9
  Standoff <- MCStandoff
  Hold = 4
  Grace = 2
  Lag = 1
  Backoff <- MCBackoff
  GiveUp = 1
  Hands = {1, 3}
  MaxTime = 8
  MaxBoosts = 1
  MaxTroubles = 1
PROPERTIES
  BoostRespected
  OverrideHasCause
