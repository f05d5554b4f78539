SPECIFICATION FairSpec
CONSTANTS
  DayLen = 2
  Recover = 1
  MaxTime = 6
  MaxCalls = 2
  MaxTroubles = 1
INVARIANTS
  JobCovers
  HolidayReleased
PROPERTIES
  EndsAtHome
  TripEnds
  PoweredAgain
CHECK_DEADLOCK FALSE
