SPECIFICATION Spec
CONSTANTS
  Horizon = 1
  Gap = 1
  Debounce = 1
  MaxTime = 6
  MaxJobs = 2
  MaxTroubles = 1
  MaxManual = 1
  MaxTouches = 1
  MaxCancels = 1
INVARIANTS
  TimerCovers
PROPERTIES
  WashedOnce
  OneStart
  AsArmed
