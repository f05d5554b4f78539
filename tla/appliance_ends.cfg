SPECIFICATION FairSpec
CONSTANTS
  Horizon = 1
  Gap = 1
  Debounce = 1
  MaxTime = 5
  MaxJobs = 2
  MaxTroubles = 1
  MaxManual = 0
  MaxTouches = 2
  MaxCancels = 0
PROPERTIES
  OffReleases
  EndNoticed
