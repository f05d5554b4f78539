SPECIFICATION Spec
CONSTANTS
  Minutes = 2
  Slots = 6
  Horizon = 4
  Cap = 2
  Recent = 2
  HoldMax = 1
  Keys <- MCKeys
  Plans <- MCPlans
  Starts = {7}
  MaxTime = 16
  MaxSolves = 2
  MaxStops = 1
INVARIANTS
  TypeOK
  AsDecided
PROPERTIES
  LiveSlot
