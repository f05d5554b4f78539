SPECIFICATION FairSpec
CONSTANTS
  Offsets <- MCBoost
  Settings <- MCSettings
  SlotLen = 2
  RestoreLen = 1
  Lead = 1
  Grace = 1
  Respect = 1
  Expiry = 1
  Midnight = 4
  Warmup = 2
  Horizon = 6
  MaxTime = 7
  MaxPlans = 2
  MaxTroubles = 1
INVARIANTS
  TypeOK
  OneRowPerSlot
PROPERTIES
  UnderWayKept
  OffsetReturns
  HoldEnds
