SPECIFICATION Spec
CONSTANTS
  Events = {drift}
  Manuals = {propose}
  Nobody = Nobody
  MaxDay = 2
  MaxTroubles = 1
INVARIANTS
  Exclusive
PROPERTIES
  PlanForward
  PendingKept
  KeepsPromise
