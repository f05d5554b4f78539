SPECIFICATION FairSpec
CONSTANTS
  Keys = {k1, k2}
  Values = {0, 1, 2}
  Starts = {0}
  Cap = 1
  Verdict = 1
  MaxDeferrals = 1
  ManualFreeze = 1
  RollbackFreeze = 1
  NoKey = NoKey
  MaxDay = 3
  MaxProposals = 2
  MaxWrites = 1
  MaxTroubles = 1
INVARIANTS
  LedgerTrue
  DriftBounded
  FreezeKept
PROPERTIES
  OneChange
  Judged
CHECK_DEADLOCK FALSE
