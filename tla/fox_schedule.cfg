SPECIFICATION FairSpec
CONSTANTS
  p1 = p1
  p2 = p2
  NoPlan = NoPlan
  Plans <- MCPlans
  MaxUploads = 2
  MaxTroubles = 1
INVARIANTS
  AgreeUndisturbed
PROPERTIES
  UploadLeavesIntent
  Converges
