SPECIFICATION Spec
CONSTANTS
  Events = {}
  Manuals = {}
  Nobody = Nobody
  MaxDay = 2
  MaxTroubles = 1
PROPERTIES
  StoredPriced
  PublishedStored
