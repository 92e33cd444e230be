SPECIFICATION FairSpec
CONSTANTS
  Bots = {b1, b2}
  MaxChanges = 2
  MaxTroubles = 1
CHECK_DEADLOCK FALSE
PROPERTIES
  RemovedOnPurpose
  SyncHeals
