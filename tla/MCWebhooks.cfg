SPECIFICATION FairSpec
CONSTANTS
  Events = {v1}
  Endpoints = {e1, e2}
  MaxAttempts = 2
  MaxWorkers = 2
  MaxRetries = 1
  MaxTroubles = 1
  NoDelivery = NoDelivery
CHECK_DEADLOCK FALSE
INVARIANTS
  StatusIsTrue
  OthersAreTold
PROPERTIES
  DeliveredStays
  DeliveriesEnd
