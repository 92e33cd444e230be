SPECIFICATION FairSpec
CONSTANTS
  Deploys = {d1}
  Configs = {c1}
  NoDeploy = NoDeploy
  NoVolume = NoVolume
  NoSpec = NoSpec
  NoBox = NoBox
  NoReport = NoReport
  BackoffCap = 3
  MaxRequests = 3
  MaxRestarts = 1
  MaxExits = 1
  MaxFaults = 1
  MaxReboots = 1
INVARIANTS
  NoLostWakeup
  AppliedIsInForce
  StoppedStaysDown
  DownIsNoticed
  RetiredLeavesNothing
PROPERTIES
  ImplementsSupervisor
  RequestsAreServed
  Converges
