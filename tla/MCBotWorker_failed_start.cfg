SPECIFICATION Spec
CONSTANTS
  Deploys = {d1}
  Configs = {c1}
  NoDeploy = NoDeploy
  NoVolume = NoVolume
  NoSpec = NoSpec
  NoBox = NoBox
  NoReport = NoReport
  BackoffCap = 3
  MaxRequests = 1
  MaxRestarts = 0
  MaxExits = 1
  MaxFaults = 1
  MaxReboots = 0
INVARIANT FailedStartIsACrash
