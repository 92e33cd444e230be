SPECIFICATION Spec
CONSTANTS
  MaxOps = 2
  MaxEvents = 1
  MaxConns = 2
  NoSpec = NoSpec
CHECK_DEADLOCK FALSE
INVARIANTS
  LiveWasInstalled
  OneLiveDeploy
  FailedIsNotCurrent
  SyncHeals
  FetchingWillEnd
