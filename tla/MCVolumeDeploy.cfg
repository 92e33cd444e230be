SPECIFICATION Spec
CONSTANTS
  Deploys = {d1, d2}
  Sizes = {1, 2}
  Nil = Nil
  MaxApplies = 4
  MaxFaults = 2
  MaxCrashes = 2
INVARIANTS
  RecordedIsInApp
  RunsWhatIsRecorded
  HasItsSize
PROPERTIES
  ImplementsStore
