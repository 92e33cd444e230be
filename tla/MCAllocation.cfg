SPECIFICATION Spec
CONSTANTS
  Handlers = {h1, h2}
  Subs = {s1}
  Nodes = {1, 2}
  Bots = {b1, b2}
  Sizes <- MCSizes
  Limits <- MCTwoLimits
  Capacity <- MCLargeCapacity
  MaxInt = 7
  MaxFaults = 1
  NoBot = NoBot
  NoSub = NoSub
SYMMETRY Symmetry
INVARIANTS
  TerminatedIsEmptied
PROPERTIES
  AllocationsFit
  CreatedWhereAllowed
