SPECIFICATION FairSpec
CONSTANTS
  Handlers = {h1, h2}
  Subs = {s1, s2}
  Nodes = {1, 2}
  Bots = {b1, b2}
  Sizes <- MCOneSize
  Limits <- MCOneLimit
  Capacity <- MCCapacity
  MaxInt = 7
  MaxFaults = 0
  NoBot = NoBot
  NoSub = NoSub
PROPERTIES
  RequestsEnd
  PlacementFits
