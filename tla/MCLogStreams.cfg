SPECIFICATION FairSpec
CONSTANTS
  Browsers = {w1, w2}
  MaxLines = 2
  MaxMoves = 3
  MaxConns = 2
CHECK_DEADLOCK FALSE
INVARIANTS
  ShowsTheOutput
PROPERTIES
  ShowsAll
  UnwatchedIsQuiet
