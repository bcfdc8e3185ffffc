SPECIFICATION Spec
CONSTANTS
  Proc = {p1, p2}
  Path = {home, other}
  home = home
  beside = beside
  away = away
  DefaultPath = home
  Dir = {beside, away}
  ConfigDir = beside
  Within <- MCWithin
  None = None
  MaxRuns = 3
  MaxFaults = 1
  MaxKills = 0
  MaxCrashes = 0
SYMMETRY Symmetry
INVARIANTS ReceiptTrue
CHECK_DEADLOCK FALSE
