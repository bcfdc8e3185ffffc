SPECIFICATION Spec
CONSTANTS
  Proc = {p1, p2}
  Path = {home, other}
  home = home
  beside = beside
  away = away
  DefaultPath = home
  Dir = {beside, away}
  ConfigDir = beside
  Within <- MCWithin
  None = None
  MaxRuns = 3
  MaxFaults = 1
  MaxKills = 1
  MaxCrashes = 1
SYMMETRY Symmetry
INVARIANTS TypeOK ReadyKept ConfigHasIdentity NothingLeft ReceiptTrueUnfailing
PROPERTIES NeverReplaces
CHECK_DEADLOCK FALSE
