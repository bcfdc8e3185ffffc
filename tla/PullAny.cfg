SPECIFICATION FairSpec
CONSTANTS
  Key = {a, b, c}
  Cursor = {c1, c2, c3}
  None = None
  Revision = {1, 2}
  Weight = {0, 1}
  Limit = 2
  MaxItems = 2
  MaxPages = 3
  MaxBytes = 1
INVARIANTS TypeOK PullExact PullBounded LimitsLenient
PROPERTIES AsksOnce PullEnds
CHECK_DEADLOCK FALSE
