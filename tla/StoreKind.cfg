SPECIFICATION Spec
CONSTANTS
  Proc = {p1, p2}
  Scope = {global, team}
  Key = {k1}
  Kind = {secret, param}
  Value = {v1}
  File = {f1, f2, f3, f4}
  None = None
  Torn = Torn
  MaxCalls = 3
  MaxFaults = 0
  MaxCrashes = 0
  MaxDamage = 1
SYMMETRY Symmetry
INVARIANTS KindAuthentic
CHECK_DEADLOCK FALSE
