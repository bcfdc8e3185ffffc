SPECIFICATION Spec
CONSTANTS
  Proc = {p1, p2}
  Scope = {global}
  Key = {k1, k2}
  Kind = {secret, param}
  Value = {v1}
  File = {f1, f2, f3}
  None = None
  Torn = Torn
  MaxCalls = 4
  MaxFaults = 0
  MaxCrashes = 0
  MaxDamage = 0
SYMMETRY Symmetry
PROPERTIES IsAtomic
CHECK_DEADLOCK FALSE
