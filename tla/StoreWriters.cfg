SPECIFICATION Spec
CONSTANTS
  Proc = {p1, p2}
  Scope = {global}
  Key = {k1}
  Kind = {secret}
  Value = {v1, v2}
  File = {f1, f2, f3, f4}
  None = None
  Torn = Torn
  MaxCalls = 3
  MaxFaults = 1
  MaxCrashes = 1
  MaxDamage = 0
SYMMETRY Symmetry
INVARIANTS TypeOK ItemsWhole TempsOwned
PROPERTIES CrashKeepsAcked IsAtomic
CHECK_DEADLOCK FALSE
