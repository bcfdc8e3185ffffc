SPECIFICATION RunSpec
CONSTANTS
  Proc = {runner, p1}
  Runner = runner
  Scope = {global}
  Home = global
  Key = {NVAULT_PASSPHRASE, DB_URL}
  Name = {NVAULT_PASSPHRASE, DB_URL, PATH}
  Seam = {NVAULT_PASSPHRASE}
  Kind = {secret}
  Value = {v1, v2}
  Nul = {v2}
  Old = Old
  None = None
  MaxOthers = 2
INVARIANTS RunTypeOK ChildExact SelectionWhole
CHECK_DEADLOCK FALSE
