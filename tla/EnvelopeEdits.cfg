SPECIFICATION Spec
CONSTANTS
  Key = {alice, bob}
  ZeroKey = ZeroKey
  Label = {l1, l2}
  Slot = {s1, s2}
  Damaged = Damaged
  MaxRecipients = 2
  MaxSeals = 2
  MaxRewraps = 1
  MaxEdits = 1
SYMMETRY Symmetry
INVARIANTS TypeOK OpensWhatWasSealed MadeOpens BothOpen
CHECK_DEADLOCK FALSE
