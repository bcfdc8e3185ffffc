SPECIFICATION Spec
CONSTANTS
  Key = {a, b}
  MaxItems = 2
  MaxCalls = 3
SYMMETRY Symmetry
INVARIANTS TypeOK PushTrue VersionsTrue DeleteTrue
CHECK_DEADLOCK FALSE
