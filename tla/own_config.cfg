\* A bound on the keys made ends the behaviour
SPECIFICATION Spec
CHECK_DEADLOCK FALSE
CONSTANTS
  Sessions = {s1}
  MaxKeys = 1
  SetupTrouble = {"odd"}
INVARIANT NothingRewritten
