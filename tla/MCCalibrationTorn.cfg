SPECIFICATION Spec
CONSTANTS
  Openings <- First
  Hasty = FALSE
  Touches = 0
INVARIANT SaveIsWhole
CHECK_DEADLOCK FALSE
