SPECIFICATION Spec
CONSTANTS
  Openings <- Corrections
  Hasty = TRUE
  Touches = 1
INVARIANT InterruptedIsAtRest
CHECK_DEADLOCK FALSE
