SPECIFICATION FairSpec
CONSTANTS
  Openings <- First
  Hasty = FALSE
  Touches = 1
INVARIANTS
  KnowsWhereItIs
  StartsFromItsEnd
  ReviewIsComplete
PROPERTIES
  OnlyWhatWasAsked
  AbandonedSessionEnds
CHECK_DEADLOCK FALSE
