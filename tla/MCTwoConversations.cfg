SPECIFICATION Spec
CONSTANT
  Openings <- AllPaths
INVARIANTS
  SameConversation
  SameRecord
CHECK_DEADLOCK FALSE
